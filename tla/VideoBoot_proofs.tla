-------------------------- MODULE VideoBoot_proofs --------------------------
(***************************************************************************)
(* Proofs about VideoBoot, for any machines, settings and number of boots. *)
(* The screens are set back whatever the search of RequestVideo.c finds;   *)
(* what it finds, and what the walks over the slots leave, is proved of    *)
(* any lists of modes and any cards, by induction along the recursion.     *)
(***************************************************************************)
EXTENDS VideoBoot, FiniteSetTheorems, TLAPS

Shown == [mode : Nat \ {0}, bits : Nat \ {0}, mono : BOOLEAN]

(* What the screens of a machine can show: modes they have.                *)
Shows(mac, s) ==
    /\ s \in [DOMAIN mac.screen -> Shown]
    /\ \A i \in DOMAIN mac.screen : HasDepth(mac, s, i, s[i].bits)
-----------------------------------------------------------------------------
(* The calls that set a screen.                                            *)

LEMMA ModeOf ==
    ASSUME NEW mac \in Machines, NEW i \in DOMAIN mac.screen, NEW k \in DOMAIN mac.screen[i].modes
    PROVE  /\ mac.screen[i].modes[k].mode \in Nat \ {0}
           /\ mac.screen[i].modes[k].bits \in Nat \ {0}
  <1>1. mac.screen \in Seq(ScreenType)
    BY MachinesAssumption
  <1>2. mac.screen[i] \in ScreenType
    BY <1>1
  <1>3. mac.screen[i].modes \in Seq(ModeType)
    BY <1>2 DEF ScreenType
  <1>4. mac.screen[i].modes[k] \in ModeType
    BY <1>3
  <1> QED
    BY <1>4 DEF ModeType

(* A depth is set in the timing that is shown, or nothing is.              *)
LEMMA DepthSet ==
    ASSUME NEW mac \in Machines, NEW s, Shows(mac, s), NEW i, NEW bits, NEW mono \in BOOLEAN
    PROVE  LET t == SetDepth(mac, s, i, bits, mono)
           IN  /\ Shows(mac, t)
               /\ \A j \in DOMAIN mac.screen : t[j].mode = s[j].mode
               /\ \A j \in DOMAIN mac.screen \ {i} : t[j] = s[j]
               /\ i \in DOMAIN mac.screen /\ HasDepth(mac, s, i, bits) => t[i].bits = bits
  <1> DEFINE D == DOMAIN mac.screen
             t == SetDepth(mac, s, i, bits, mono)
  <1>0. s \in [D -> Shown] /\ \A j \in D : HasDepth(mac, s, j, s[j].bits)
    BY DEF Shows
  <1>1. CASE ~HasDepth(mac, s, i, bits) \/ i \notin D
    <2>1. t = s
      <3>1. i \notin D => [s EXCEPT ![i].bits = bits, ![i].mono = mono] = s
        BY <1>0
      <3> QED
        BY <1>1, <3>1 DEF SetDepth
    <2> QED
      BY <2>1, <1>1
  <1>2. CASE HasDepth(mac, s, i, bits) /\ i \in D
    <2>1. bits \in Nat \ {0}
      BY <1>2, ModeOf DEF HasDepth
    <2>2. t = [s EXCEPT ![i].bits = bits, ![i].mono = mono]
      BY <1>2 DEF SetDepth
    <2>3. s[i] \in Shown
      BY <1>0, <1>2
    <2> HIDE DEF D, t
    <2>4. \A j \in D \ {i} : t[j] = s[j]
      BY <2>2, <1>0, <1>2
    <2>f. t[i].mode = s[i].mode /\ t[i].bits = bits /\ t[i].mono = mono
      BY <2>2, <2>3, <1>0, <1>2 DEF Shown
    <2>s. t[i] \in Shown /\ t \in [D -> Shown]
      BY <2>1, <2>2, <2>3, <1>0, <1>2 DEF Shown
    <2>5. /\ t \in [D -> Shown] /\ \A j \in D \ {i} : t[j] = s[j]
          /\ t[i].mode = s[i].mode /\ t[i].bits = bits
      BY <2>4, <2>f, <2>s
    <2>6. \A j \in D : t[j].mode = s[j].mode
      BY <2>5
    <2>7. \A j \in D : HasDepth(mac, t, j, t[j].bits)
      <3> TAKE j \in D
      <3>1. HasDepth(mac, s, j, t[j].bits)
        BY <2>5, <1>0, <1>2
      <3> QED
        BY <3>1, <2>6 DEF HasDepth
    <2> QED
      BY <2>5, <2>6, <2>7, <1>2 DEF D, t, Shows
  <1> QED
    BY <1>1, <1>2

(* The Display Manager sets a mode and a depth, or nothing.                *)
LEMMA ModeSet ==
    ASSUME NEW mac \in Machines, NEW s, Shows(mac, s), NEW i, NEW mode, NEW bits
    PROVE  LET t == DMSetDisplayMode(mac, s, i, mode, bits)
               Has == \E k \in DOMAIN mac.screen[i].modes :
                         LET m == mac.screen[i].modes[k]
                         IN  m.mode = mode /\ m.bits = bits /\ m.valid
           IN  /\ Shows(mac, t)
               /\ \A j \in DOMAIN mac.screen \ {i} : t[j] = s[j]
               /\ i \in DOMAIN mac.screen /\ Has => t[i].mode = mode /\ t[i].bits = bits
  <1> DEFINE D == DOMAIN mac.screen
             t == DMSetDisplayMode(mac, s, i, mode, bits)
             Has == \E k \in DOMAIN mac.screen[i].modes :
                       LET m == mac.screen[i].modes[k]
                       IN  m.mode = mode /\ m.bits = bits /\ m.valid
  <1>0. s \in [D -> Shown] /\ \A j \in D : HasDepth(mac, s, j, s[j].bits)
    BY DEF Shows
  <1>1. CASE ~Has \/ i \notin D
    <2>1. t = s
      <3>1. i \notin D => [s EXCEPT ![i].mode = mode, ![i].bits = bits] = s
        BY <1>0
      <3> QED
        BY <1>1, <3>1 DEF DMSetDisplayMode
    <2> QED
      BY <2>1, <1>1
  <1>2. CASE Has /\ i \in D
    <2>1. mode \in Nat \ {0} /\ bits \in Nat \ {0}
      BY <1>2, ModeOf
    <2>2. t = [s EXCEPT ![i].mode = mode, ![i].bits = bits]
      BY <1>2 DEF DMSetDisplayMode
    <2>3. s[i] \in Shown
      BY <1>0, <1>2
    <2>h. Has
      BY <1>2
    <2> HIDE DEF D, t, Has
    <2>4. \A j \in D \ {i} : t[j] = s[j]
      BY <2>2, <1>0, <1>2
    <2>f. t[i].mode = mode /\ t[i].bits = bits
      BY <2>2, <2>3, <1>0, <1>2 DEF Shown
    <2>s. t[i] \in Shown /\ t \in [D -> Shown]
      BY <2>1, <2>2, <2>3, <1>0, <1>2 DEF Shown
    <2>5. /\ t \in [D -> Shown] /\ \A j \in D \ {i} : t[j] = s[j]
          /\ t[i].mode = mode /\ t[i].bits = bits
      BY <2>4, <2>f, <2>s
    <2>7. \A j \in D : HasDepth(mac, t, j, t[j].bits)
      <3> TAKE j \in D
      <3>1. CASE j = i
        BY <3>1, <2>5, <2>h DEF HasDepth, Has
      <3>2. CASE j # i
        <4>1. t[j] = s[j] /\ HasDepth(mac, s, j, s[j].bits)
          BY <3>2, <2>5, <1>0
        <4> QED
          BY <4>1 DEF HasDepth
      <3> QED
        BY <3>1, <3>2
    <2> QED
      BY <2>5, <2>7, <1>2 DEF D, t, Shows
  <1> QED
    BY <1>1, <1>2
(* A device made monochrome, or not, shows the same mode.                  *)
LEMMA ColourSet ==
    ASSUME NEW mac \in Machines, NEW s, Shows(mac, s), NEW r, NEW t, t = Coloured(s, r),
           NEW i, i = r.screenDevice
    PROVE  /\ Shows(mac, t)
           /\ \A j \in DOMAIN mac.screen : t[j].mode = s[j].mode /\ t[j].bits = s[j].bits
           /\ \A j \in DOMAIN mac.screen \ {i} : t[j] = s[j]
  <1> DEFINE D == DOMAIN mac.screen
             mono == r.availBitDepth = 1
  <1>0. s \in [D -> Shown] /\ \A j \in D : HasDepth(mac, s, j, s[j].bits)
    BY DEF Shows
  <1>1. t = [s EXCEPT ![i].mono = mono] /\ mono \in BOOLEAN
    BY DEF Coloured
  <1>2. \A j \in D : s[j] \in Shown
    BY <1>0
  <1> HIDE DEF D, mono
  <1>3. \A j \in D \ {i} : t[j] = s[j]
    BY <1>0, <1>1
  <1>4. i \in D => t[i].mode = s[i].mode /\ t[i].bits = s[i].bits
    BY <1>0, <1>1, <1>2 DEF Shown
  <1>5. t \in [D -> Shown]
    <2>1. i \in D => [s[i] EXCEPT !.mono = mono] \in Shown
      BY <1>1, <1>2 DEF Shown
    <2> QED
      BY <1>0, <1>1, <2>1
  <1>6. \A j \in D : t[j].mode = s[j].mode /\ t[j].bits = s[j].bits
    BY <1>3, <1>4
  <1>7. \A j \in D : HasDepth(mac, t, j, t[j].bits)
    BY <1>0, <1>6 DEF HasDepth
  <1> QED
    BY <1>3, <1>5, <1>6, <1>7 DEF Shows, D

(* A request changes one screen.  One whose driver knows the Display       *)
(* Manager gets the mode and the depth, another the depth alone.           *)
HasMode(mac, i, mode, bits) ==
    \E k \in DOMAIN mac.screen[i].modes :
        LET m == mac.screen[i].modes[k] IN m.mode = mode /\ m.bits = bits /\ m.valid
LEMMA RequestSet ==
    ASSUME NEW mac \in Machines, NEW s, Shows(mac, s), NEW r,
           NEW t, t = RVSetVideoRequest(mac, s, r), NEW d, d = r.screenDevice
    PROVE  /\ Shows(mac, t)
           /\ \A j \in DOMAIN mac.screen \ {d} : t[j] = s[j]
           /\ d \in DOMAIN mac.screen /\ ~mac.screen[d].aware => t[d].mode = s[d].mode
           /\ /\ mac.dm > 1 /\ d \in DOMAIN mac.screen /\ d # Nil
              /\ r.displayMode # 0 /\ r.depthMode # 0
              => /\ mac.screen[d].aware /\ HasMode(mac, d, r.displayMode, r.depthMode)
                      => t[d].mode = r.displayMode /\ t[d].bits = r.depthMode
                 /\ ~mac.screen[d].aware /\ HasDepth(mac, s, d, r.depthMode)
                      => t[d].bits = r.depthMode
  <1> DEFINE D == DOMAIN mac.screen
             c == Coloured(s, r)
             mono == r.availBitDepth = 1
             None == mac.dm = 0 \/ r.displayMode = 0 \/ r.depthMode = 0 \/ d = Nil
             Whole == mac.screen[d].aware /\ (Len(mac.screen) = 1 \/ mac.dm >= 2)
  <1>0. mac.dm \in Nat
    BY MachinesAssumption
  <1>1. /\ Shows(mac, c)
        /\ \A j \in D : c[j].mode = s[j].mode /\ c[j].bits = s[j].bits
        /\ \A j \in D \ {d} : c[j] = s[j]
    <2>1. c = Coloured(s, r) /\ d = r.screenDevice
      OBVIOUS
    <2> HIDE DEF c
    <2> QED
      BY <2>1, ColourSet
  <1>2. CASE None
    <2>1. t = s
      BY <1>2 DEF RVSetVideoRequest
    <2> QED
      BY <2>1, <1>0, <1>2
  <1>3. CASE ~None /\ Whole
    <2>1. t = DMSetDisplayMode(mac, c, d, r.displayMode, r.depthMode)
      BY <1>3 DEF RVSetVideoRequest
    <2> HIDE DEF c
    <2>2. /\ Shows(mac, t) /\ \A j \in D \ {d} : t[j] = c[j]
          /\ d \in D /\ HasMode(mac, d, r.displayMode, r.depthMode)
               => t[d].mode = r.displayMode /\ t[d].bits = r.depthMode
      BY <1>1, <2>1, ModeSet DEF HasMode
    <2> QED
      BY <2>2, <1>1, <1>3
  <1>4. CASE ~None /\ ~Whole
    <2>1. t = SetDepth(mac, c, d, r.depthMode, mono) /\ mono \in BOOLEAN
      BY <1>4 DEF RVSetVideoRequest
    <2>h. HasDepth(mac, s, d, r.depthMode) /\ d \in D => HasDepth(mac, c, d, r.depthMode)
      BY <1>1 DEF HasDepth
    <2> HIDE DEF c, mono
    <2>2. /\ Shows(mac, t) /\ \A j \in D \ {d} : t[j] = c[j]
          /\ \A j \in D : t[j].mode = c[j].mode
          /\ d \in D /\ HasDepth(mac, c, d, r.depthMode) => t[d].bits = r.depthMode
      BY <1>1, <2>1, DepthSet
    <2>3. mac.dm > 1 => ~mac.screen[d].aware
      BY <1>0, <1>4
    <2> QED
      BY <2>2, <2>3, <2>h, <1>1
  <1> QED
    BY <1>2, <1>3, <1>4
-----------------------------------------------------------------------------
Unsaved == savedDepth = FALSE /\ gotVideoSetting = FALSE
(* Only the main screen's depth differs from what the user had.            *)
DepthAside(s, other) ==
    \A i \in DOMAIN machine.screen \ {other} :
        s[i].mode = user[i].mode /\ (i # main => s[i].bits = user[i].bits)

(* What is needed to set the screens back: the depth of the main screen,   *)
(* and the setting of the one screen that has changed its mode, unless it  *)
(* cannot be set.                                                          *)
Sized ==
    LET d == originalRec.screenDevice
    IN  /\ machine.dm > 1 /\ d # Nil /\ DepthAside(screens, d)
        /\ d \in DOMAIN machine.screen =>
             /\ originalRec.displayMode = user[d].mode /\ originalRec.depthMode = user[d].bits
             /\ ~machine.screen[d].aware => screens[d].mode = user[d].mode
Kept ==
    /\ savedDepth /\ main # Nil
    /\ currentDepth = SavedBits(user[main].bits) /\ currentModeGreys \in BOOLEAN
    /\ IF gotVideoSetting THEN sound => Sized ELSE DepthAside(screens, Nil)

ScreensInv ==
    /\ machine \in Machines /\ cfg \in Configs
    /\ Shows(machine, screens) /\ Shows(machine, user)
    /\ pc \in {"idle", "monitor"} => Unsaved
    /\ pc = "monitor" => screens = user /\ Configured(cfg) /\ main # Nil
    /\ pc \notin {"idle", "monitor"} =>
         IF Configured(cfg) THEN Kept ELSE Unsaved /\ screens = user
    /\ MonitorRestored

(* What is shown is a mode and a depth the screen has.                     *)
LEMMA ShownIs ==
    ASSUME NEW mac \in Machines, NEW s, Shows(mac, s), NEW i \in DOMAIN mac.screen
    PROVE  /\ s[i].mode \in Nat \ {0} /\ s[i].bits \in Nat \ {0} /\ s[i].mono \in BOOLEAN
           /\ HasMode(mac, i, s[i].mode, s[i].bits) /\ HasDepth(mac, s, i, s[i].bits)
  <1>1. s[i] \in Shown /\ HasDepth(mac, s, i, s[i].bits)
    BY DEF Shows
  <1> QED
    BY <1>1 DEF Shown, HasDepth, HasMode

LEMMA InitScreens == Init => ScreensInv
  <1> SUFFICES ASSUME Init PROVE ScreensInv
    OBVIOUS
  <1>1. machine \in Machines /\ cfg \in Configs
    BY ConfigsAssumption DEF Init
  <1>2. screens \in [DOMAIN machine.screen -> Settings]
    BY DEF Init
  <1>3. \A i \in DOMAIN machine.screen : screens[i] \in Settings
    BY <1>2
  <1>4. \A i \in DOMAIN machine.screen : screens[i] \in Shown
    BY <1>3 DEF Settings, Shown
  <1>5. \A i \in DOMAIN machine.screen : HasDepth(machine, screens, i, screens[i].bits)
    BY <1>2 DEF Init
  <1>6. Shows(machine, screens) /\ user = screens
    BY <1>2, <1>4, <1>5 DEF Shows, Init
  <1>7. pc = "idle" /\ Unsaved
    BY DEF Init, Unsaved
  <1> QED
    BY <1>1, <1>6, <1>7 DEF ScreensInv, MonitorRestored

(* The main screen's depth is changed in its timing.                       *)
LEMMA MainSet ==
    ASSUME ScreensInv, NEW s, Shows(machine, s), NEW bits, NEW greys \in BOOLEAN, main # Nil,
           NEW t, t = SetMain(s, bits, greys)
    PROVE  /\ Shows(machine, t)
           /\ \A j \in DOMAIN machine.screen : t[j].mode = s[j].mode
           /\ \A j \in DOMAIN machine.screen \ {main} : t[j] = s[j]
           /\ HasDepth(machine, s, main, bits) => t[main].bits = bits
  <1>1. machine \in Machines /\ main \in DOMAIN machine.screen
    BY MachinesAssumption DEF ScreensInv, main
  <1>2. (greys \/ s[main].mono) \in BOOLEAN
    BY <1>1, ShownIs
  <1> DEFINE g == greys \/ s[main].mono
  <1>3. g \in BOOLEAN /\ t = SetDepth(machine, s, main, bits, g)
    BY <1>2 DEF SetMain
  <1> HIDE DEF g
  <1>4. /\ Shows(machine, t)
        /\ \A j \in DOMAIN machine.screen : t[j].mode = s[j].mode
        /\ \A j \in DOMAIN machine.screen \ {main} : t[j] = s[j]
        /\ main \in DOMAIN machine.screen /\ HasDepth(machine, s, main, bits) => t[main].bits = bits
    BY <1>1, <1>3, DepthSet
  <1> QED
    BY <1>1, <1>4

(* The steps that leave the screens and what is kept of them alone.        *)
LEMMA ScreensKept ==
    ASSUME ScreensInv, UNCHANGED <<machine, cfg, screens, saved, user, sound>>,
           pc' = pc \/ {pc, pc'} \cap {"idle", "monitor"} = {}
    PROVE  ScreensInv'
  <1>0. /\ machine' = machine /\ cfg' = cfg /\ screens' = screens /\ user' = user
        /\ sound' = sound /\ savedDepth' = savedDepth /\ currentDepth' = currentDepth
        /\ currentModeGreys' = currentModeGreys /\ gotVideoSetting' = gotVideoSetting
        /\ originalRec' = originalRec /\ main' = main
    BY DEF saved, main
  <1>1. machine' \in Machines /\ cfg' \in Configs
    BY <1>0 DEF ScreensInv
  <1>2. Shows(machine', screens') /\ Shows(machine', user')
    BY <1>0 DEF ScreensInv
  <1>3. Unsaved' <=> Unsaved
    BY <1>0 DEF Unsaved
  <1>5. Sized' <=> Sized
    <2>1. DepthAside(screens, originalRec.screenDevice)'
            <=> DepthAside(screens, originalRec.screenDevice)
      BY <1>0 DEF DepthAside
    <2> QED
      BY <1>0, <2>1 DEF Sized
  <1>6. Kept' <=> Kept
    <2>1. DepthAside(screens, Nil)' <=> DepthAside(screens, Nil)
      BY <1>0 DEF DepthAside
    <2> QED
      BY <1>0, <1>5, <2>1 DEF Kept
  <1>7. MonitorRestored'
    BY <1>0 DEF ScreensInv, MonitorRestored
  <1>8. Configured(cfg') <=> Configured(cfg)
    BY <1>0
  <1>9. /\ pc' \in {"idle", "monitor"} => pc' = pc
        /\ pc' \notin {"idle", "monitor"} => pc \notin {"idle", "monitor"}
    OBVIOUS
  <1> QED
    BY <1>0, <1>1, <1>2, <1>3, <1>6, <1>7, <1>8, <1>9 DEF ScreensInv

LEMMA BootScreens == ScreensInv /\ Boot => ScreensInv'
  <1> SUFFICES ASSUME ScreensInv, Boot PROVE ScreensInv'
    OBVIOUS
  <1>1. /\ machine' = machine /\ screens' = screens /\ user' = screens /\ cfg' \in Configs
        /\ UNCHANGED saved /\ pc = "idle"
        /\ (Configured(cfg') => main # Nil)
        /\ pc' = IF Configured(cfg') THEN "monitor" ELSE "address"
    BY DEF Boot
  <1>2. Unsaved'
    <2>1. Unsaved
      BY <1>1 DEF ScreensInv
    <2>2. savedDepth' = savedDepth /\ gotVideoSetting' = gotVideoSetting
      BY <1>1 DEF saved
    <2> QED
      BY <2>1, <2>2 DEF Unsaved
  <1>3. machine' \in Machines /\ Shows(machine', screens') /\ Shows(machine', user')
    BY <1>1 DEF ScreensInv
  <1>4. main' = main
    BY <1>1 DEF main
  <1>5. MonitorRestored'
    BY <1>1 DEF MonitorRestored
  <1>6. CASE Configured(cfg')
    BY <1>1, <1>2, <1>3, <1>4, <1>5, <1>6 DEF ScreensInv
  <1>7. CASE ~Configured(cfg')
    BY <1>1, <1>2, <1>3, <1>5, <1>7 DEF ScreensInv
  <1> QED
    BY <1>6, <1>7
-----------------------------------------------------------------------------
(* Monitors.c.                                                             *)

(* With only the depth of the main screen changed.                         *)
LEMMA DepthChanged ==
    ASSUME ScreensInv, pc = "monitor", MonitorChange,
           ~(cfg.MonitorSize # "none" /\ GetDisplayMgrVers > 1)
    PROVE  Shows(machine, screens') /\ gotVideoSetting' = FALSE /\ DepthAside(screens', Nil)
  <1> DEFINE depth == IF cfg.MonitorDepth = 0 THEN SavedBits(screens[main].bits)
                      ELSE cfg.MonitorDepth
             bits == GreyDepth(depth, cfg.setToGreys)
             greys == cfg.setToGreys
  <1>1. /\ screens' = SetMain(screens, bits, greys) /\ gotVideoSetting' = gotVideoSetting
        /\ main # Nil /\ screens = user /\ gotVideoSetting = FALSE /\ Shows(machine, screens)
        /\ greys \in BOOLEAN
    BY ConfigsAssumption DEF ScreensInv, MonitorChange, Unsaved
  <1> HIDE DEF bits, greys
  <1>2. /\ Shows(machine, screens')
        /\ \A j \in DOMAIN machine.screen : screens'[j].mode = screens[j].mode
        /\ \A j \in DOMAIN machine.screen \ {main} : screens'[j] = screens[j]
    BY <1>1, MainSet
  <1> QED
    BY <1>1, <1>2 DEF DepthAside

(* A setting that is read is what the screen shows.                        *)
LEMMA SettingRead ==
    ASSUME NEW mac, NEW s, NEW d, NEW o, o = RVGetCurrentVideoSetting(mac, s, d)
    PROVE  /\ o.screenDevice = d
           /\ o.displayMode # NoMode =>
                /\ d # Nil /\ o.displayMode = s[d].mode /\ o.depthMode = s[d].bits
  <1> DEFINE None == [Request(0, 0, 0, {}) EXCEPT !.screenDevice = d, !.displayMode = NoMode,
                                                  !.depthMode = NoMode]
             Read == d # Nil /\ mac.screen[d].reports
  <1>1. None.screenDevice = d /\ None.displayMode = NoMode
    BY DEF Request
  <1>2. o = IF Read THEN [None EXCEPT !.displayMode = s[d].mode, !.depthMode = s[d].bits]
            ELSE None
    BY DEF RVGetCurrentVideoSetting
  <1>3. CASE ~Read
    BY <1>1, <1>2, <1>3
  <1>4. CASE Read
    BY <1>2, <1>4 DEF Request
  <1> QED
    BY <1>3, <1>4

(* Setting a mode and, if it is not confirmed, the one before it, changes  *)
(* one screen.                                                             *)
LEMMA SizeSet ==
    ASSUME ScreensInv, NEW r, NEW o, NEW hit, NEW d, r.screenDevice = d, o.screenDevice = d,
           NEW t, t = Resized(r, o, hit)
    PROVE  /\ Shows(machine, t)
           /\ \A j \in DOMAIN machine.screen \ {d} : t[j] = screens[j]
           /\ d \in DOMAIN machine.screen /\ ~machine.screen[d].aware
                => t[d].mode = screens[d].mode
  <1> DEFINE u == RVSetVideoRequest(machine, screens, r)
  <1>0. machine \in Machines /\ Shows(machine, screens)
    BY DEF ScreensInv
  <1>1. /\ Shows(machine, u)
        /\ \A j \in DOMAIN machine.screen \ {d} : u[j] = screens[j]
        /\ d \in DOMAIN machine.screen /\ ~machine.screen[d].aware => u[d].mode = screens[d].mode
    BY <1>0, RequestSet
  <1>2. t = u \/ t = RVSetVideoRequest(machine, u, o)
    BY DEF Resized
  <1> HIDE DEF u
  <1>3. CASE t = u
    BY <1>1, <1>3
  <1>4. CASE t = RVSetVideoRequest(machine, u, o)
    <2>1. /\ Shows(machine, t)
          /\ \A j \in DOMAIN machine.screen \ {d} : t[j] = u[j]
          /\ d \in DOMAIN machine.screen /\ ~machine.screen[d].aware => t[d].mode = u[d].mode
      <3>1. Shows(machine, u) /\ d = o.screenDevice
        BY <1>1
      <3> QED
        BY <1>0, <3>1, <1>4, RequestSet
    <2> QED
      BY <1>1, <2>1
  <1> QED
    BY <1>2, <1>3, <1>4

(* With another size: if the screen that changes was one and was read,     *)
(* what it showed is kept.                                                 *)
LEMMA SizeChanged ==
    ASSUME ScreensInv, pc = "monitor", MonitorChange,
           cfg.MonitorSize # "none", GetDisplayMgrVers > 1
    PROVE  /\ Shows(machine, screens') /\ gotVideoSetting' = TRUE
           /\ sound' => LET d == originalRec'.screenDevice
                        IN  /\ d # Nil /\ DepthAside(screens', d)
                            /\ originalRec'.displayMode = screens[d].mode
                            /\ originalRec'.depthMode = screens[d].bits
                            /\ d \in DOMAIN machine.screen /\ ~machine.screen[d].aware
                                 => screens'[d].mode = user[d].mode
  <1> DEFINE depth == IF cfg.MonitorDepth = 0 THEN SavedBits(screens[main].bits)
                      ELSE cfg.MonitorDepth
             size == cfg.MonitorSize
             bits == GreyDepth(depth, TRUE)
  <1>0. /\ machine \in Machines /\ Shows(machine, screens) /\ screens = user /\ main # Nil
        /\ cfg.setToGreys \in BOOLEAN
    BY ConfigsAssumption DEF ScreensInv
  <1>1. ChangeSize(depth, size)
    BY DEF MonitorChange
  <1>2. PICK r, hit, junk :
          LET asked    == IF r.screenDevice = Nil THEN [r EXCEPT !.notSafe = junk] ELSE r
              original == RVGetCurrentVideoSetting(machine, screens, r.screenDevice)
              resized  == Resized(asked, original, hit)
          IN  /\ originalRec' = original /\ gotVideoSetting' = TRUE
              /\ sound' = (sound /\ original.displayMode # NoMode)
              /\ screens' = IF cfg.setToGreys THEN SetMain(resized, bits, TRUE) ELSE resized
    BY <1>1 DEF ChangeSize
  <1> DEFINE d == r.screenDevice
             asked == IF d = Nil THEN [r EXCEPT !.notSafe = junk] ELSE r
             o == RVGetCurrentVideoSetting(machine, screens, d)
             t == Resized(asked, o, hit)
  <1>3. /\ originalRec' = o /\ gotVideoSetting' = TRUE
        /\ sound' = (sound /\ o.displayMode # NoMode)
        /\ screens' = IF cfg.setToGreys THEN SetMain(t, bits, TRUE) ELSE t
    BY <1>2
  <1>4. o.screenDevice = d /\ (o.displayMode # NoMode =>
            d # Nil /\ o.displayMode = screens[d].mode /\ o.depthMode = screens[d].bits)
    BY SettingRead
  <1>5. /\ Shows(machine, t)
        /\ d # Nil =>
             /\ \A j \in DOMAIN machine.screen \ {d} : t[j] = screens[j]
             /\ d \in DOMAIN machine.screen /\ ~machine.screen[d].aware
                  => t[d].mode = screens[d].mode
    <2>1. PICK e : e = asked.screenDevice
      OBVIOUS
    <2> DEFINE Lone == RVSetVideoRequest(machine, screens, asked)
    <2>2. CASE d # Nil
      <3>1. asked.screenDevice = d
        BY <2>2
      <3> HIDE DEF d, asked, o, t
      <3>2. t = Resized(asked, o, hit)
        BY DEF t
      <3> QED
        BY <3>1, <3>2, <1>4, SizeSet
    <2>3. CASE d = Nil
      <3>1. Shows(machine, Lone)
        <4> HIDE DEF asked
        <4> QED
          BY <1>0, RequestSet
      <3>2. Shows(machine, RVSetVideoRequest(machine, Lone, o))
        <4> HIDE DEF Lone, o
        <4> QED
          BY <1>0, <3>1, RequestSet
      <3>3. t = Lone \/ t = RVSetVideoRequest(machine, Lone, o)
        BY DEF Resized
      <3> HIDE DEF Lone, o, t, asked
      <3> QED
        BY <3>1, <3>2, <3>3, <2>3
    <2> QED
      BY <2>2, <2>3
  <1> HIDE DEF d, asked, o, t, bits
  <1>6. /\ Shows(machine, screens')
        /\ \A j \in DOMAIN machine.screen : screens'[j].mode = t[j].mode
        /\ \A j \in DOMAIN machine.screen \ {main} : screens'[j] = t[j]
    <2>1. CASE ~cfg.setToGreys
      BY <1>3, <1>5, <2>1
    <2>2. CASE cfg.setToGreys
      <3> DEFINE greys == TRUE
      <3>1. screens' = SetMain(t, bits, greys) /\ greys \in BOOLEAN /\ Shows(machine, t)
        BY <1>3, <1>5, <2>2
      <3> HIDE DEF greys
      <3> QED
        BY <3>1, <1>0, <1>5, MainSet
    <2> QED
      BY <2>1, <2>2
  <1>7. ASSUME sound' PROVE d # Nil /\ DepthAside(screens', d)
    <2>1. d # Nil
      BY <1>3, <1>4, <1>7
    <2> QED
      BY <2>1, <1>0, <1>5, <1>6 DEF DepthAside
  <1> QED
    BY <1>0, <1>3, <1>4, <1>5, <1>6, <1>7

LEMMA MonitorScreens == ScreensInv /\ MonitorChange => ScreensInv'
  <1> SUFFICES ASSUME ScreensInv, MonitorChange PROVE ScreensInv'
    OBVIOUS
  <1> DEFINE Big == cfg.MonitorSize # "none" /\ GetDisplayMgrVers > 1
             d == originalRec'.screenDevice
  <1>1. /\ machine' = machine /\ cfg' = cfg /\ user' = user /\ pc = "monitor" /\ pc' = "address"
        /\ savedDepth' = TRUE /\ currentModeGreys' = screens[main].mono
        /\ currentDepth' = SavedBits(screens[main].bits)
    BY DEF MonitorChange, SaveDepth
  <1>2. /\ machine \in Machines /\ cfg \in Configs /\ Shows(machine, user)
        /\ screens = user /\ Configured(cfg) /\ main # Nil
    BY <1>1 DEF ScreensInv
  <1>3. main' = main /\ main \in DOMAIN machine.screen
    BY <1>1, <1>2, MachinesAssumption DEF main
  <1>4. screens[main].mono \in BOOLEAN
    BY <1>2, <1>3, ShownIs
  <1>5. Shows(machine, screens')
    BY <1>1, DepthChanged, SizeChanged
  <1>6. ASSUME ~Big PROVE Kept'
    <2>1. gotVideoSetting' = FALSE /\ DepthAside(screens', Nil)
      BY <1>1, <1>6, DepthChanged
    <2>2. DepthAside(screens, Nil)'
      BY <1>1, <1>3, <2>1 DEF DepthAside
    <2> QED
      BY <1>1, <1>2, <1>3, <1>4, <2>1, <2>2 DEF Kept
  <1>7. ASSUME Big PROVE Kept'
    <2>1. gotVideoSetting' = TRUE
      BY <1>1, <1>7, SizeChanged
    <2>2. ASSUME sound' PROVE Sized'
      <3>1. /\ d # Nil /\ DepthAside(screens', d)
            /\ originalRec'.displayMode = screens[d].mode
            /\ originalRec'.depthMode = screens[d].bits
            /\ d \in DOMAIN machine.screen /\ ~machine.screen[d].aware
                 => screens'[d].mode = user[d].mode
        BY <1>1, <1>7, <2>2, SizeChanged
      <3>2. DepthAside(screens, originalRec.screenDevice)'
        BY <1>1, <1>3, <3>1 DEF DepthAside
      <3>3. machine.dm > 1
        BY <1>7 DEF GetDisplayMgrVers
      <3> QED
        BY <1>1, <1>2, <3>1, <3>2, <3>3 DEF Sized
    <2> QED
      BY <1>1, <1>2, <1>3, <1>4, <2>1, <2>2 DEF Kept
  <1>8. Kept'
    BY <1>6, <1>7
  <1>9. Configured(cfg') /\ MonitorRestored'
    BY <1>1, <1>2 DEF MonitorRestored
  <1> QED
    BY <1>1, <1>2, <1>5, <1>8, <1>9 DEF ScreensInv

(* The depth of the main screen, once set back, is what the user had, if   *)
(* its timing is; and no other screen is touched.                          *)
LEMMA MainBack ==
    ASSUME ScreensInv, Kept, NEW t, t = DepthRestored
    PROVE  /\ Shows(machine, t)
           /\ \A j \in DOMAIN machine.screen : t[j].mode = screens[j].mode
           /\ \A j \in DOMAIN machine.screen \ {main} : t[j] = screens[j]
           /\ screens[main].mode = user[main].mode /\ user[main].bits # 32
                => t[main].bits = user[main].bits
  <1>1. /\ machine \in Machines /\ Shows(machine, screens) /\ Shows(machine, user)
    BY DEF ScreensInv
  <1>2. /\ main # Nil /\ currentDepth = SavedBits(user[main].bits) /\ currentModeGreys \in BOOLEAN
        /\ savedDepth
    BY DEF Kept
  <1>3. main \in DOMAIN machine.screen
    BY <1>1, <1>2, MachinesAssumption DEF main
  <1>4. t = SetMain(screens, currentDepth, currentModeGreys)
    BY <1>2 DEF DepthRestored
  <1>5. /\ Shows(machine, t)
        /\ \A j \in DOMAIN machine.screen : t[j].mode = screens[j].mode
        /\ \A j \in DOMAIN machine.screen \ {main} : t[j] = screens[j]
        /\ HasDepth(machine, screens, main, currentDepth) => t[main].bits = currentDepth
    BY <1>1, <1>2, <1>4, MainSet
  <1>6. ASSUME screens[main].mode = user[main].mode, user[main].bits # 32
        PROVE  t[main].bits = user[main].bits
    <2>1. currentDepth = user[main].bits
      BY <1>2, <1>6 DEF SavedBits
    <2>2. HasDepth(machine, user, main, user[main].bits)
      BY <1>1, <1>3, ShownIs
    <2>3. HasDepth(machine, screens, main, user[main].bits)
      BY <2>2, <1>6 DEF HasDepth
    <2> QED
      BY <1>5, <2>1, <2>3
  <1> QED
    BY <1>5, <1>6

Restored(s) == \A i \in DOMAIN machine.screen :
                   /\ s[i].mode = user[i].mode
                   /\ s[i].bits = user[i].bits \/ (i = main /\ user[i].bits = 32)

(* A request for what the screen that changed its mode showed before.      *)
LEMMA SizeBack ==
    ASSUME ScreensInv, Kept, Sized, NEW s, s = DepthRestored,
           NEW t, t = RVSetVideoRequest(machine, s, originalRec)
    PROVE  Restored(t)
  <1> DEFINE d == originalRec.screenDevice
             D == DOMAIN machine.screen
  <1>0. machine \in Machines /\ Shows(machine, user)
    BY DEF ScreensInv
  <1>1. /\ Shows(machine, s) /\ \A j \in D : s[j].mode = screens[j].mode
        /\ \A j \in D \ {main} : s[j] = screens[j]
        /\ screens[main].mode = user[main].mode /\ user[main].bits # 32
                => s[main].bits = user[main].bits
    BY MainBack
  <1>2. /\ machine.dm > 1 /\ d # Nil /\ DepthAside(screens, d)
        /\ d \in D => /\ originalRec.displayMode = user[d].mode
                      /\ originalRec.depthMode = user[d].bits
                      /\ ~machine.screen[d].aware => screens[d].mode = user[d].mode
    BY DEF Sized
  <1>3. /\ \A j \in D \ {d} : t[j] = s[j]
        /\ d \in D /\ ~machine.screen[d].aware => t[d].mode = s[d].mode
        /\ d \in D /\ originalRec.displayMode # 0 /\ originalRec.depthMode # 0
           => /\ machine.screen[d].aware
                   /\ HasMode(machine, d, originalRec.displayMode, originalRec.depthMode)
                   => t[d].mode = originalRec.displayMode /\ t[d].bits = originalRec.depthMode
              /\ ~machine.screen[d].aware /\ HasDepth(machine, s, d, originalRec.depthMode)
                   => t[d].bits = originalRec.depthMode
    BY <1>0, <1>1, <1>2, RequestSet
  <1>4. ASSUME NEW i \in D, i # d
        PROVE  /\ t[i].mode = user[i].mode
               /\ t[i].bits = user[i].bits \/ (i = main /\ user[i].bits = 32)
    <2>1. screens[i].mode = user[i].mode /\ (i # main => screens[i].bits = user[i].bits)
      BY <1>2, <1>4 DEF DepthAside
    <2>2. t[i] = s[i] /\ s[i].mode = user[i].mode
      BY <1>1, <1>3, <1>4, <2>1
    <2>3. CASE i = main
      BY <1>1, <2>1, <2>2, <2>3
    <2>4. CASE i # main
      BY <1>1, <2>1, <2>2, <2>4
    <2> QED
      BY <2>2, <2>3, <2>4
  <1>5. ASSUME d \in D PROVE t[d].mode = user[d].mode /\ t[d].bits = user[d].bits
    <2>1. /\ user[d].mode \in Nat \ {0} /\ user[d].bits \in Nat \ {0}
          /\ HasMode(machine, d, user[d].mode, user[d].bits)
          /\ HasDepth(machine, user, d, user[d].bits)
      BY <1>0, <1>5, ShownIs
    <2>2. originalRec.displayMode = user[d].mode /\ originalRec.depthMode = user[d].bits
      BY <1>2, <1>5
    <2>3. CASE machine.screen[d].aware
      BY <1>3, <1>5, <2>1, <2>2, <2>3
    <2>4. CASE ~machine.screen[d].aware
      <3>1. s[d].mode = user[d].mode
        BY <1>1, <1>2, <1>5, <2>4
      <3>2. HasDepth(machine, s, d, user[d].bits)
        BY <2>1, <3>1 DEF HasDepth
      <3> QED
        BY <1>3, <1>5, <2>1, <2>2, <2>4, <3>1, <3>2
    <2> QED
      BY <2>3, <2>4
  <1> QED
    BY <1>4, <1>5 DEF Restored

LEMMA StopScreens == ScreensInv /\ StopRun => ScreensInv'
  <1> SUFFICES ASSUME ScreensInv, StopRun PROVE ScreensInv'
    OBVIOUS
  <1>1. /\ machine' = machine /\ cfg' = cfg /\ user' = user /\ sound' = sound
        /\ pc # "idle" /\ pc' = "idle"
    BY DEF StopRun
  <1>2. /\ machine \in Machines /\ cfg \in Configs /\ Shows(machine, screens)
        /\ Shows(machine, user)
    BY DEF ScreensInv
  <1>3. DOMAIN screens = DOMAIN machine.screen
    BY <1>2 DEF Shows
  <1>4. main' = main
    BY <1>1 DEF main
  <1> SUFFICES Shows(machine, screens') /\ Unsaved' /\ (sound => Restored(screens'))
    <2>1. Shows(machine', screens') /\ Shows(machine', user')
      BY <1>1, <1>2
    <2>2. MonitorRestored'
      <3>1. DOMAIN screens' = DOMAIN machine.screen
        BY DEF Shows
      <3> QED
        BY <1>1, <1>4, <3>1 DEF MonitorRestored, Restored
    <2> QED
      BY <1>1, <1>2, <2>1, <2>2 DEF ScreensInv
  <1>5. screens = user => Restored(screens)
    BY DEF Restored
  <1>6. CASE ~Configured(cfg)
    <2>1. screens = user /\ Unsaved
      BY <1>1, <1>6 DEF ScreensInv
    <2>2. screens' = screens /\ savedDepth' = savedDepth /\ gotVideoSetting' = gotVideoSetting
      BY <1>6 DEF StopRun, saved
    <2> QED
      BY <1>2, <1>5, <2>1, <2>2 DEF Unsaved
  <1>7. CASE Configured(cfg)
    <2> DEFINE s == DepthRestored
               t == RVSetVideoRequest(machine, s, originalRec)
    <2>1. screens' = (IF gotVideoSetting THEN t ELSE s) /\ Unsaved'
      BY <1>7 DEF StopRun, RestoreDepth, Unsaved
    <2>2. CASE pc = "monitor"
      <3>1. Unsaved /\ screens = user
        BY <2>2 DEF ScreensInv
      <3>2. screens' = screens
        BY <2>1, <3>1 DEF Unsaved, DepthRestored
      <3> QED
        BY <1>2, <1>5, <2>1, <3>1, <3>2
    <2>3. CASE pc # "monitor"
      <3>1. Kept
        BY <1>1, <1>7, <2>3 DEF ScreensInv
      <3> HIDE DEF s, t
      <3>2. s = DepthRestored /\ t = RVSetVideoRequest(machine, s, originalRec)
        BY DEF s, t
      <3>3. /\ Shows(machine, s) /\ \A j \in DOMAIN machine.screen : s[j].mode = screens[j].mode
            /\ \A j \in DOMAIN machine.screen \ {main} : s[j] = screens[j]
            /\ screens[main].mode = user[main].mode /\ user[main].bits # 32
                 => s[main].bits = user[main].bits
        BY <3>1, <3>2, MainBack
      <3>4. CASE gotVideoSetting
        <4>1. Shows(machine, t)
          <5>1. t = RVSetVideoRequest(machine, s, originalRec)
            BY <3>2
          <5> QED
            BY <1>2, <3>3, <5>1, RequestSet
        <4>2. sound => Sized
          BY <3>1, <3>4 DEF Kept
        <4>3. sound => Restored(t)
          BY <3>1, <3>2, <4>2, SizeBack
        <4> QED
          BY <2>1, <3>4, <4>1, <4>3
      <3>5. CASE ~gotVideoSetting
        <4>1. \A i \in DOMAIN machine.screen \ {Nil} : screens[i].mode = user[i].mode /\
                 (i # main => screens[i].bits = user[i].bits)
          BY <3>1, <3>5 DEF Kept, DepthAside
        <4>2. DOMAIN machine.screen \ {Nil} = DOMAIN machine.screen
          <5>1. machine.screen \in Seq(ScreenType)
            BY <1>2, MachinesAssumption
          <5> QED
            BY <5>1 DEF Nil
        <4>3. Restored(s)
          BY <3>3, <4>1, <4>2 DEF Restored
        <4> QED
          BY <2>1, <3>3, <3>5, <4>3
      <3> QED
        BY <3>4, <3>5
    <2> QED
      BY <2>2, <2>3
  <1> QED
    BY <1>6, <1>7

LEMMA StepScreens == ScreensInv /\ [Next]_vars => ScreensInv'
  <1> SUFFICES ASSUME ScreensInv, [Next]_vars PROVE ScreensInv'
    OBVIOUS
  <1>1. CASE Boot
    BY <1>1, BootScreens
  <1>2. CASE MonitorChange
    BY <1>2, MonitorScreens
  <1>3. CASE getVideoAddress \/ set_video_info \/ turn_off_interrupts \/ EnterKernel
    <2>1. UNCHANGED <<machine, cfg, screens, saved, user, sound>>
      BY <1>3 DEF getVideoAddress, set_video_info, turn_off_interrupts, EnterKernel
    <2>2. {pc, pc'} \cap {"idle", "monitor"} = {}
      BY <1>3 DEF getVideoAddress, set_video_info, turn_off_interrupts, EnterKernel
    <2> QED
      BY <2>1, <2>2, ScreensKept
  <1>4. CASE StopRun
    BY <1>4, StopScreens
  <1>5. CASE Over \/ UNCHANGED vars
    <2>1. UNCHANGED <<machine, cfg, screens, saved, user, sound>> /\ pc' = pc
      BY <1>5 DEF Over, vars
    <2> QED
      BY <2>1, ScreensKept
  <1> QED
    BY <1>1, <1>2, <1>3, <1>4, <1>5 DEF Next

(* When no boot runs every screen shows what it did before, for any        *)
(* machine, settings and number of boots, and any mode the search of       *)
(* RequestVideo.c may have returned.                                       *)
THEOREM MonitorCorrect == Spec => []MonitorRestored
  <1>1. ScreensInv => MonitorRestored
    BY DEF ScreensInv
  <1> QED
    BY <1>1, InitScreens, StepScreens, PTL DEF Spec
-----------------------------------------------------------------------------
(* Sets of numbers have a least member.                                    *)
LEMMA LeastOf ==
    ASSUME NEW S \in SUBSET Nat, S # {}
    PROVE  \E x \in S : \A y \in S : x <= y
  <1> DEFINE Below == {0 .. m : m \in S}
  <1>1. Below \subseteq FiniteSubsetsOf(Nat) /\ Below # {}
    <2>1. \A m \in S : 0 .. m \subseteq Nat /\ IsFiniteSet(0 .. m)
      BY FS_Interval
    <2> QED
      BY <2>1 DEF FiniteSubsetsOf
  <1>2. PICK T \in Below : \A U \in Below : ~(<<U, T>> \in StrictSubsetOrdering(Nat))
    <2> HIDE DEF Below
    <2> QED
      BY <1>1, FS_StrictSubsetOrderingWellFounded, WFMin
  <1>3. PICK x \in S : T = 0 .. x
    BY <1>2
  <1>4. ASSUME NEW y \in S, y < x
        PROVE  FALSE
    <2>1. 0 .. y \subseteq 0 .. x /\ x \in 0 .. x /\ x \notin 0 .. y
      BY <1>4
    <2>2. <<0 .. y, T>> \in StrictSubsetOrdering(Nat)
      BY <1>3, <2>1 DEF StrictSubsetOrdering
    <2> QED
      BY <1>2, <2>2
  <1>5. \A y \in S : x <= y
    BY <1>4
  <1> QED
    BY <1>5

(* What holds of 0 and is handed on holds up to N: `Good' are the numbers  *)
(* it holds of.                                                            *)
LEMMA Induction ==
    ASSUME NEW N \in Nat, NEW Good, 0 \in Good,
           \A k \in 1 .. N : k - 1 \in Good => k \in Good
    PROVE  \A k \in 0 .. N : k \in Good
  <1> DEFINE Bad == (0 .. N) \ Good
  <1>1. ASSUME Bad # {} PROVE FALSE
    <2>1. Bad \in SUBSET Nat
      OBVIOUS
    <2>2. PICK k \in Bad : \A l \in Bad : k <= l
      <3> HIDE DEF Bad
      <3> QED
        BY <1>1, <2>1, LeastOf
    <2>3. k \in 1 .. N /\ k - 1 \in 0 .. N /\ ~(k <= k - 1)
      BY <2>2
    <2>4. k - 1 \in Good
      BY <2>2, <2>3
    <2> QED
      BY <2>2, <2>3, <2>4
  <1> QED
    BY <1>1

(* The function that a recursive definition chooses exists: `next[k]' is   *)
(* what step k makes of the value before it.                               *)
Solves(g, N, a, next) == g[0] = a /\ \A k \in 1 .. N : g[k] = next[k][g[k - 1]]
LEMMA Recursion ==
    ASSUME NEW N \in Nat, NEW S, NEW a \in S, NEW next \in [1 .. N -> [S -> S]]
    PROVE  \E g \in [0 .. N -> S] : Solves(g, N, a, next)
  <1> DEFINE Upto(m, g) == /\ g \in [0 .. m -> S] /\ g[0] = a
                           /\ \A k \in 1 .. m : g[k] = next[k][g[k - 1]]
             Good == {m \in 0 .. N : \E g : Upto(m, g)}
  <1>1. 0 \in Good
    <2>1. \E g : Upto(0, g)
      <3>1. Upto(0, [k \in 0 .. 0 |-> a])
        OBVIOUS
      <3> QED
        BY <3>1
    <2> HIDE DEF Upto
    <2> QED
      BY <2>1
  <1>2. ASSUME NEW m \in 1 .. N, m - 1 \in Good
        PROVE  m \in Good
    <2>1. PICK g : Upto(m - 1, g)
      BY <1>2
    <2> DEFINE h == [k \in 0 .. m |-> IF k = m THEN next[m][g[m - 1]] ELSE g[k]]
    <2>2. h \in [0 .. m -> S] /\ h[0] = a
      BY <2>1
    <2>3. ASSUME NEW k \in 1 .. m PROVE h[k] = next[k][h[k - 1]]
      BY <2>1
    <2>4. \E f : Upto(m, f)
      <3>1. Upto(m, h)
        BY <2>2, <2>3
      <3> QED
        BY <3>1, Zenon
    <2> HIDE DEF Upto
    <2> QED
      BY <2>4
  <1>3. N \in Good
    <2> HIDE DEF Good
    <2>1. \A m \in 0 .. N : m \in Good
      BY <1>1, <1>2, Induction
    <2> QED
      BY <2>1
  <1> QED
    BY <1>3 DEF Solves
-----------------------------------------------------------------------------
(* The search.  `M' are the modes looked at so far; the request holds one  *)
(* of them, of screen i.                                                   *)

Search(depth, width, height) ==
    [screenDevice : Nat, reqBitDepth : {depth}, reqHorizontal : {width}, reqVertical : {height},
     availBitDepth : Nat, availHorizontal : Nat, availVertical : Nat,
     requestFlags : {{"AllValidModes"}}, notSafe : BOOLEAN, displayMode : Nat, depthMode : Nat]
ExactOf(r, m) == m.h = r.reqHorizontal /\ m.v = r.reqVertical /\ m.bits = r.reqBitDepth
NearerThan(r, m) ==
    LET dh == Distance(r.reqHorizontal, m.h)
        dv == Distance(r.reqVertical, m.v)
        ch == Distance(r.reqHorizontal, r.availHorizontal)
        cv == Distance(r.reqVertical, r.availVertical)
    IN  dh <= ch /\ dv <= cv /\ (dh < ch \/ dv < cv)
BestOf(r, M) ==
    /\ r.screenDevice = Nil => M = {}
    /\ r.displayMode = 0 <=> M = {}
    /\ \A m \in M : ~NearerThan(r, m)
    /\ \A m \in M : ExactOf(r, m) => /\ r.availHorizontal = r.reqHorizontal
                                     /\ r.availVertical = r.reqVertical
                                     /\ r.availBitDepth = r.reqBitDepth
Holds(r, i, m) ==
    /\ r.screenDevice = i /\ r.displayMode = m.mode /\ r.depthMode = m.bits
    /\ r.availHorizontal = m.h /\ r.availVertical = m.v /\ r.availBitDepth = m.bits
    /\ r.notSafe = ~m.safe

LEMMA DistanceIs ==
    ASSUME NEW a \in Nat, NEW b \in Nat
    PROVE  Distance(a, b) \in Nat /\ (Distance(a, b) = 0 <=> a = b)
  BY DEF Distance

(* Without the other flags a mode replaces the best one if it is the first *)
(* or by its size.                                                         *)
LEMMA MatchIs ==
    ASSUME NEW d, NEW w, NEW h, NEW r \in Search(d, w, h), NEW m
    PROVE  FindBestMatch(r, m) <=>
             \/ r.displayMode = 0
             \/ /\ Distance(w, m.h) <= Distance(w, r.availHorizontal)
                /\ Distance(h, m.v) <= Distance(h, r.availVertical)
                /\ \/ r.availHorizontal # m.h \/ r.availVertical # m.v
                   \/ r.availBitDepth < d /\ m.bits > r.availBitDepth
                   \/ m.bits = d
  <1>1. r.reqBitDepth = d /\ r.reqHorizontal = w /\ r.reqVertical = h
    BY DEF Search
  <1>2. r.requestFlags = {"AllValidModes"}
    BY DEF Search
  <1>3. /\ "MaximizeRes" \notin r.requestFlags /\ "ShallowDepth" \notin r.requestFlags
        /\ "AbsoluteRequest" \notin r.requestFlags /\ "BitDepthPriority" \notin r.requestFlags
    BY <1>2
  <1> QED
    BY <1>1, <1>3 DEF FindBestMatch

LEMMA TakenIs ==
    ASSUME NEW d, NEW w, NEW h, NEW r \in Search(d, w, h), NEW i \in Nat \ {0}, NEW m \in ModeType,
           NEW t, t = Taken(r, i, m)
    PROVE  /\ t \in Search(d, w, h) /\ t.screenDevice # Nil /\ t.displayMode # 0
           /\ t.availHorizontal = m.h /\ t.availVertical = m.v /\ t.availBitDepth = m.bits
           /\ Holds(t, i, m)
  BY DEF Taken, Search, ModeType, Nil, Holds

LEMMA FirstBest ==
    ASSUME NEW d \in Nat, NEW w \in Nat, NEW h \in Nat, NEW r \in Search(d, w, h),
           NEW m \in ModeType, r.screenDevice # Nil, r.displayMode # 0,
           r.availHorizontal = m.h, r.availVertical = m.v, r.availBitDepth = m.bits
    PROVE  BestOf(r, {m})
  <1>1. r.reqBitDepth = d /\ r.reqHorizontal = w /\ r.reqVertical = h /\ m.h \in Nat /\ m.v \in Nat
    BY DEF Search, ModeType
  <1>2. ~NearerThan(r, m)
    <2>1. Distance(w, m.h) \in Nat /\ Distance(h, m.v) \in Nat
      BY <1>1, DistanceIs
    <2> QED
      BY <1>1, <2>1 DEF NearerThan
  <1> QED
    BY <1>2 DEF BestOf, ExactOf

LEMMA BetterBest ==
    ASSUME NEW d \in Nat, NEW w \in Nat, NEW h \in Nat, NEW r \in Search(d, w, h), NEW i \in Nat \ {0},
           NEW m \in ModeType, NEW M \in SUBSET ModeType, BestOf(r, M), M # {}, FindBestMatch(r, m),
           NEW t, t = Taken(r, i, m)
    PROVE  BestOf(t, M \cup {m})
  <1> DEFINE D(x, y) == Distance(x, y)
  <1>1. /\ r.reqBitDepth = d /\ r.reqHorizontal = w /\ r.reqVertical = h
        /\ r.availHorizontal \in Nat /\ r.availVertical \in Nat /\ r.availBitDepth \in Nat
    BY DEF Search
  <1>2. /\ t.reqBitDepth = d /\ t.reqHorizontal = w /\ t.reqVertical = h
        /\ t.availHorizontal = m.h /\ t.availVertical = m.v /\ t.availBitDepth = m.bits
        /\ t.screenDevice # Nil /\ t.displayMode # 0
    <2>1. t \in Search(d, w, h)
      BY TakenIs
    <2>2. t.reqBitDepth = d /\ t.reqHorizontal = w /\ t.reqVertical = h
      BY <2>1 DEF Search
    <2> QED
      BY <2>2, TakenIs
  <1>3. \A x \in M \cup {m} : x.h \in Nat /\ x.v \in Nat /\ x.bits \in Nat
    BY DEF ModeType
  <1>4. /\ Distance(w, m.h) <= Distance(w, r.availHorizontal)
        /\ Distance(h, m.v) <= Distance(h, r.availVertical)
        /\ \/ r.availHorizontal # m.h \/ r.availVertical # m.v
           \/ r.availBitDepth < d /\ m.bits > r.availBitDepth
           \/ m.bits = d
    <2>1. r.displayMode # 0
      BY DEF BestOf
    <2> QED
      BY <2>1, MatchIs
  <1>5. ASSUME NEW x \in M \cup {m} PROVE ~NearerThan(t, x)
    <2>1. /\ Distance(w, m.h) \in Nat /\ Distance(h, m.v) \in Nat
          /\ Distance(w, x.h) \in Nat /\ Distance(h, x.v) \in Nat
          /\ Distance(w, r.availHorizontal) \in Nat /\ Distance(h, r.availVertical) \in Nat
      BY <1>1, <1>3, DistanceIs
    <2>2. CASE x = m
      BY <1>2, <2>1, <2>2 DEF NearerThan
    <2>3. CASE x \in M
      <3>1. ~NearerThan(r, x)
        BY <2>3 DEF BestOf
      <3> QED
        BY <1>1, <1>2, <1>4, <2>1, <3>1 DEF NearerThan
    <2> QED
      BY <2>2, <2>3
  <1>6. ASSUME NEW x \in M \cup {m}, ExactOf(t, x) PROVE m.h = w /\ m.v = h /\ m.bits = d
    <2>1. CASE x = m
      BY <1>2, <1>6, <2>1 DEF ExactOf
    <2>2. CASE x \in M
      <3>1. ExactOf(r, x)
        BY <1>1, <1>2, <1>6 DEF ExactOf
      <3>2. r.availHorizontal = w /\ r.availVertical = h /\ r.availBitDepth = d
        BY <1>1, <2>2, <3>1 DEF BestOf
      <3>3. /\ Distance(w, m.h) \in Nat /\ Distance(h, m.v) \in Nat
            /\ Distance(w, w) = 0 /\ Distance(h, h) = 0
        BY <1>3, DistanceIs
      <3>4. Distance(w, m.h) = 0 /\ Distance(h, m.v) = 0
        BY <1>4, <3>2, <3>3
      <3>5. m.h = w /\ m.v = h
        BY <1>3, <3>4, DistanceIs
      <3>6. m.bits = d
        BY <1>4, <3>2, <3>5
      <3> QED
        BY <3>5, <3>6
    <2> QED
      BY <2>1, <2>2
  <1> QED
    BY <1>2, <1>5, <1>6 DEF BestOf

LEMMA WorseLeft ==
    ASSUME NEW d \in Nat, NEW w \in Nat, NEW h \in Nat, NEW r \in Search(d, w, h),
           NEW m \in ModeType, NEW M \in SUBSET ModeType, BestOf(r, M), ~FindBestMatch(r, m)
    PROVE  BestOf(r, M \cup {m})
  <1>1. /\ r.reqBitDepth = d /\ r.reqHorizontal = w /\ r.reqVertical = h
        /\ r.availHorizontal \in Nat /\ r.availVertical \in Nat /\ r.availBitDepth \in Nat
    BY DEF Search
  <1>2. m.h \in Nat /\ m.v \in Nat /\ m.bits \in Nat
    BY DEF ModeType
  <1>3. /\ r.displayMode # 0
        /\ ~ /\ Distance(w, m.h) <= Distance(w, r.availHorizontal)
             /\ Distance(h, m.v) <= Distance(h, r.availVertical)
             /\ \/ r.availHorizontal # m.h \/ r.availVertical # m.v
                \/ r.availBitDepth < d /\ m.bits > r.availBitDepth
                \/ m.bits = d
    BY MatchIs
  <1>4. /\ Distance(w, m.h) \in Nat /\ Distance(h, m.v) \in Nat
        /\ Distance(w, r.availHorizontal) \in Nat /\ Distance(h, r.availVertical) \in Nat
    BY <1>1, <1>2, DistanceIs
  <1>5. ~NearerThan(r, m)
    <2> SUFFICES ASSUME NearerThan(r, m) PROVE FALSE
      OBVIOUS
    <2>1. /\ Distance(w, m.h) <= Distance(w, r.availHorizontal)
          /\ Distance(h, m.v) <= Distance(h, r.availVertical)
          /\ \/ Distance(w, m.h) < Distance(w, r.availHorizontal)
             \/ Distance(h, m.v) < Distance(h, r.availVertical)
      BY <1>1 DEF NearerThan
    <2>2. r.availHorizontal # m.h \/ r.availVertical # m.v
      BY <1>4, <2>1
    <2> QED
      BY <1>3, <2>1, <2>2
  <1>6. ~ExactOf(r, m)
    <2> SUFFICES ASSUME ExactOf(r, m) PROVE FALSE
      OBVIOUS
    <2>1. m.h = w /\ m.v = h /\ m.bits = d
      BY <1>1 DEF ExactOf
    <2>2. Distance(w, m.h) = 0 /\ Distance(h, m.v) = 0
      BY <2>1, DistanceIs
    <2> QED
      BY <1>3, <1>4, <2>1, <2>2
  <1>7. r.screenDevice # Nil /\ M # {}
    BY <1>3 DEF BestOf
  <1> QED
    BY <1>3, <1>5, <1>6, <1>7 DEF BestOf

Usable(m, slot) == m.valid /\ (slot => m.readable)
LEMMA ConsideredBest ==
    ASSUME NEW d \in Nat, NEW w \in Nat, NEW h \in Nat, NEW r \in Search(d, w, h), NEW i \in Nat \ {0},
           NEW m \in ModeType, NEW M \in SUBSET ModeType, BestOf(r, M), NEW slot \in BOOLEAN,
           NEW t, t = Considered(i, r, m, slot)
    PROVE  t \in Search(d, w, h) /\ BestOf(t, M \cup (IF Usable(m, slot) THEN {m} ELSE {}))
  <1>1. "AllValidModes" \in r.requestFlags
    BY DEF Search
  <1>2. t = IF Usable(m, slot) /\ FindBestMatch(r, m) THEN Taken(r, i, m) ELSE r
    BY <1>1 DEF Considered, Consider, Selectable, Usable
  <1>3. CASE ~Usable(m, slot)
    BY <1>2, <1>3
  <1>4. CASE Usable(m, slot) /\ ~FindBestMatch(r, m)
    BY <1>2, <1>4, WorseLeft
  <1>5. CASE Usable(m, slot) /\ FindBestMatch(r, m)
    <2>1. t = Taken(r, i, m)
      BY <1>2, <1>5
    <2>2. CASE M = {}
      <3>1. BestOf(t, {m}) /\ t \in Search(d, w, h)
        BY <2>1, TakenIs, FirstBest
      <3> QED
        BY <1>5, <2>2, <3>1
    <2>3. CASE M # {}
      <3>1. BestOf(t, M \cup {m}) /\ t \in Search(d, w, h)
        BY <1>5, <2>1, <2>3, TakenIs, BetterBest
      <3> QED
        BY <1>5, <3>1
    <2> QED
      BY <2>2, <2>3
  <1> QED
    BY <1>3, <1>4, <1>5

LEMMA ConsideredType ==
    ASSUME NEW d, NEW w, NEW h, NEW r \in Search(d, w, h), NEW i \in Nat \ {0},
           NEW m \in ModeType, NEW slot
    PROVE  /\ Considered(i, r, m, slot) \in Search(d, w, h)
           /\ \/ Considered(i, r, m, slot) = r
              \/ Usable(m, slot) /\ Holds(Considered(i, r, m, slot), i, m)
  <1>1. Taken(r, i, m) \in Search(d, w, h) /\ Holds(Taken(r, i, m), i, m)
    BY TakenIs
  <1> QED
    BY <1>1 DEF Considered, Consider, Selectable, Usable

(* All modes of a screen.                                                  *)
UsableIn(modes, k, slot) == {modes[j] : j \in {x \in 1 .. k : Usable(modes[x], slot)}}

LEMMA ModesSearched ==
    ASSUME NEW d \in Nat, NEW w \in Nat, NEW h \in Nat, NEW r \in Search(d, w, h), NEW i \in Nat \ {0},
           NEW modes \in Seq(ModeType), NEW slot \in BOOLEAN,
           NEW t, t = SearchModes(r, i, modes, slot)
    PROVE  /\ t \in Search(d, w, h)
           /\ \A M \in SUBSET ModeType :
                BestOf(r, M) => BestOf(t, M \cup UsableIn(modes, Len(modes), slot))
           /\ t = r \/ \E m \in UsableIn(modes, Len(modes), slot) : Holds(t, i, m)
  <1> DEFINE N == Len(modes)
             S == Search(d, w, h)
             next == [k \in 1 .. N |-> [s \in S |-> Considered(i, s, modes[k], slot)]]
  <1>1. N \in Nat /\ r \in S
    OBVIOUS
  <1>2. \A k \in 1 .. N : modes[k] \in ModeType
    OBVIOUS
  <1>3. \E g \in [0 .. N -> S] : Solves(g, N, r, next)
    <2> HIDE DEF N
    <2>1. \A k \in 1 .. N, s \in S : Considered(i, s, modes[k], slot) \in S
      BY <1>2, ConsideredType
    <2> HIDE DEF S
    <2>2. next \in [1 .. N -> [S -> S]]
      BY <2>1
    <2> HIDE DEF next
    <2> QED
      BY <1>1, <2>2, Recursion
  <1>4. PICK g \in [0 .. N -> S] :
           g[0] = r /\ \A k \in 1 .. N : g[k] = next[k][g[k - 1]]
    BY <1>3 DEF Solves
  <1>5. g = [k \in 0 .. N |-> IF k = 0 THEN r ELSE Considered(i, g[k - 1], modes[k], slot)]
    <2> HIDE DEF N, S
    <2>1. ASSUME NEW k \in 1 .. N PROVE g[k] = Considered(i, g[k - 1], modes[k], slot)
      <3>1. g[k - 1] \in S /\ g[k] = next[k][g[k - 1]]
        BY <1>1, <1>4
      <3> QED
        BY <3>1
    <2> QED
      BY <1>1, <1>4, <2>1
  <1> DEFINE best[k \in 0 .. N] == IF k = 0 THEN r ELSE Considered(i, best[k - 1], modes[k], slot)
  <1>6. best = [k \in 0 .. N |-> IF k = 0 THEN r ELSE Considered(i, best[k - 1], modes[k], slot)]
    BY <1>5, Zenon
  <1>7. t = best[N]
    BY DEF SearchModes
  <1> HIDE DEF best, N
  <1>8. best[0] = r /\ \A k \in 1 .. N : best[k] = Considered(i, best[k - 1], modes[k], slot)
    BY <1>1, <1>6
  <1> DEFINE Good == {k \in 0 .. N :
                        /\ best[k] \in S
                        /\ \A M \in SUBSET ModeType :
                             BestOf(r, M) => BestOf(best[k], M \cup UsableIn(modes, k, slot))
                        /\ best[k] = r \/ \E m \in UsableIn(modes, k, slot) : Holds(best[k], i, m)}
  <1>9. 0 \in Good
    <2>1. \A M : M \cup UsableIn(modes, 0, slot) = M
      BY DEF UsableIn
    <2>2. best[0] = r /\ r \in S /\ 0 \in 0 .. N
      BY <1>1, <1>8
    <2> HIDE DEF S
    <2> QED
      BY <2>1, <2>2
  <1>10. ASSUME NEW k \in 1 .. N, k - 1 \in Good
         PROVE  k \in Good
    <2>1. PICK b, m : b = best[k - 1] /\ m = modes[k]
      OBVIOUS
    <2>2. /\ b \in S /\ m \in ModeType /\ best[k] = Considered(i, b, m, slot)
          /\ \A M \in SUBSET ModeType :
               BestOf(r, M) => BestOf(b, M \cup UsableIn(modes, k - 1, slot))
          /\ b = r \/ \E x \in UsableIn(modes, k - 1, slot) : Holds(b, i, x)
      BY <1>2, <1>8, <1>10, <2>1
    <2>3. best[k] \in S
      BY <2>2, ConsideredType
    <2>4. UsableIn(modes, k, slot) =
            UsableIn(modes, k - 1, slot) \cup (IF Usable(m, slot) THEN {m} ELSE {})
      <3>1. {x \in 1 .. k : Usable(modes[x], slot)} =
              {x \in 1 .. k - 1 : Usable(modes[x], slot)} \cup (IF Usable(m, slot) THEN {k} ELSE {})
        BY <1>1, <2>1
      <3> QED
        BY <2>1, <3>1 DEF UsableIn
    <2>5. UsableIn(modes, k - 1, slot) \in SUBSET ModeType
      BY <1>1, <1>2 DEF UsableIn
    <2>6. ASSUME NEW M \in SUBSET ModeType, BestOf(r, M)
          PROVE  BestOf(best[k], M \cup UsableIn(modes, k, slot))
      <3> DEFINE L == M \cup UsableIn(modes, k - 1, slot)
      <3>1. L \in SUBSET ModeType /\ BestOf(b, L)
        BY <2>2, <2>5, <2>6
      <3>2. M \cup UsableIn(modes, k, slot) = L \cup (IF Usable(m, slot) THEN {m} ELSE {})
        BY <2>4
      <3> HIDE DEF L
      <3>3. BestOf(best[k], L \cup (IF Usable(m, slot) THEN {m} ELSE {}))
        BY <2>2, <3>1, ConsideredBest
      <3> QED
        BY <3>2, <3>3
    <2>7. best[k] = r \/ \E x \in UsableIn(modes, k, slot) : Holds(best[k], i, x)
      <3>1. best[k] = b \/ (Usable(m, slot) /\ Holds(best[k], i, m))
        BY <2>2, ConsideredType
      <3> QED
        BY <2>2, <2>4, <3>1
    <2> QED
      BY <2>3, <2>6, <2>7
  <1>11. N \in Good
    <2> HIDE DEF Good
    <2>1. \A k \in 0 .. N : k \in Good
      BY <1>1, <1>9, <1>10, Induction
    <2> QED
      BY <1>1, <2>1
  <1> QED
    BY <1>7, <1>11 DEF N

(* All screens.                                                            *)
OfferedBy(s) == {s.modes[j] : j \in {x \in 1 .. Len(s.modes) : Offered(s, s.modes[x])}}
OfferedUpto(mac, k) ==
    UNION {OfferedBy(mac.screen[j]) : j \in {x \in 1 .. k : mac.screen[x].known}}

HoldsUpto(t, mac, k) ==
    \E i \in 1 .. k : mac.screen[i].known /\ \E m \in OfferedBy(mac.screen[i]) : Holds(t, i, m)

LEMMA ScreenSearched ==
    ASSUME NEW d \in Nat, NEW w \in Nat, NEW h \in Nat, NEW r \in Search(d, w, h),
           NEW mac \in Machines, NEW i \in DOMAIN mac.screen, NEW t, t = SearchScreen(mac, r, i)
    PROVE  /\ t \in Search(d, w, h)
           /\ \A M \in SUBSET ModeType :
                BestOf(r, M) =>
                  BestOf(t, M \cup (IF mac.screen[i].known THEN OfferedBy(mac.screen[i]) ELSE {}))
           /\ t = r \/ (mac.screen[i].known /\ \E m \in OfferedBy(mac.screen[i]) : Holds(t, i, m))
  <1>1. mac.screen \in Seq(ScreenType)
    BY MachinesAssumption
  <1>2. PICK s : s = mac.screen[i]
    OBVIOUS
  <1>3. s \in ScreenType /\ i \in Nat \ {0}
    BY <1>1, <1>2
  <1>4. PICK modes : modes = s.modes
    OBVIOUS
  <1>5. modes \in Seq(ModeType) /\ s.known \in BOOLEAN /\ s.listed \in BOOLEAN /\ s.inSlot \in BOOLEAN
    BY <1>3, <1>4 DEF ScreenType
  <1>6. \A x \in 1 .. Len(modes) : modes[x].valid \in BOOLEAN /\ modes[x].readable \in BOOLEAN
    <2>1. \A x \in 1 .. Len(modes) : modes[x] \in ModeType
      BY <1>5
    <2> QED
      BY <2>1 DEF ModeType
  <1>7. CASE ~s.known
    BY <1>2, <1>7 DEF SearchScreen
  <1>8. CASE s.known /\ ~s.listed /\ ~s.inSlot
    <2>1. t = r
      BY <1>2, <1>8 DEF SearchScreen, GetRequestTheDM1Way
    <2>2. OfferedBy(s) = {}
      BY <1>8 DEF OfferedBy, Offered
    <2> QED
      BY <1>2, <1>8, <2>1, <2>2
  <1>9. CASE s.known /\ (s.listed \/ s.inSlot)
    <2>1. PICK slot \in BOOLEAN : slot = ~s.listed
      BY <1>5
    <2>2. t = SearchModes(r, i, modes, slot)
      BY <1>2, <1>4, <1>9, <2>1 DEF SearchScreen, GetRequestTheDM1Way, GetRequestTheDM2Way
    <2>3. \A x \in 1 .. Len(modes) : Offered(s, modes[x]) <=> Usable(modes[x], slot)
      BY <1>5, <1>6, <1>9, <2>1 DEF Offered, Usable
    <2>4. OfferedBy(s) = UsableIn(modes, Len(modes), slot)
      <3>1. {x \in 1 .. Len(modes) : Offered(s, modes[x])} = {x \in 1 .. Len(modes) : Usable(modes[x], slot)}
        BY <2>3
      <3> QED
        BY <1>4, <3>1 DEF OfferedBy, UsableIn
    <2>5. /\ t \in Search(d, w, h)
          /\ \A M \in SUBSET ModeType :
                BestOf(r, M) => BestOf(t, M \cup UsableIn(modes, Len(modes), slot))
          /\ t = r \/ \E m \in UsableIn(modes, Len(modes), slot) : Holds(t, i, m)
      BY <1>3, <1>5, <2>2, ModesSearched
    <2> QED
      BY <1>2, <1>9, <2>4, <2>5
  <1> QED
    BY <1>5, <1>7, <1>8, <1>9

LEMMA AllSearched ==
    ASSUME NEW d \in Nat, NEW w \in Nat, NEW h \in Nat, NEW r \in Search(d, w, h), BestOf(r, {}),
           NEW mac \in Machines, NEW t, t = SearchAll(mac, r)
    PROVE  /\ t \in Search(d, w, h) /\ BestOf(t, OfferedUpto(mac, Len(mac.screen)))
           /\ t = r \/ HoldsUpto(t, mac, Len(mac.screen))
  <1> DEFINE N == Len(mac.screen)
             S == Search(d, w, h)
             next == [k \in 1 .. N |-> [s \in S |-> SearchScreen(mac, s, k)]]
  <1>0. mac.screen \in Seq(ScreenType)
    BY MachinesAssumption
  <1>1. N \in Nat /\ r \in S /\ 1 .. N = DOMAIN mac.screen
    BY <1>0
  <1>2. \A k \in 1 .. N, s \in S : SearchScreen(mac, s, k) \in S
    <2> HIDE DEF N
    <2> QED
      BY <1>1, ScreenSearched
  <1>3. \E g \in [0 .. N -> S] : Solves(g, N, r, next)
    <2> HIDE DEF N, S
    <2>1. next \in [1 .. N -> [S -> S]]
      BY <1>2
    <2> HIDE DEF next
    <2> QED
      BY <1>1, <2>1, Recursion
  <1>4. PICK g \in [0 .. N -> S] :
           g[0] = r /\ \A k \in 1 .. N : g[k] = next[k][g[k - 1]]
    BY <1>3 DEF Solves
  <1>5. g = [k \in 0 .. N |-> IF k = 0 THEN r ELSE SearchScreen(mac, g[k - 1], k)]
    <2> HIDE DEF N, S
    <2>1. ASSUME NEW k \in 1 .. N PROVE g[k] = SearchScreen(mac, g[k - 1], k)
      <3>1. g[k - 1] \in S /\ g[k] = next[k][g[k - 1]]
        BY <1>1, <1>4
      <3> QED
        BY <3>1
    <2> QED
      BY <1>1, <1>4, <2>1
  <1> DEFINE best[k \in 0 .. N] == IF k = 0 THEN r ELSE SearchScreen(mac, best[k - 1], k)
  <1>6. best = [k \in 0 .. N |-> IF k = 0 THEN r ELSE SearchScreen(mac, best[k - 1], k)]
    BY <1>5, Zenon
  <1>7. t = best[N]
    BY DEF SearchAll
  <1> HIDE DEF best, N
  <1>8. best[0] = r /\ \A k \in 1 .. N : best[k] = SearchScreen(mac, best[k - 1], k)
    <2>1. N \in Nat
      BY <1>1
    <2> QED
      BY <1>6, <2>1
  <1> DEFINE Good == {k \in 0 .. N : /\ best[k] \in S /\ BestOf(best[k], OfferedUpto(mac, k))
                                     /\ best[k] = r \/ HoldsUpto(best[k], mac, k)}
  <1>9. 0 \in Good
    <2>1. OfferedUpto(mac, 0) = {}
      BY DEF OfferedUpto
    <2>2. best[0] = r /\ r \in S /\ 0 \in 0 .. N
      BY <1>1, <1>8
    <2> HIDE DEF S
    <2> QED
      BY <2>1, <2>2
  <1>10. ASSUME NEW k \in 1 .. N, k - 1 \in Good
         PROVE  k \in Good
    <2> DEFINE L == OfferedUpto(mac, k - 1)
               here == IF mac.screen[k].known THEN OfferedBy(mac.screen[k]) ELSE {}
    <2>1. PICK b : b = best[k - 1]
      OBVIOUS
    <2>2. /\ b \in S /\ BestOf(b, L) /\ best[k] = SearchScreen(mac, b, k)
          /\ b = r \/ HoldsUpto(b, mac, k - 1)
      BY <1>8, <1>10, <2>1
    <2>3. OfferedUpto(mac, k) = L \cup here
      <3>1. {x \in 1 .. k : mac.screen[x].known} =
              {x \in 1 .. k - 1 : mac.screen[x].known} \cup (IF mac.screen[k].known THEN {k} ELSE {})
        BY <1>1
      <3> QED
        BY <3>1 DEF OfferedUpto
    <2>4. L \in SUBSET ModeType
      <3>1. \A x \in 1 .. k - 1 : x \in DOMAIN mac.screen
        BY <1>1
      <3>2. ASSUME NEW x \in DOMAIN mac.screen PROVE OfferedBy(mac.screen[x]) \subseteq ModeType
        <4>1. mac.screen[x] \in ScreenType
          BY <1>0, <3>2
        <4>2. mac.screen[x].modes \in Seq(ModeType)
          BY <4>1 DEF ScreenType
        <4> QED
          BY <4>2 DEF OfferedBy
      <3> QED
        BY <3>1, <3>2 DEF OfferedUpto
    <2> HIDE DEF L
    <2>5. best[k] \in S /\ BestOf(best[k], L \cup here)
      BY <1>1, <2>2, <2>4, ScreenSearched
    <2>6. k \in 0 .. N
      BY <1>1
    <2>7. best[k] = r \/ HoldsUpto(best[k], mac, k)
      <3>1. \/ best[k] = b
            \/ mac.screen[k].known /\ \E m \in OfferedBy(mac.screen[k]) : Holds(best[k], k, m)
        BY <1>1, <2>2, ScreenSearched
      <3>2. k \in 1 .. k /\ 1 .. k - 1 \subseteq 1 .. k
        BY <1>1
      <3> QED
        BY <2>2, <3>1, <3>2 DEF HoldsUpto
    <2> HIDE DEF S, here
    <2> QED
      BY <2>3, <2>5, <2>6, <2>7
  <1>11. N \in Good
    <2> HIDE DEF Good
    <2>1. \A k \in 0 .. N : k \in Good
      BY <1>1, <1>9, <1>10, Induction
    <2> QED
      BY <1>1, <2>1
  <1> QED
    BY <1>7, <1>11 DEF N
-----------------------------------------------------------------------------
(* The search of MonitorChange.                                            *)
LEMMA RequestIs ==
    ASSUME NEW d \in Nat, NEW w \in Nat, NEW h \in Nat, NEW r, r = Request(d, w, h, {"AllValidModes"})
    PROVE  r \in Search(d, w, h) /\ BestOf(r, {}) /\ r.screenDevice = Nil /\ r.displayMode = 0
  BY DEF Request, Search, BestOf, Nil

LEMMA SizesOffered ==
    ASSUME machine \in Machines, NEW i \in DOMAIN machine.screen, NEW m
    PROVE  m \in OfSize(i) <=>
             /\ machine.screen[i].known /\ m \in OfferedBy(machine.screen[i])
             /\ <<m.h, m.v>> = Sizes[cfg.MonitorSize]
  <1>1. PICK s : s = machine.screen[i]
    OBVIOUS
  <1>2. s \in ScreenType
    BY <1>1, MachinesAssumption
  <1>3. s.modes \in Seq(ModeType)
    BY <1>2 DEF ScreenType
  <1>4. m \in OfferedBy(s) <=> m \in ToSet(s.modes) /\ Offered(s, m)
    BY <1>3 DEF OfferedBy, ToSet
  <1> QED
    BY <1>1, <1>4 DEF OfSize

(* What is offered is a mode the Display Manager can set.                  *)
LEMMA OfSizeIs ==
    ASSUME machine \in Machines, NEW i \in DOMAIN machine.screen, NEW m \in OfSize(i)
    PROVE  m \in ModeType /\ HasMode(machine, i, m.mode, m.bits)
  <1>1. PICK s : s = machine.screen[i]
    OBVIOUS
  <1>2. s \in ScreenType
    BY <1>1, MachinesAssumption
  <1>3. s.modes \in Seq(ModeType)
    BY <1>2 DEF ScreenType
  <1>4. PICK k \in DOMAIN s.modes : s.modes[k] = m /\ m.valid
    BY <1>1, <1>3 DEF OfSize, Offered, ToSet
  <1>5. s.modes[k].mode = m.mode /\ s.modes[k].bits = m.bits /\ s.modes[k].valid
    BY <1>4
  <1>6. HasMode(machine, i, m.mode, m.bits)
    BY <1>1, <1>5 DEF HasMode
  <1> QED
    BY <1>3, <1>4, <1>6

(* Only the main screen offers the size asked for.                         *)
MainAlone ==
    /\ OfSize(main) # {}
    /\ \A i \in DOMAIN machine.screen \ {main} : OfSize(i) = {}

(* The search then ends with a mode of the main screen, of that size, and  *)
(* of the depth of the request if there is one.                            *)
LEMMA MainFound ==
    ASSUME machine \in Machines, machine.dm > 1, machine.slotManager,
           main \in DOMAIN machine.screen, MainAlone,
           NEW d \in Nat, NEW w \in Nat, NEW h \in Nat, Sizes[cfg.MonitorSize] = <<w, h>>,
           NEW t, t = RVRequestVideoSetting(machine, Request(d, w, h, {"AllValidModes"}))
    PROVE  \E m \in OfSize(main) :
              Holds(t, main, m) /\ \A x \in OfSize(main) : x.bits = d => m.bits = d
  <1> DEFINE N == Len(machine.screen)
             All == OfferedUpto(machine, N)
  <1>0. machine.screen \in Seq(ScreenType) /\ DOMAIN machine.screen = 1 .. N /\ machine.dm # 0
    BY MachinesAssumption
  <1>1. PICK r : r = Request(d, w, h, {"AllValidModes"})
    OBVIOUS
  <1>2. /\ r \in Search(d, w, h) /\ BestOf(r, {}) /\ r.screenDevice = Nil /\ r.displayMode = 0
    BY <1>1, RequestIs
  <1>3. t = SearchAll(machine, r)
    BY <1>0, <1>1, <1>2 DEF RVRequestVideoSetting
  <1>4. t \in Search(d, w, h) /\ BestOf(t, All) /\ (t = r \/ HoldsUpto(t, machine, N))
    BY <1>2, <1>3, AllSearched
  <1>5. t.reqHorizontal = w /\ t.reqVertical = h /\ t.reqBitDepth = d
    BY <1>4 DEF Search
  <1>6. \A x \in OfSize(main) : x \in All /\ x \in ModeType /\ x.h = w /\ x.v = h
    <2> TAKE x \in OfSize(main)
    <2>1. /\ machine.screen[main].known /\ x \in OfferedBy(machine.screen[main])
          /\ <<x.h, x.v>> = <<w, h>>
      BY SizesOffered
    <2> QED
      BY <1>0, <2>1, OfSizeIs DEF OfferedUpto
  <1> HIDE DEF All, N
  <1>7. PICK x : x \in OfSize(main)
    BY DEF MainAlone
  <1>8. HoldsUpto(t, machine, N)
    <2>1. t.displayMode # 0
      BY <1>4, <1>6, <1>7 DEF BestOf
    <2> QED
      BY <1>2, <1>4, <2>1
  <1>9. PICK i \in 1 .. N : machine.screen[i].known
                            /\ \E m \in OfferedBy(machine.screen[i]) : Holds(t, i, m)
    BY <1>8 DEF HoldsUpto
  <1>10. PICK m \in OfferedBy(machine.screen[i]) : Holds(t, i, m)
    BY <1>9
  <1>11. t.availHorizontal = w /\ t.availVertical = h
    <2>1. ~NearerThan(t, x)
      BY <1>4, <1>6, <1>7 DEF BestOf
    <2>2. t.availHorizontal \in Nat /\ t.availVertical \in Nat
      BY <1>4 DEF Search
    <2>3. Distance(w, w) = 0 /\ Distance(h, h) = 0
      BY DistanceIs
    <2>4. Distance(w, t.availHorizontal) \in Nat /\ Distance(h, t.availVertical) \in Nat
      BY <2>2, DistanceIs
    <2>5. Distance(w, t.availHorizontal) = 0 /\ Distance(h, t.availVertical) = 0
      BY <1>5, <1>6, <1>7, <2>1, <2>3, <2>4 DEF NearerThan
    <2> QED
      BY <2>2, <2>5, DistanceIs
  <1>12. m \in OfSize(i) /\ i \in DOMAIN machine.screen
    <2>1. <<m.h, m.v>> = Sizes[cfg.MonitorSize]
      BY <1>10, <1>11 DEF Holds
    <2>2. i \in DOMAIN machine.screen
      BY <1>0
    <2> QED
      BY <1>9, <1>10, <2>1, <2>2, SizesOffered
  <1>13. i = main
    BY <1>12 DEF MainAlone
  <1>14. ASSUME NEW y \in OfSize(main), y.bits = d PROVE m.bits = d
    <2>1. ExactOf(t, y) /\ y \in All
      BY <1>5, <1>6, <1>14 DEF ExactOf
    <2>2. t.availBitDepth = d
      BY <1>4, <1>5, <2>1 DEF BestOf
    <2> QED
      BY <1>10, <2>2 DEF Holds
  <1> QED
    BY <1>10, <1>12, <1>13, <1>14

(* The mode found is shown, or, if it is refused, what was there before;   *)
(* if that was not read, the mode stays.                                   *)
LEMMA MainResized ==
    ASSUME ScreensInv, machine.dm > 1, main # Nil, machine.screen[main].aware,
           NEW m \in OfSize(main), NEW r, Holds(r, main, m), NEW hit,
           NEW o, o = RVGetCurrentVideoSetting(machine, screens, main),
           NEW t, t = Resized(r, o, hit)
    PROVE  /\ Shows(machine, t) /\ \A j \in DOMAIN machine.screen \ {main} : t[j] = screens[j]
           /\ \/ t[main].mode = m.mode /\ t[main].bits = m.bits
              \/ ~m.safe /\ t[main].mode = screens[main].mode /\ t[main].bits = screens[main].bits
  <1> DEFINE u == RVSetVideoRequest(machine, screens, r)
             v == RVSetVideoRequest(machine, u, o)
  <1>0. /\ machine \in Machines /\ Shows(machine, screens) /\ main \in DOMAIN machine.screen
        /\ r.screenDevice = main /\ o.screenDevice = main
    BY MachinesAssumption, SettingRead DEF ScreensInv, main, Holds
  <1>1. /\ Shows(machine, u) /\ \A j \in DOMAIN machine.screen \ {main} : u[j] = screens[j]
        /\ u[main].mode = m.mode /\ u[main].bits = m.bits
    <2>1. /\ r.displayMode = m.mode /\ r.depthMode = m.bits
          /\ m.mode # 0 /\ m.bits # 0 /\ HasMode(machine, main, m.mode, m.bits)
      BY <1>0, OfSizeIs DEF Holds, ModeType
    <2>2. u = RVSetVideoRequest(machine, screens, r)
      OBVIOUS
    <2> HIDE DEF u
    <2> QED
      BY <1>0, <2>1, <2>2, RequestSet
  <1>2. t = u \/ (t = v /\ ~m.safe)
    <2>1. r.notSafe = ~m.safe
      BY DEF Holds
    <2> QED
      BY <2>1 DEF Resized, RVConfirmVideoRequest
  <1>3. /\ Shows(machine, v) /\ \A j \in DOMAIN machine.screen \ {main} : v[j] = u[j]
        /\ \/ v[main].mode = u[main].mode /\ v[main].bits = u[main].bits
           \/ v[main].mode = screens[main].mode /\ v[main].bits = screens[main].bits
    <2>1. v = RVSetVideoRequest(machine, u, o)
      OBVIOUS
    <2> HIDE DEF u, v
    <2>2. Shows(machine, v) /\ \A j \in DOMAIN machine.screen \ {main} : v[j] = u[j]
      BY <1>0, <1>1, <2>1, RequestSet
    <2>3. CASE o.displayMode # NoMode
      <3>1. /\ o.displayMode = screens[main].mode /\ o.depthMode = screens[main].bits
            /\ o.displayMode # 0 /\ o.depthMode # 0
            /\ HasMode(machine, main, o.displayMode, o.depthMode)
        BY <1>0, <2>3, SettingRead, ShownIs
      <3>2. v[main].mode = o.displayMode /\ v[main].bits = o.depthMode
        BY <1>0, <1>1, <2>1, <3>1, RequestSet
      <3> QED
        BY <2>2, <3>1, <3>2
    <2>4. CASE o.displayMode = NoMode
      <3> DEFINE c == Coloured(u, o)
      <3>1. c[main].mode = u[main].mode /\ c[main].bits = u[main].bits
        <4>1. c = Coloured(u, o) /\ main = o.screenDevice
          BY <1>0
        <4> HIDE DEF c
        <4> QED
          BY <1>0, <1>1, <4>1, ColourSet
      <3>2. v = u \/ v = DMSetDisplayMode(machine, c, main, NoMode, o.depthMode)
        <4>1. machine.dm >= 2
          BY <1>0, MachinesAssumption
        <4>2. v = u \/ v = DMSetDisplayMode(machine, Coloured(u, o), o.screenDevice,
                                           o.displayMode, o.depthMode)
          BY <1>0, <2>1, <4>1 DEF RVSetVideoRequest
        <4> QED
          BY <1>0, <2>4, <4>2
      <3>3. ~\E k \in DOMAIN machine.screen[main].modes : machine.screen[main].modes[k].mode = NoMode
        BY <1>0, ModeOf DEF NoMode
      <3> HIDE DEF c
      <3>4. v = u \/ v = c
        BY <3>2, <3>3 DEF DMSetDisplayMode
      <3> QED
        BY <2>2, <3>1, <3>4
    <2> QED
      BY <2>3, <2>4
  <1> HIDE DEF u, v
  <1> QED
    BY <1>1, <1>2, <1>3

LEMMA MonitorAsAsked ==
    ASSUME ScreensInv, MonitorChange, gotVideoSetting', machine.slotManager,
           machine.screen[main].aware, MainAlone
    PROVE  /\ \A i \in DOMAIN machine.screen \ {main} : screens'[i] = user[i]
           /\ \E m \in Wanted : \/ MainShows(m)'
                                \/ ~m.safe /\ MainShows(user[main])'
  <1> DEFINE depth == IF cfg.MonitorDepth = 0 THEN SavedBits(screens[main].bits)
                      ELSE cfg.MonitorDepth
             size == cfg.MonitorSize
             w == Sizes[size][1]
             h == Sizes[size][2]
             bits == GreyDepth(depth, TRUE)
  <1>1. /\ machine \in Machines /\ cfg \in Configs /\ Shows(machine, screens) /\ main # Nil
        /\ ~gotVideoSetting /\ machine' = machine /\ cfg' = cfg /\ user' = user
        /\ main \in DOMAIN machine.screen /\ screens = user /\ cfg.setToGreys \in BOOLEAN
    BY MachinesAssumption, ConfigsAssumption DEF ScreensInv, Unsaved, MonitorChange, main
  <1>2. size # "none" /\ machine.dm > 1 /\ ChangeSize(depth, size)
    BY <1>1 DEF MonitorChange, GetDisplayMgrVers
  <1>3. screens[main].bits \in Nat /\ cfg.MonitorDepth \in Nat /\ depth \in Nat
    <2>1. screens[main].bits \in Nat
      BY <1>1, ShownIs
    <2>2. cfg.MonitorDepth \in Nat
      BY <1>1, ConfigsAssumption
    <2> QED
      BY <2>1, <2>2 DEF SavedBits
  <1>4. w \in Nat /\ h \in Nat /\ Sizes[size] = <<w, h>>
    <2>1. size \in {"m_640x480", "m_800x600", "m_832x624", "m_1024x768", "m_1152x870"}
      BY <1>1, <1>2, ConfigsAssumption DEF Sizes
    <2> QED
      BY <2>1 DEF Sizes
  <1>5. PICK r, hit, junk :
          LET asked    == IF r.screenDevice = Nil THEN [r EXCEPT !.notSafe = junk] ELSE r
              original == RVGetCurrentVideoSetting(machine, screens, r.screenDevice)
              resized  == Resized(asked, original, hit)
          IN  /\ r = RVRequestVideoSetting(machine, Request(depth, w, h, {"AllValidModes"}))
              /\ screens' = IF cfg.setToGreys THEN SetMain(resized, bits, TRUE) ELSE resized
    BY <1>2, Zenon DEF ChangeSize
  <1>6. PICK m \in OfSize(main) :
           Holds(r, main, m) /\ \A x \in OfSize(main) : x.bits = depth => m.bits = depth
    <2> HIDE DEF depth, w, h
    <2> QED
      BY <1>1, <1>2, <1>3, <1>4, <1>5, MainFound
  <1> DEFINE o == RVGetCurrentVideoSetting(machine, screens, main)
             t == Resized(r, o, hit)
  <1>7. screens' = IF cfg.setToGreys THEN SetMain(t, bits, TRUE) ELSE t
    <2>1. r.screenDevice = main /\ r.screenDevice # Nil
      BY <1>1, <1>6 DEF Holds
    <2> QED
      BY <1>5, <2>1
  <1>8. /\ Shows(machine, t) /\ \A j \in DOMAIN machine.screen \ {main} : t[j] = screens[j]
        /\ \/ t[main].mode = m.mode /\ t[main].bits = m.bits
           \/ ~m.safe /\ t[main].mode = screens[main].mode /\ t[main].bits = screens[main].bits
    <2>1. t = Resized(r, o, hit) /\ o = RVGetCurrentVideoSetting(machine, screens, main)
      OBVIOUS
    <2> HIDE DEF t, o
    <2> QED
      BY <1>1, <1>2, <1>6, <2>1, MainResized
  <1> HIDE DEF t, o, bits
  <1>9. /\ \A j \in DOMAIN machine.screen \ {main} : screens'[j] = screens[j]
        /\ screens'[main].mode = t[main].mode
        /\ cfg.setToGreys \/ screens'[main].bits = t[main].bits
    <2>1. CASE ~cfg.setToGreys
      BY <1>7, <1>8, <2>1
    <2>2. CASE cfg.setToGreys
      <3> DEFINE greys == TRUE
      <3>1. screens' = SetMain(t, bits, greys) /\ greys \in BOOLEAN /\ Shows(machine, t)
        BY <1>7, <1>8, <2>2
      <3> HIDE DEF greys
      <3>2. /\ \A j \in DOMAIN machine.screen : screens'[j].mode = t[j].mode
            /\ \A j \in DOMAIN machine.screen \ {main} : screens'[j] = t[j]
        BY <3>1, <1>1, MainSet
      <3> QED
        BY <1>1, <1>8, <2>2, <3>2
    <2> QED
      BY <2>1, <2>2
  <1>10. m \in Wanted
    <2>1. (cfg.MonitorDepth = 0 /\ WantedDepth = 32) \/ WantedDepth = depth
      BY <1>1 DEF WantedDepth, SavedBits
    <2> HIDE DEF depth
    <2> QED
      BY <1>6, <2>1 DEF Wanted
  <1>11. /\ main' = main /\ cfg'.setToGreys = cfg.setToGreys
    BY <1>1 DEF main
  <1>12. \/ MainShows(m)'
         \/ ~m.safe /\ MainShows(user[main])'
    BY <1>1, <1>8, <1>9, <1>11 DEF MainShows
  <1> QED
    BY <1>1, <1>9, <1>10, <1>12

(* What the property speaks of does not change with the screens.           *)
LEMMA SizeKept ==
    ASSUME UNCHANGED <<machine, cfg, user>>
    PROVE  main' = main /\ Wanted' = Wanted /\ \A i : OfSize(i)' = OfSize(i)
  <1>1. main' = main /\ \A i : OfSize(i)' = OfSize(i)
    BY DEF main, OfSize
  <1>2. OfSize(main)' = OfSize(main)
    BY DEF main, OfSize
  <1>3. WantedDepth' = WantedDepth
    BY DEF WantedDepth, main
  <1>4. Wanted' = Wanted
    BY <1>2, <1>3 DEF Wanted
  <1> QED
    BY <1>1, <1>4

LEMMA StepSize ==
    ASSUME ScreensInv, [Next]_vars, SizeAsAsked
    PROVE  SizeAsAsked'
  <1>1. CASE MonitorChange
    <2> SUFFICES ASSUME gotVideoSetting', machine'.slotManager,
                        machine'.screen[main'].aware, OfSize(main)' # {},
                        (\A i \in DOMAIN screens \ {main} : OfSize(i) = {})'
                 PROVE  /\ (\A i \in DOMAIN screens \ {main} : screens[i] = user[i])'
                        /\ (\E m \in Wanted : MainShows(m) \/ (~m.safe /\ MainShows(user[main])))'
      BY DEF SizeAsAsked
    <2>1. UNCHANGED <<machine, cfg, user>>
      BY <1>1 DEF MonitorChange
    <2>2. main' = main /\ Wanted' = Wanted /\ \A i : OfSize(i)' = OfSize(i)
      BY <2>1, SizeKept
    <2>3. DOMAIN screens' = DOMAIN machine.screen
      BY <1>1, <2>1, MonitorScreens DEF ScreensInv, Shows
    <2>4. OfSize(main)' = OfSize(main)
      BY <2>1 DEF OfSize, main
    <2>5. MainAlone
      BY <2>2, <2>3, <2>4 DEF MainAlone
    <2>6. machine.slotManager /\ machine.screen[main].aware
      BY <2>1, <2>2
    <2> QED
      BY <1>1, <2>1, <2>2, <2>3, <2>5, <2>6, MonitorAsAsked
  <1>2. CASE Boot
    <2>1. ~gotVideoSetting'
      BY <1>2 DEF Boot, ScreensInv, Unsaved, saved
    <2> QED
      BY <2>1 DEF SizeAsAsked
  <1>3. CASE Over \/ UNCHANGED vars
    <2>1. UNCHANGED vars
      BY <1>3 DEF Over
    <2>2. UNCHANGED <<machine, cfg, user, screens, pc, gotVideoSetting>>
      BY <2>1 DEF vars, saved
    <2> QED
      BY <2>2 DEF SizeAsAsked, OfSize, Wanted, WantedDepth, MainShows, main
  <1>4. CASE getVideoAddress \/ set_video_info \/ turn_off_interrupts \/ EnterKernel \/ StopRun
    <2>1. pc' # "address"
      BY <1>4 DEF getVideoAddress, set_video_info, turn_off_interrupts, EnterKernel, StopRun
    <2> QED
      BY <2>1 DEF SizeAsAsked
  <1> QED
    BY <1>1, <1>2, <1>3, <1>4 DEF Next

(* A size that the main screen alone offers is what it is set to, in the   *)
(* depth asked for if it has it, unless the mode is not safe and stays as  *)
(* it was; no other screen changes: for any number of screens and of modes *)
(* in any order, through RequestVideo.c's search and Monitors.c's change.  *)
THEOREM SizeCorrect == Spec => []SizeAsAsked
  <1>1. Init => SizeAsAsked
    BY DEF Init, SizeAsAsked
  <1> QED
    BY <1>1, InitScreens, StepScreens, StepSize, PTL DEF Spec
-----------------------------------------------------------------------------
(* The walk over the slots.  `k' is the slot visited last.                 *)

Cards == Seq([slot : Nat, modenum : Nat])
Offs == SUBSET Nat
Walk == [cards : Cards, off : Offs, err : Int, fatal : BOOLEAN]
Stopped(v) == [v EXCEPT !.err = -1, !.fatal = TRUE]
AllSlots == 9 .. 14
Upto(S, k) == {s \in S : s <= k}

(* A slot's decisive sResource is the least that is a display or cannot be *)
(* read.                                                                   *)
LEMMA DecisiveIs ==
    ASSUME machine \in Machines, NEW s \in AllSlots, NEW ids, ids = Decisive(machine.card, s)
    PROVE  \/ /\ ids = {} /\ s \notin CardSlots /\ s \notin Unread
           \/ \E id \in Nat : /\ ids = {id} /\ machine.card[s][id] \in {"video", "error"}
                              /\ s \in CardSlots <=> machine.card[s][id] = "video"
                              /\ s \in Unread <=> machine.card[s][id] = "error"
  <1> DEFINE D == DOMAIN machine.card[s]
             hits == {id \in D : machine.card[s][id] \in {"video", "error"}}
  <1>1. D \in SUBSET Nat /\ DOMAIN machine.card = AllSlots
    BY MachinesAssumption DEF AllSlots
  <1>2. /\ s \in CardSlots <=> FirstIs(s, "video")
        /\ s \in Unread <=> FirstIs(s, "error")
    BY <1>1 DEF CardSlots, Unread
  <1>3. CASE 1 \notin D \/ hits = {}
    <2>1. ids = {}
      BY <1>3 DEF Decisive
    <2>2. ~FirstIs(s, "video") /\ ~FirstIs(s, "error")
      BY <1>3 DEF FirstIs
    <2> QED
      BY <1>2, <2>1, <2>2
  <1>4. CASE 1 \in D /\ hits # {}
    <2>1. hits \in SUBSET Nat
      BY <1>1
    <2>2. PICK id \in hits : \A j \in hits : id <= j
      <3> HIDE DEF hits
      <3> QED
        BY <1>4, <2>1, LeastOf
    <2>3. id \in Nat /\ id \in D /\ machine.card[s][id] \in {"video", "error"}
      BY <1>1, <2>2
    <2>4. ids = {j \in hits : \A other \in hits : j <= other}
      BY <1>4 DEF Decisive
    <2>5. ids = {id}
      <3> HIDE DEF hits
      <3>1. \A j \in hits : j \in Nat /\ id <= j
        BY <2>1, <2>2
      <3>2. ASSUME NEW j \in ids PROVE j = id
        <4>1. j \in hits /\ j <= id
          BY <2>2, <2>4
        <4> QED
          BY <2>3, <3>1, <4>1
      <3>3. id \in ids
        BY <2>2, <2>4
      <3> QED
        BY <3>2, <3>3
    <2>6. ASSUME NEW kind \in {"video", "error"}
          PROVE  FirstIs(s, kind) <=> machine.card[s][id] = kind
      <3>1. ASSUME FirstIs(s, kind) PROVE machine.card[s][id] = kind
        <4>1. PICK j \in D : /\ machine.card[s][j] = kind
                             /\ \A i \in D : i < j => machine.card[s][i] \notin {"video", "error"}
          BY <3>1 DEF FirstIs
        <4>2. j \in hits /\ id <= j /\ ~(id < j)
          BY <2>2, <2>3, <4>1
        <4>3. id = j
          BY <1>1, <2>3, <4>1, <4>2
        <4> QED
          BY <4>1, <4>3
      <3>2. ASSUME machine.card[s][id] = kind PROVE FirstIs(s, kind)
        <4>1. \A i \in D : i < id => i \notin hits
          BY <1>1, <2>2, <2>3
        <4> QED
          BY <1>4, <2>3, <3>2, <4>1 DEF FirstIs
      <3> QED
        BY <3>1, <3>2
    <2> QED
      BY <1>2, <2>3, <2>5, <2>6
  <1> QED
    BY <1>3, <1>4

(* What a slot does to a walk that goes on: nothing, if it has no card.    *)
LEMMA VisitIs ==
    ASSUME machine \in Machines, NEW s \in AllSlots, NEW func, NEW v \in Walk,
           NEW t, t = VisitSlot(machine.card, machine.driver, func, v, s)
    PROVE  \/ v.err # NoError /\ t = v
           \/ v.err = NoError /\ s \notin CardSlots /\ s \notin Unread /\ t = v
           \/ /\ v.err = NoError /\ s \in Unread /\ s \notin CardSlots
              /\ t = Stopped(v)
           \/ /\ v.err = NoError /\ s \in CardSlots /\ s \notin Unread
              /\ \E id \in Nat : t = AfterCard(Handed(func, machine.driver, v, s, id))
  <1> DEFINE ids == Decisive(machine.card, s)
  <1>1. CASE v.err # NoError
    BY <1>1 DEF VisitSlot
  <1>2. CASE v.err = NoError /\ ids = {}
    <2>1. s \notin CardSlots /\ s \notin Unread
      BY <1>2, DecisiveIs
    <2> QED
      BY <1>2, <2>1 DEF VisitSlot
  <1>3. CASE v.err = NoError /\ ids # {}
    <2>1. PICK id \in Nat : /\ ids = {id} /\ machine.card[s][id] \in {"video", "error"}
                            /\ s \in CardSlots <=> machine.card[s][id] = "video"
                            /\ s \in Unread <=> machine.card[s][id] = "error"
      <3>1. PICK e : e = ids
        OBVIOUS
      <3> HIDE DEF ids
      <3>2. e = Decisive(machine.card, s)
        BY <3>1 DEF ids
      <3> QED
        BY <1>3, <3>1, <3>2, DecisiveIs
    <2>2. (CHOOSE i \in ids : TRUE) = id
      BY <2>1
    <2>3. t = IF machine.card[s][id] = "error" THEN Stopped(v)
              ELSE AfterCard(Handed(func, machine.driver, v, s, id))
      BY <1>3, <2>1, <2>2 DEF VisitSlot, Stopped
    <2> QED
      BY <1>3, <2>1, <2>3
  <1> QED
    BY <1>1, <1>2, <1>3

LEMMA WalkFields ==
    ASSUME NEW v \in Walk
    PROVE  v.cards \in Cards /\ v.off \in Offs /\ v.err \in Int /\ v.fatal \in BOOLEAN
  BY DEF Walk

LEMMA SetCards ==
    ASSUME NEW v \in Walk, NEW c \in Cards, NEW t, t = [v EXCEPT !.cards = c]
    PROVE  t \in Walk /\ t.cards = c /\ t.off = v.off /\ t.err = v.err /\ t.fatal = v.fatal
  BY DEF Walk

LEMMA SetOff ==
    ASSUME NEW v \in Walk, NEW o \in Offs, NEW t, t = [v EXCEPT !.off = o]
    PROVE  t \in Walk /\ t.off = o /\ t.cards = v.cards /\ t.err = v.err /\ t.fatal = v.fatal
  BY DEF Walk

LEMMA SetErr ==
    ASSUME NEW v \in Walk, NEW e \in Int, NEW t, t = [v EXCEPT !.err = e]
    PROVE  t \in Walk /\ t.err = e /\ t.cards = v.cards /\ t.off = v.off /\ t.fatal = v.fatal
  BY DEF Walk

LEMMA SetFatal ==
    ASSUME NEW v \in Walk, NEW t, t = [v EXCEPT !.fatal = TRUE]
    PROVE  t \in Walk /\ t.fatal /\ t.cards = v.cards /\ t.off = v.off /\ t.err = v.err
  BY DEF Walk

LEMMA StoppedIs ==
    ASSUME NEW v \in Walk, NEW t, t = Stopped(v)
    PROVE  t \in Walk /\ t.fatal /\ t.err # NoError /\ t.cards = v.cards /\ t.off = v.off
  <1>1. PICK u : u = [v EXCEPT !.err = -1]
    OBVIOUS
  <1>2. -1 \in Int
    OBVIOUS
  <1>3. u \in Walk /\ u.err = -1 /\ u.cards = v.cards /\ u.off = v.off
    BY <1>1, <1>2, SetErr
  <1>4. t = [u EXCEPT !.fatal = TRUE]
    BY <1>1 DEF Stopped, Walk
  <1>5. t \in Walk /\ t.fatal /\ t.cards = u.cards /\ t.off = u.off /\ t.err = u.err
    BY <1>3, <1>4, SetFatal
  <1>6. t.err # NoError
    BY <1>3, <1>5 DEF NoError
  <1> QED
    BY <1>3, <1>5, <1>6

(* AfterCard leaves the fields alone but for the error and its flag.       *)
LEMMA AfterCardIs ==
    ASSUME NEW v \in Walk, NEW t, t = AfterCard(v)
    PROVE  /\ t \in Walk /\ t.cards = v.cards /\ t.off = v.off
           /\ v.err # NoError => t.err = v.err /\ t.fatal
           /\ v.err = NoError => /\ t.fatal = v.fatal
                                 /\ t.err = IF Len(v.cards) = 6 THEN 1 ELSE NoError
  <1>1. CASE v.err # NoError
    <2>1. t = [v EXCEPT !.fatal = TRUE]
      BY <1>1 DEF AfterCard
    <2> QED
      BY <1>1, <2>1, SetFatal
  <1>2. CASE v.err = NoError /\ Len(v.cards) = 6
    <2>1. t = [v EXCEPT !.err = 1]
      BY <1>2 DEF AfterCard, MAX_CARDS
    <2>2. 1 \in Int
      OBVIOUS
    <2>3. t \in Walk /\ t.err = 1 /\ t.cards = v.cards /\ t.off = v.off /\ t.fatal = v.fatal
      BY <2>1, <2>2, SetErr
    <2> QED
      BY <1>2, <2>3
  <1>3. CASE v.err = NoError /\ Len(v.cards) # 6
    <2>1. t = v
      BY <1>3 DEF AfterCard, MAX_CARDS
    <2> QED
      BY <1>3, <2>1
  <1> QED
    BY <1>1, <1>2, <1>3

LEMMA CardsAppend ==
    ASSUME NEW v \in Walk, NEW s \in AllSlots, NEW id \in Nat, NEW q,
           q = Append(v.cards, [slot |-> s, modenum |-> id])
    PROVE  q \in Cards
  <1>1. PICK c : c = [slot |-> s, modenum |-> id]
    OBVIOUS
  <1>2. c \in [slot : Nat, modenum : Nat]
    BY <1>1 DEF AllSlots
  <1>3. v.cards \in Cards
    BY WalkFields
  <1>4. Append(v.cards, c) \in Cards
    BY <1>2, <1>3 DEF Cards
  <1> QED
    BY <1>1, <1>4

LEMMA OffAdd ==
    ASSUME NEW v \in Walk, NEW s \in AllSlots
    PROVE  v.off \cup {s} \in Offs
  <1>1. v.off \in Offs
    BY WalkFields
  <1> QED
    BY <1>1 DEF Offs, AllSlots

LEMMA CardListed ==
    ASSUME NEW v \in Walk, NEW s \in AllSlots, NEW id \in Nat, NEW driver,
           NEW t, t = AfterCard(Handed("add_card", driver, v, s, id)), v.err = NoError
    PROVE  /\ t \in Walk /\ t.cards = Append(v.cards, [slot |-> s, modenum |-> id])
           /\ t.err = IF Len(t.cards) = 6 THEN 1 ELSE NoError
  <1>1. PICK q : q = Append(v.cards, [slot |-> s, modenum |-> id])
    OBVIOUS
  <1>2. PICK u : u = [v EXCEPT !.cards = q]
    OBVIOUS
  <1>3. q \in Cards
    BY <1>1, CardsAppend
  <1>4. t = AfterCard(u)
    BY <1>1, <1>2 DEF Handed, add_card
  <1>5. u \in Walk /\ u.cards = q /\ u.err = NoError
    BY <1>2, <1>3, SetCards
  <1>6. t \in Walk /\ t.cards = q /\ t.err = IF Len(q) = 6 THEN 1 ELSE NoError
    BY <1>4, <1>5, AfterCardIs
  <1> QED
    BY <1>1, <1>6

LEMMA CardTurnedOff ==
    ASSUME NEW v \in Walk, NEW s \in AllSlots, NEW id \in Nat, NEW driver,
           NEW t, t = AfterCard(Handed("vbl_off", driver, v, s, id)), v.err = NoError, v.cards = <<>>
    PROVE  /\ t \in Walk /\ t.cards = <<>>
           /\ driver[s] = "ok" => t.err = NoError /\ t.off = v.off \cup {s} /\ t.fatal = v.fatal
           /\ driver[s] # "ok" => t.err # NoError /\ t.off = v.off /\ t.fatal
  <1>1. CASE driver[s] = "ok"
    <2>1. PICK o : o = v.off \cup {s}
      OBVIOUS
    <2>2. PICK u : u = [v EXCEPT !.off = o]
      OBVIOUS
    <2>3. o \in Offs
      BY <2>1, OffAdd
    <2>4. t = AfterCard(u)
      BY <1>1, <2>1, <2>2 DEF Handed, vbl_off
    <2>5. /\ u \in Walk /\ u.cards = <<>> /\ u.err = NoError /\ u.off = o /\ u.fatal = v.fatal
      BY <2>2, <2>3, SetOff
    <2>6. Len(u.cards) # 6
      BY <2>5
    <2>7. t \in Walk /\ t.cards = <<>> /\ t.off = o /\ t.fatal = v.fatal /\ t.err = NoError
      BY <2>4, <2>5, <2>6, AfterCardIs
    <2> QED
      BY <1>1, <2>1, <2>7
  <1>2. CASE driver[s] # "ok"
    <2>1. PICK u : u = [v EXCEPT !.err = -1]
      OBVIOUS
    <2>2. t = AfterCard(u)
      BY <1>2, <2>1 DEF Handed, vbl_off
    <2>3. -1 \in Int /\ -1 # NoError
      BY DEF NoError
    <2>4. u \in Walk /\ u.cards = <<>> /\ u.err # NoError /\ u.off = v.off
      BY <2>1, <2>3, SetErr
    <2>5. t \in Walk /\ t.cards = <<>> /\ t.err # NoError /\ t.off = v.off /\ t.fatal
      BY <2>2, <2>4, AfterCardIs
    <2> QED
      BY <1>2, <2>5
  <1> QED
    BY <1>1, <1>2

LEMMA HandedType ==
    ASSUME NEW v \in Walk, NEW s \in AllSlots, NEW id \in Nat, NEW driver, NEW func
    PROVE  AfterCard(Handed(func, driver, v, s, id)) \in Walk
  <1>1. PICK q : q = Append(v.cards, [slot |-> s, modenum |-> id])
    OBVIOUS
  <1>2. PICK o : o = v.off \cup {s}
    OBVIOUS
  <1>3. PICK u : u = Handed(func, driver, v, s, id)
    OBVIOUS
  <1>4. q \in Cards /\ o \in Offs
    BY <1>1, <1>2, CardsAppend, OffAdd
  <1>5. u = [v EXCEPT !.cards = q] \/ u = [v EXCEPT !.off = o] \/ u = [v EXCEPT !.err = -1]
    BY <1>1, <1>2, <1>3 DEF Handed, add_card, vbl_off
  <1>6. u \in Walk
    <2>1. -1 \in Int
      OBVIOUS
    <2>2. CASE u = [v EXCEPT !.cards = q]
      BY <1>4, <2>2, SetCards
    <2>3. CASE u = [v EXCEPT !.off = o]
      BY <1>4, <2>3, SetOff
    <2>4. CASE u = [v EXCEPT !.err = -1]
      BY <2>1, <2>4, SetErr
    <2> QED
      BY <1>5, <2>2, <2>3, <2>4
  <1>7. AfterCard(u) \in Walk
    BY <1>6, AfterCardIs
  <1> QED
    BY <1>3, <1>7

LEMMA VisitType ==
    ASSUME machine \in Machines, NEW s \in AllSlots, NEW v \in Walk, NEW func,
           NEW t, t = VisitSlot(machine.card, machine.driver, func, v, s)
    PROVE  t \in Walk
  <1>1. Stopped(v) \in Walk
    BY StoppedIs
  <1>2. \A id \in Nat : AfterCard(Handed(func, machine.driver, v, s, id)) \in Walk
    BY HandedType
  <1> QED
    BY <1>1, <1>2, VisitIs


(* The walk is slot after slot.                                            *)
LEMMA CallIs ==
    ASSUME machine \in Machines, NEW func, NEW v \in Walk,
           NEW t, t = video_call(machine.card, machine.driver, func, v)
    PROVE  \E w : /\ w[8] = v /\ t = w[14]
                  /\ \A s \in AllSlots :
                       w[s] = VisitSlot(machine.card, machine.driver, func, w[s - 1], s)
  <1> DEFINE visit(x, s) == VisitSlot(machine.card, machine.driver, func, x, s)
             N == 14
             next == [k \in 1 .. N |-> [x \in Walk |-> IF k < 9 THEN v ELSE visit(x, k)]]
  <1>1. N \in Nat /\ N = LastSlot /\ FirstSlot = 9
    BY DEF LastSlot, FirstSlot
  <1>2. \A k \in 1 .. N, x \in Walk : (IF k < 9 THEN v ELSE visit(x, k)) \in Walk
    <2>1. \A k \in 1 .. N : ~(k < 9) => k \in AllSlots
      BY DEF AllSlots
    <2> QED
      BY <2>1, VisitType
  <1>3. \E g \in [0 .. N -> Walk] : Solves(g, N, v, next)
    <2> HIDE DEF N, visit
    <2>1. next \in [1 .. N -> [Walk -> Walk]]
      BY <1>2
    <2> HIDE DEF next
    <2> QED
      BY <1>1, <2>1, Recursion
  <1>4. PICK g \in [0 .. N -> Walk] : g[0] = v /\ \A k \in 1 .. N : g[k] = next[k][g[k - 1]]
    BY <1>3 DEF Solves
  <1>5. g = [slot \in 0 .. N |-> IF slot < 9 THEN v ELSE visit(g[slot - 1], slot)]
    <2> HIDE DEF N
    <2>1. ASSUME NEW k \in 1 .. N PROVE g[k] = IF k < 9 THEN v ELSE visit(g[k - 1], k)
      <3>1. g[k - 1] \in Walk /\ g[k] = next[k][g[k - 1]]
        BY <1>1, <1>4
      <3> HIDE DEF visit
      <3> QED
        BY <3>1
    <2>2. ASSUME NEW k \in 0 .. N PROVE g[k] = IF k < 9 THEN v ELSE visit(g[k - 1], k)
      <3>1. CASE k = 0
        BY <1>4, <3>1
      <3>2. CASE k # 0
        BY <1>1, <2>1, <3>2
      <3> QED
        BY <3>1, <3>2
    <2> HIDE DEF visit
    <2> QED
      BY <1>4, <2>2
  <1>6. g = [slot \in 0 .. LastSlot |-> IF slot < FirstSlot THEN v ELSE visit(g[slot - 1], slot)]
    BY <1>1, <1>5
  <1> HIDE DEF N
  <1> DEFINE walked[slot \in 0 .. LastSlot] ==
                 IF slot < FirstSlot THEN v ELSE visit(walked[slot - 1], slot)
  <1>7. walked = [slot \in 0 .. LastSlot |->
                      IF slot < FirstSlot THEN v ELSE visit(walked[slot - 1], slot)]
    BY <1>6, Zenon
  <1>8. t = walked[LastSlot]
    BY DEF video_call
  <1> HIDE DEF walked
  <1>9. walked = [slot \in 0 .. 14 |-> IF slot < 9 THEN v ELSE visit(walked[slot - 1], slot)]
    BY <1>7 DEF LastSlot, FirstSlot
  <1> HIDE DEF visit
  <1>10. walked[8] = v /\ \A s \in AllSlots : walked[s] = visit(walked[s - 1], s)
    BY <1>9 DEF AllSlots
  <1>11. t = walked[14]
    BY <1>8 DEF LastSlot
  <1> QED
    BY <1>10, <1>11 DEF visit

(* add_card: the cards up to a slot, in order, unless one could not be     *)
(* read or they are all there may be.                                      *)
Listed(w, k) ==
    /\ w \in Walk
    /\ w.err = NoError =>
         /\ Upto(Unread, k) = {} /\ Len(w.cards) = Cardinality(Upto(CardSlots, k))
         /\ {w.cards[i].slot : i \in DOMAIN w.cards} = Upto(CardSlots, k)
         /\ \A i, j \in DOMAIN w.cards : i < j => w.cards[i].slot < w.cards[j].slot
    /\ w.err # NoError => Unread # {} \/ CardSlots = AllSlots

LEMMA SlotsAre == IsFiniteSet(AllSlots) /\ Cardinality(AllSlots) = 6
  <1>1. AllSlots = 9 .. 14
    BY DEF AllSlots
  <1>2. PICK a \in Int, b \in Int : a = 9 /\ b = 14
    OBVIOUS
  <1>3. IsFiniteSet(a .. b) /\ Cardinality(a .. b) = IF a > b THEN 0 ELSE b - a + 1
    BY FS_Interval
  <1> QED
    BY <1>1, <1>2, <1>3

LEMMA UptoSame ==
    ASSUME NEW S, S \subseteq AllSlots, NEW k \in AllSlots, k \notin S
    PROVE  Upto(S, k) = Upto(S, k - 1)
  <1>1. \A x \in S : x <= k <=> x <= k - 1
    BY DEF AllSlots
  <1> QED
    BY <1>1 DEF Upto

LEMMA UptoMore ==
    ASSUME NEW S, S \subseteq AllSlots, NEW k \in S
    PROVE  /\ Upto(S, k) = Upto(S, k - 1) \cup {k}
           /\ Cardinality(Upto(S, k)) = Cardinality(Upto(S, k - 1)) + 1
  <1>1. (\A x \in S : x <= k <=> x <= k - 1 \/ x = k) /\ k <= k /\ ~(k <= k - 1)
    BY DEF AllSlots
  <1>2. /\ Upto(S, k) = Upto(S, k - 1) \cup {k}
        /\ k \notin Upto(S, k - 1) /\ Upto(S, k - 1) \subseteq AllSlots
    BY <1>1 DEF Upto
  <1>3. IsFiniteSet(AllSlots)
    BY SlotsAre
  <1>4. IsFiniteSet(Upto(S, k - 1))
    BY <1>2, <1>3, FS_Subset
  <1> QED
    BY <1>2, <1>4, FS_AddElement

LEMMA VisitListed ==
    ASSUME machine \in Machines, NEW k \in AllSlots, NEW w, Listed(w, k - 1),
           NEW t, t = VisitSlot(machine.card, machine.driver, "add_card", w, k)
    PROVE  Listed(t, k)
  <1> DEFINE C == Upto(CardSlots, k - 1)
             Card == [slot : Nat, modenum : Nat]
  <1>1. w \in Walk /\ CardSlots \in SUBSET AllSlots /\ Unread \in SUBSET AllSlots
    BY MachinesAssumption DEF Listed, CardSlots, Unread, AllSlots
  <1>2. PICK func : func = "add_card"
    OBVIOUS
  <1>3. \/ w.err # NoError /\ t = w
        \/ w.err = NoError /\ k \notin CardSlots /\ k \notin Unread /\ t = w
        \/ /\ w.err = NoError /\ k \in Unread /\ k \notin CardSlots
           /\ t = Stopped(w)
        \/ /\ w.err = NoError /\ k \in CardSlots /\ k \notin Unread
           /\ \E id \in Nat : t = AfterCard(Handed(func, machine.driver, w, k, id))
    BY <1>1, <1>2, VisitIs
  <1>4. CASE w.err # NoError
    BY <1>3, <1>4 DEF Listed
  <1>5. CASE w.err = NoError /\ k \notin CardSlots /\ k \notin Unread
    <2>1. Upto(CardSlots, k) = C
      BY <1>1, <1>5, UptoSame
    <2>u. Upto(Unread, k) = Upto(Unread, k - 1)
      BY <1>1, <1>5, UptoSame
    <2>2. t = w
      BY <1>3, <1>5
    <2> QED
      BY <1>5, <2>1, <2>u, <2>2 DEF Listed
  <1>6. CASE w.err = NoError /\ k \in Unread
    BY <1>1, <1>3, <1>6, StoppedIs DEF Listed
  <1>7. CASE w.err = NoError /\ k \in CardSlots /\ k \notin Unread
    <2>1. PICK id \in Nat : t = AfterCard(Handed(func, machine.driver, w, k, id))
      BY <1>3, <1>7
    <2> DEFINE c == [slot |-> k, modenum |-> id]
               q == w.cards
    <2>2. /\ t \in Walk /\ t.cards = Append(q, c)
          /\ t.err = IF Len(t.cards) = 6 THEN 1 ELSE NoError
      BY <1>1, <1>2, <1>7, <2>1, CardListed
    <2>3. q \in Seq(Card) /\ c \in Card /\ c.slot = k
      <3>1. w.cards \in Cards
        BY <1>1, WalkFields
      <3> QED
        BY <3>1 DEF Cards, AllSlots
    <2>4. /\ Upto(Unread, k - 1) = {} /\ Len(q) = Cardinality(C)
          /\ {q[i].slot : i \in DOMAIN q} = C
          /\ \A i, j \in DOMAIN q : i < j => q[i].slot < q[j].slot
      BY <1>7 DEF Listed
    <2>5. /\ Upto(CardSlots, k) = C \cup {k} /\ Upto(Unread, k) = {}
          /\ Cardinality(Upto(CardSlots, k)) = Len(q) + 1
      <3>1. Upto(Unread, k) = Upto(Unread, k - 1)
        BY <1>1, <1>7, UptoSame
      <3>2. /\ Upto(CardSlots, k) = Upto(CardSlots, k - 1) \cup {k}
            /\ Cardinality(Upto(CardSlots, k)) = Cardinality(Upto(CardSlots, k - 1)) + 1
        BY <1>1, <1>7, UptoMore
      <3> QED
        BY <2>4, <3>1, <3>2
    <2> HIDE DEF c, q
    <2>6. /\ Append(q, c) \in Seq(Card) /\ Len(Append(q, c)) = Len(q) + 1
          /\ DOMAIN Append(q, c) = 1 .. Len(q) + 1 /\ DOMAIN q = 1 .. Len(q) /\ Len(q) \in Nat
          /\ \A i \in DOMAIN q : Append(q, c)[i] = q[i]
          /\ Append(q, c)[Len(q) + 1] = c
      BY <2>3
    <2> DEFINE a == Append(q, c)
    <2>7. a[Len(q) + 1].slot = k /\ \A i \in DOMAIN q : a[i].slot = q[i].slot
      BY <2>3, <2>6
    <2> HIDE DEF a
    <2>f. /\ t.cards = a /\ Len(a) = Len(q) + 1 /\ DOMAIN a = 1 .. Len(q) + 1
      BY <2>2, <2>6 DEF a
    <2>8. {a[i].slot : i \in DOMAIN a} = C \cup {k}
      <3>1. DOMAIN a = DOMAIN q \cup {Len(q) + 1}
        BY <2>6, <2>f
      <3>2. {a[i].slot : i \in DOMAIN a} = {a[i].slot : i \in DOMAIN q} \cup {k}
        BY <2>7, <3>1
      <3> QED
        BY <2>4, <2>7, <3>2
    <2>9. \A i, j \in DOMAIN a : i < j => a[i].slot < a[j].slot
      <3> SUFFICES ASSUME NEW i \in DOMAIN a, NEW j \in DOMAIN a, i < j
                   PROVE  a[i].slot < a[j].slot
        OBVIOUS
      <3>1. i \in DOMAIN q
        BY <2>6, <2>f
      <3>2. CASE j \in DOMAIN q
        BY <2>4, <2>7, <3>1, <3>2
      <3>3. CASE j = Len(q) + 1
        <4>1. a[i].slot \in C
          BY <2>4, <2>7, <3>1
        <4>2. a[i].slot <= k - 1 /\ a[i].slot \in AllSlots
          BY <1>1, <4>1 DEF Upto
        <4> QED
          BY <2>7, <3>3, <4>2 DEF AllSlots
      <3> QED
        BY <2>6, <2>f, <3>2, <3>3
    <2>10. ASSUME t.err # NoError PROVE CardSlots = AllSlots
      <3>1. Cardinality(C \cup {k}) = 6
        BY <2>2, <2>5, <2>10, <2>f
      <3>2. IsFiniteSet(AllSlots) /\ Cardinality(AllSlots) = 6
        BY SlotsAre
      <3>3. C \cup {k} \subseteq AllSlots /\ C \cup {k} \subseteq CardSlots
        BY <1>1, <1>7 DEF Upto
      <3>4. C \cup {k} = AllSlots
        BY <3>1, <3>2, <3>3, FS_Subset
      <3> QED
        BY <1>1, <3>3, <3>4
    <2> HIDE DEF C
    <2>11. ASSUME t.err = NoError
           PROVE  /\ Upto(Unread, k) = {} /\ Len(t.cards) = Cardinality(Upto(CardSlots, k))
                  /\ {t.cards[i].slot : i \in DOMAIN t.cards} = Upto(CardSlots, k)
                  /\ \A i, j \in DOMAIN t.cards : i < j => t.cards[i].slot < t.cards[j].slot
      BY <2>5, <2>8, <2>9, <2>f
    <2> QED
      BY <2>2, <2>10, <2>11 DEF Listed
  <1> QED
    BY <1>4, <1>5, <1>6, <1>7, <1>3

LEMMA UptoEnds ==
    ASSUME NEW S, S \subseteq AllSlots
    PROVE  Upto(S, 8) = {} /\ Upto(S, 14) = S
  <1>1. \A x \in S : ~(x <= 8) /\ x <= 14
    BY DEF AllSlots
  <1> QED
    BY <1>1 DEF Upto

(* What holds before the first slot, and is handed on by each, holds after *)
(* the last.                                                               *)
LEMMA AllVisited ==
    ASSUME NEW Good, 8 \in Good, \A s \in AllSlots : s - 1 \in Good => s \in Good
    PROVE  14 \in Good
  <1>1. 9 \in Good
    BY DEF AllSlots
  <1>2. 10 \in Good
    BY <1>1 DEF AllSlots
  <1>3. 11 \in Good
    BY <1>2 DEF AllSlots
  <1>4. 12 \in Good
    BY <1>3 DEF AllSlots
  <1>5. 13 \in Good
    BY <1>4 DEF AllSlots
  <1> QED
    BY <1>5 DEF AllSlots

LEMMA StartOfWalk ==
    ASSUME NEW o \in SUBSET Nat, NEW v, v = NoCards(o)
    PROVE  v \in Walk /\ v.cards = <<>> /\ v.off = o /\ v.err = NoError /\ ~v.fatal
  BY DEF NoCards, Walk, Cards, Offs, NoError

LEMMA SlotSets ==
    ASSUME machine \in Machines
    PROVE  /\ CardSlots \subseteq AllSlots /\ Unread \subseteq AllSlots /\ Failing \subseteq AllSlots
           /\ DOMAIN machine.card = AllSlots
  BY MachinesAssumption DEF CardSlots, Unread, Failing, AllSlots

LEMMA CardsListed ==
    ASSUME machine \in Machines, NEW o \in SUBSET Nat,
           NEW t, t = video_call(machine.card, machine.driver, "add_card", NoCards(o))
    PROVE  Listed(t, 14)
  <1>1. PICK func, v : func = "add_card" /\ v = NoCards(o)
    OBVIOUS
  <1>2. v \in Walk /\ v.cards = <<>> /\ v.err = NoError
    BY <1>1, StartOfWalk
  <1>3. t = video_call(machine.card, machine.driver, func, v)
    BY <1>1
  <1>4. PICK w : /\ w[8] = v /\ t = w[14]
                 /\ \A s \in AllSlots :
                      w[s] = VisitSlot(machine.card, machine.driver, func, w[s - 1], s)
    BY <1>2, <1>3, CallIs
  <1> DEFINE Good == {k \in 8 .. 14 : Listed(w[k], k)}
  <1>5. 8 \in Good
    <2>1. Upto(CardSlots, 8) = {} /\ Upto(Unread, 8) = {}
      BY SlotSets, UptoEnds
    <2>2. Cardinality(Upto(CardSlots, 8)) = 0
      BY <2>1, FS_EmptySet
    <2>3. Len(v.cards) = 0 /\ DOMAIN v.cards = {}
      BY <1>2
    <2>4. Listed(v, 8)
      BY <1>2, <2>1, <2>2, <2>3 DEF Listed
    <2> QED
      BY <1>4, <2>4
  <1>6. ASSUME NEW s \in AllSlots, s - 1 \in Good PROVE s \in Good
    <2>1. Listed(w[s - 1], s - 1)
      BY <1>6
    <2>2. w[s] = VisitSlot(machine.card, machine.driver, "add_card", w[s - 1], s)
      BY <1>1, <1>4
    <2>3. Listed(w[s], s)
      BY <2>1, <2>2, VisitListed
    <2> QED
      BY <2>3 DEF AllSlots
  <1>7. 14 \in Good
    <2> HIDE DEF Good
    <2> QED
      BY <1>5, <1>6, AllVisited
  <1> QED
    BY <1>4, <1>7

(* vbl_off: the slots up to one, or up to the first that fails, are off.   *)
Silenced(w, k) ==
    /\ w \in Walk /\ w.cards = <<>>
    /\ w.err = NoError => Upto(Failing, k) = {} /\ Upto(CardSlots, k) \subseteq w.off
    /\ w.err # NoError =>
         /\ w.fatal
         /\ \E e \in Failing : \A s \in CardSlots : s < e => s \in w.off

LEMMA VisitSilenced ==
    ASSUME machine \in Machines, NEW k \in AllSlots, NEW w, Silenced(w, k - 1),
           NEW t, t = VisitSlot(machine.card, machine.driver, "vbl_off", w, k)
    PROVE  Silenced(t, k)
  <1>1. /\ w \in Walk /\ w.cards = <<>>
        /\ CardSlots \subseteq AllSlots /\ Unread \subseteq AllSlots /\ Failing \subseteq AllSlots
    BY SlotSets DEF Silenced
  <1>2. PICK func : func = "vbl_off"
    OBVIOUS
  <1>3. \/ w.err # NoError /\ t = w
        \/ w.err = NoError /\ k \notin CardSlots /\ k \notin Unread /\ t = w
        \/ /\ w.err = NoError /\ k \in Unread /\ k \notin CardSlots
           /\ t = Stopped(w)
        \/ /\ w.err = NoError /\ k \in CardSlots /\ k \notin Unread
           /\ \E id \in Nat : t = AfterCard(Handed(func, machine.driver, w, k, id))
    BY <1>1, <1>2, VisitIs
  <1>4. k \in Failing <=> k \in Unread \/ (k \in CardSlots /\ machine.driver[k] # "ok")
    BY DEF Failing
  <1>5. ASSUME w.err = NoError
        PROVE  \A s \in CardSlots : s < k => s \in w.off
    <2>1. \A s \in CardSlots : s < k => s <= k - 1
      <3>1. k \in Int /\ \A s \in CardSlots : s \in Int
        BY <1>1 DEF AllSlots
      <3> QED
        BY <3>1
    <2> QED
      BY <1>5, <2>1 DEF Silenced, Upto
  <1>6. CASE w.err # NoError
    BY <1>3, <1>6 DEF Silenced
  <1>7. CASE w.err = NoError /\ k \notin CardSlots /\ k \notin Unread
    <2>1. Upto(CardSlots, k) = Upto(CardSlots, k - 1)
      BY <1>1, <1>7, UptoSame
    <2>2. Upto(Failing, k) = Upto(Failing, k - 1)
      BY <1>1, <1>4, <1>7, UptoSame
    <2>3. t = w
      BY <1>3, <1>7
    <2> QED
      BY <1>7, <2>1, <2>2, <2>3 DEF Silenced
  <1>8. CASE w.err = NoError /\ k \in Unread
    <2>1. t \in Walk /\ t.fatal /\ t.err # NoError /\ t.cards = w.cards /\ t.off = w.off
      BY <1>1, <1>3, <1>8, StoppedIs
    <2> QED
      BY <1>1, <1>4, <1>5, <1>8, <2>1 DEF Silenced
  <1>9. CASE w.err = NoError /\ k \in CardSlots /\ k \notin Unread
    <2>1. PICK id \in Nat : t = AfterCard(Handed(func, machine.driver, w, k, id))
      BY <1>3, <1>9
    <2>2. PICK driver : driver = machine.driver
      OBVIOUS
    <2>3. /\ t \in Walk /\ t.cards = <<>>
          /\ driver[k] = "ok" => t.err = NoError /\ t.off = w.off \cup {k} /\ t.fatal = w.fatal
          /\ driver[k] # "ok" => t.err # NoError /\ t.off = w.off /\ t.fatal
      BY <1>1, <1>2, <1>9, <2>1, <2>2, CardTurnedOff
    <2>4. CASE driver[k] = "ok"
      <3>1. Upto(CardSlots, k) = Upto(CardSlots, k - 1) \cup {k}
        BY <1>1, <1>9, UptoMore
      <3>2. Upto(Failing, k) = Upto(Failing, k - 1)
        BY <1>1, <1>4, <1>9, <2>2, <2>4, UptoSame
      <3> QED
        BY <1>9, <2>3, <2>4, <3>1, <3>2 DEF Silenced
    <2>5. CASE driver[k] # "ok"
      BY <1>4, <1>5, <1>9, <2>2, <2>3, <2>5 DEF Silenced
    <2> QED
      BY <2>4, <2>5
  <1> QED
    BY <1>3, <1>6, <1>7, <1>8, <1>9

LEMMA CardsSilenced ==
    ASSUME machine \in Machines, NEW o \in SUBSET Nat,
           NEW t, t = video_call(machine.card, machine.driver, "vbl_off", NoCards(o))
    PROVE  Silenced(t, 14)
  <1>1. PICK func, v : func = "vbl_off" /\ v = NoCards(o)
    OBVIOUS
  <1>2. v \in Walk /\ v.cards = <<>> /\ v.err = NoError
    BY <1>1, StartOfWalk
  <1>3. t = video_call(machine.card, machine.driver, func, v)
    BY <1>1
  <1>4. PICK w : /\ w[8] = v /\ t = w[14]
                 /\ \A s \in AllSlots :
                      w[s] = VisitSlot(machine.card, machine.driver, func, w[s - 1], s)
    BY <1>2, <1>3, CallIs
  <1> DEFINE Good == {k \in 8 .. 14 : Silenced(w[k], k)}
  <1>5. 8 \in Good
    <2>1. Upto(CardSlots, 8) = {} /\ Upto(Failing, 8) = {}
      BY SlotSets, UptoEnds
    <2>2. Silenced(v, 8)
      BY <1>2, <2>1 DEF Silenced
    <2> QED
      BY <1>4, <2>2
  <1>6. ASSUME NEW s \in AllSlots, s - 1 \in Good PROVE s \in Good
    <2>1. Silenced(w[s - 1], s - 1)
      BY <1>6
    <2>2. w[s] = VisitSlot(machine.card, machine.driver, "vbl_off", w[s - 1], s)
      BY <1>1, <1>4
    <2>3. Silenced(w[s], s)
      BY <2>1, <2>2, VisitSilenced
    <2> QED
      BY <2>3 DEF AllSlots
  <1>7. 14 \in Good
    <2> HIDE DEF Good
    <2> QED
      BY <1>5, <1>6, AllVisited
  <1> QED
    BY <1>4, <1>7
-----------------------------------------------------------------------------
(* What the kernel is told, from the step that decides it on.              *)
ToldVideo == main # Nil => video = [VideoOf(main) EXCEPT !.hacked = cfg.VideoHack]
ToldCards ==
    "cnt" \in machine.kernel =>
        IF told = <<>> THEN Unread # {} \/ CardSlots = DOMAIN machine.card
        ELSE /\ told.cnt = Cardinality(CardSlots)
             /\ "vec" \in machine.kernel =>
                  /\ {c.slot : c \in ToSet(told.vec)} = CardSlots
                  /\ \A i, j \in DOMAIN told.vec : i < j => told.vec[i].slot < told.vec[j].slot
TurnedOffSlots ==
    ~cfg.NoDisableVBLs =>
        /\ \A s \in CardSlots : (\A f \in Failing : s < f) => s \in off
        /\ cfg.AbortNonFatal /\ running => Failing = {}
Told ==
    /\ off \in SUBSET Nat
    /\ pc \in {"info", "off", "last", "kernel"} => ToldVideo
    /\ pc \in {"off", "last", "kernel"} => ToldCards
    /\ pc \in {"last", "kernel"} => TurnedOffSlots
    /\ pc = "kernel" => running

LEMMA ToldRecord ==
    ASSUME NEW a, NEW b, NEW t, t = [cnt |-> a, vec |-> b]
    PROVE  t # <<>> /\ t.cnt = a /\ t.vec = b
  <1>1. DOMAIN t = {"cnt", "vec"} /\ DOMAIN <<>> = {}
    OBVIOUS
  <1> QED
    BY <1>1

LEMMA VideoTold ==
    ASSUME getVideoAddress
    PROVE  ToldVideo'
  BY DEF getVideoAddress, ToldVideo, VideoOf, Timing, main

LEMMA CardsTold ==
    ASSUME machine \in Machines, off \in SUBSET Nat, set_video_info
    PROVE  ToldCards'
  <1>1. machine' = machine
    BY DEF set_video_info
  <1>2. ASSUME "cnt" \in machine.kernel
        PROVE  IF told' = <<>> THEN Unread # {} \/ CardSlots = DOMAIN machine.card
               ELSE /\ told'.cnt = Cardinality(CardSlots)
                    /\ "vec" \in machine.kernel =>
                         /\ {c.slot : c \in ToSet(told'.vec)} = CardSlots
                         /\ \A i, j \in DOMAIN told'.vec :
                              i < j => told'.vec[i].slot < told'.vec[j].slot
    <2>1. PICK v : v = video_call(machine.card, machine.driver, "add_card", NoCards(off))
      OBVIOUS
    <2>2. told' = IF v.err # NoError THEN <<>>
                  ELSE [cnt |-> Len(v.cards),
                        vec |-> IF "vec" \in machine.kernel THEN v.cards ELSE <<>>]
      BY <1>2, <2>1 DEF set_video_info, SetVideoInfo
    <2>3. Listed(v, 14)
      BY <2>1, CardsListed
    <2>4. /\ Upto(Unread, 14) = Unread /\ Upto(CardSlots, 14) = CardSlots
          /\ DOMAIN machine.card = AllSlots
      BY SlotSets, UptoEnds
    <2>5. CASE v.err # NoError
      BY <2>2, <2>3, <2>4, <2>5 DEF Listed
    <2>6. CASE v.err = NoError
      <3>1. PICK a, b : a = Len(v.cards) /\ b = IF "vec" \in machine.kernel THEN v.cards ELSE <<>>
        OBVIOUS
      <3>2. told' = [cnt |-> a, vec |-> b]
        BY <2>2, <2>6, <3>1
      <3>3. told' # <<>> /\ told'.cnt = a /\ told'.vec = b
        BY <3>2, ToldRecord
      <3>4. /\ a = Cardinality(CardSlots)
            /\ {v.cards[i].slot : i \in DOMAIN v.cards} = CardSlots
            /\ \A i, j \in DOMAIN v.cards : i < j => v.cards[i].slot < v.cards[j].slot
        BY <2>3, <2>4, <2>6, <3>1 DEF Listed
      <3>5. {c.slot : c \in ToSet(v.cards)} = {v.cards[i].slot : i \in DOMAIN v.cards}
        BY DEF ToSet
      <3>6. CASE "vec" \in machine.kernel
        <4>1. told'.vec = v.cards
          BY <3>1, <3>3, <3>6
        <4> QED
          BY <3>3, <3>4, <3>5, <4>1
      <3>7. CASE "vec" \notin machine.kernel
        BY <3>3, <3>4, <3>7
      <3> QED
        BY <3>6, <3>7
    <2> QED
      BY <2>5, <2>6
  <1>3. CardSlots' = CardSlots /\ Unread' = Unread
    BY <1>1 DEF CardSlots, Unread, FirstIs
  <1> QED
    BY <1>1, <1>2, <1>3 DEF ToldCards

LEMMA SlotsOff ==
    ASSUME machine \in Machines, off \in SUBSET Nat, turn_off_interrupts
    PROVE  TurnedOffSlots' /\ off' \in SUBSET Nat
  <1>1. machine' = machine /\ cfg' = cfg
    BY DEF turn_off_interrupts
  <1>2. CASE cfg.NoDisableVBLs
    BY <1>1, <1>2 DEF turn_off_interrupts, TurnedOffSlots
  <1>3. CASE ~cfg.NoDisableVBLs
    <2>1. PICK v : v = video_call(machine.card, machine.driver, "vbl_off", NoCards(off))
      OBVIOUS
    <2>2. off' = v.off /\ (running' <=> running /\ ~(v.fatal /\ cfg.AbortNonFatal))
      BY <1>3, <2>1 DEF turn_off_interrupts, TurnedOff, Walked
    <2>3. Silenced(v, 14)
      BY <2>1, CardsSilenced
    <2>4. Upto(Failing, 14) = Failing /\ Upto(CardSlots, 14) = CardSlots
      BY SlotSets, UptoEnds
    <2>5. v.off \in SUBSET Nat
      <3>1. v.off \in Offs
        BY <2>3, WalkFields DEF Silenced
      <3> QED
        BY <3>1 DEF Offs
    <2>6. /\ \A s \in CardSlots : (\A f \in Failing : s < f) => s \in off'
          /\ cfg.AbortNonFatal /\ running' => Failing = {}
      BY <2>2, <2>3, <2>4 DEF Silenced
    <2>7. CardSlots' = CardSlots /\ Failing' = Failing
      BY <1>1 DEF CardSlots, Failing, Unread, FirstIs
    <2> QED
      BY <1>1, <2>2, <2>5, <2>6, <2>7 DEF TurnedOffSlots
  <1> QED
    BY <1>2, <1>3

(* A later step changes nothing of it, but may clear `running'.            *)
LEMMA ToldKept ==
    ASSUME UNCHANGED <<machine, cfg>>
    PROVE  /\ UNCHANGED <<screens, video>> /\ ToldVideo => ToldVideo'
           /\ UNCHANGED told /\ ToldCards => ToldCards'
           /\ UNCHANGED <<off, running>> /\ TurnedOffSlots => TurnedOffSlots'
  <1>1. CardSlots' = CardSlots /\ Unread' = Unread /\ Failing' = Failing
    BY DEF CardSlots, Failing, Unread, FirstIs
  <1>2. UNCHANGED screens => \A i : VideoOf(i)' = VideoOf(i)
    BY DEF VideoOf, Timing
  <1>3. UNCHANGED <<screens, video>> /\ ToldVideo => ToldVideo'
    BY <1>2 DEF ToldVideo, main
  <1>4. UNCHANGED told /\ ToldCards => ToldCards'
    BY <1>1 DEF ToldCards
  <1>5. UNCHANGED <<off, running>> /\ TurnedOffSlots => TurnedOffSlots'
    BY <1>1 DEF TurnedOffSlots
  <1> QED
    BY <1>3, <1>4, <1>5

LEMMA StepTold ==
    ASSUME ScreensInv, [Next]_vars, Told
    PROVE  Told'
  <1>1. machine \in Machines /\ off \in SUBSET Nat
    BY DEF ScreensInv, Told
  <1>2. CASE Boot \/ MonitorChange \/ StopRun
    <2>1. pc' \in {"monitor", "address", "idle"} /\ off' = off
      BY <1>2 DEF Boot, MonitorChange, StopRun
    <2> QED
      BY <1>1, <2>1 DEF Told
  <1>3. CASE getVideoAddress
    <2>1. pc' = "info" /\ off' = off
      BY <1>3 DEF getVideoAddress
    <2> QED
      BY <1>1, <1>3, <2>1, VideoTold DEF Told
  <1>4. CASE set_video_info
    <2>1. /\ pc = "info" /\ pc' = "off" /\ UNCHANGED <<machine, cfg, screens, video, off>>
      BY <1>4 DEF set_video_info
    <2>2. ToldVideo' /\ ToldCards'
      BY <1>1, <1>4, <2>1, ToldKept, CardsTold DEF Told
    <2> QED
      BY <1>1, <2>1, <2>2 DEF Told
  <1>5. CASE turn_off_interrupts
    <2>1. /\ pc = "off" /\ pc' = "last" /\ UNCHANGED <<machine, cfg, screens, video, told>>
      BY <1>5 DEF turn_off_interrupts
    <2>2. ToldVideo' /\ ToldCards'
      BY <2>1, ToldKept DEF Told
    <2>3. TurnedOffSlots' /\ off' \in SUBSET Nat
      BY <1>1, <1>5, SlotsOff
    <2> QED
      BY <2>1, <2>2, <2>3 DEF Told
  <1>6. CASE EnterKernel
    <2>1. /\ pc = "last" /\ running /\ pc' = "kernel"
          /\ UNCHANGED <<machine, cfg, screens, video, told, off, running>>
      BY <1>6 DEF EnterKernel
    <2>2. ToldVideo' /\ ToldCards' /\ TurnedOffSlots'
      BY <2>1, ToldKept DEF Told
    <2> QED
      BY <1>1, <2>1, <2>2 DEF Told
  <1>7. CASE Over \/ UNCHANGED vars
    <2>1. UNCHANGED <<machine, cfg, screens, video, told, off, running, pc>>
      BY <1>7 DEF Over, vars, saved
    <2>2. /\ ToldVideo => ToldVideo'
          /\ ToldCards => ToldCards'
          /\ TurnedOffSlots => TurnedOffSlots'
      BY <2>1, ToldKept
    <2> QED
      BY <1>1, <2>1, <2>2 DEF Told
  <1> QED
    BY <1>2, <1>3, <1>4, <1>5, <1>6, <1>7 DEF Next

(* A kernel is entered with what the main screen shows, with the list of   *)
(* all cards or none, and with the interrupts off of every card before the *)
(* first that fails: for any cards in the slots, in any boot.              *)
THEOREM KernelToldCorrect == Spec => []KernelToldRight
  <1>1. Init => Told
    BY DEF Init, Told
  <1>2. Told => KernelToldRight
    BY DEF Told, ToldVideo, ToldCards, TurnedOffSlots, KernelToldRight
  <1> QED
    BY <1>1, <1>2, InitScreens, StepScreens, StepTold, PTL DEF Spec
=============================================================================
