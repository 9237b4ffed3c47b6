------------------------------ MODULE Settings ------------------------------
(***************************************************************************)
(* The options: currentConfiguration, the five modeless dialogs that show  *)
(* and change it (Dialogs.c, Startup.c, Serial.c, Monitors.c, Machine.c),  *)
(* and the preferences file it is kept in (Prefs.c).                       *)
(*                                                                         *)
(* A dialog is a record of what it shows: the values of its check boxes    *)
(* and radio buttons, and the numbers or names in its texts.  Check boxes  *)
(* and texts that are only copied, from the configuration and back, are    *)
(* all alike: `check' and `text' hold the ones named by Checks and Texts.  *)
(* A control the code dims takes no hits.                                  *)
(***************************************************************************)
EXTENDS Integers, FiniteSets

CONSTANTS
    Checks, Texts,      \* of each dialog, the fields that are only copied
    Width,              \* number of values the field behind such a text has
    OnByDefault,        \* check boxes LoadUserConfiguration sets
    Machines,           \* what the booter finds at a launch
    Numbers,            \* what the user may type
    Files,              \* Mac OS files that can be chosen, [name, dir]
    MaxSteps            \* bound: what the user does between two launches

Dialogs   == {"boot", "startup", "serial", "monitor", "machine"}
Locations == {"NetBSDPart", "MacOSPart", "NetBoot"}
Depths    == {1, 8, 16, 32}
Sizes     == {"640x480", "800x600", "832x624", "1024x768", "1152x870"}
AllChecks == UNION {Checks[d] : d \in Dialogs}
AllTexts  == UNION {Texts[d] : d \in Dialogs}

ASSUME WidthAssumption == \A f \in AllTexts : Width[f] \in Nat \ {0}
(* Each of these controls has a field of the configuration to itself.      *)
ASSUME FieldsAssumption ==
    \A d, e \in Dialogs : d # e => Checks[d] \cap Checks[e] = {} /\ Texts[d] \cap Texts[e] = {}
ASSUME InputsAssumption ==
    /\ \A m \in Machines : {m.ram, m.gmt, m.type, m.dm} \subseteq Int
    /\ Numbers \subseteq Int
    /\ \A f \in Files : f = [name |-> f.name, dir |-> f.dir]

VARIABLES
    machine,            \* of this launch: ram in MB, gmt, type, dm
    cfg,                \* currentConfiguration
    RAMSize, debugLevel,
    panel,              \* the dialogs that are open, and what they show
    file,               \* the SETU resource of the preferences file
    steps,              \* what the user did since the launch
    kept,               \* history: what the last good save wrote
    taken,              \* history: dialogs whose settings were just taken
    fresh               \* history: the program has just been launched

vars == <<machine, cfg, RAMSize, debugLevel, panel, file, steps, kept, taken, fresh>>

(* unsigned char and short.                                                *)
Byte(n)  == n % 256
Short(n) == ((n + 32768) % 65536) - 32768

GetRAMSize(m) == Byte(m.ram)
Closed     == [open |-> FALSE]
NoFile     == [kind |-> "none"]
Kept(c)    == [kind |-> "kept", cfg |-> c]
Blank      == 0         \* the number in a text until it is set (DITL 128)
-----------------------------------------------------------------------------
(* Machine and Booting dialogs show a number of the machine itself while   *)
(* the box beside it says so, whatever is typed.                           *)
autoSizeRAMtext(p)  == IF p.AutoSizeRAM THEN [p EXCEPT !.memAmount = GetRAMSize(machine)] ELSE p
changeMACHIDtext(p) == IF p.ChangeMachID THEN p ELSE [p EXCEPT !.machID = machine.type]
AutoSetGMTtext(p)   == IF p.AutoSetGMT THEN [p EXCEPT !.GMTID = machine.gmt] ELSE p

Copied(values, fields) == [f \in fields |-> values[f]]
With(p, q) == [f \in DOMAIN p \cup DOMAIN q |-> IF f \in DOMAIN q THEN q[f] ELSE p[f]]

(* What a dialog shows when it is opened.                                  *)
DoBootingDialog(c) ==
    AutoSetGMTtext(
        [open |-> TRUE, check |-> Copied(c.check, Checks["boot"]),
         text |-> Copied(c.text, Texts["boot"]),
         GMTID |-> c.GMT_bias, AutoSetGMT |-> c.AutoSetGMT, macFileID |-> c.MacKernel.name,
         kernelLoc |-> c.kernelLoc, ATAroot |-> c.ATAdisk,
         ATAchan   |-> IF c.ATAdisk THEN c.Channel ELSE Blank,
         ATAdevice |-> IF c.ATAdisk THEN c.SCSIID ELSE Blank,
         scsiID    |-> IF c.ATAdisk THEN Blank ELSE c.SCSIID])
DoStartupDialog(c) ==
    [open |-> TRUE, check |-> Copied(c.check, Checks["startup"]),
     text |-> Copied(c.text, Texts["startup"]), debugLevelID |-> c.DebugLevel]
(* SerConsole: bit 0 says that there is a console, bit 1 on which port.    *)
Speed(n) == IF n = 0 THEN 9600 ELSE n
DoSerialDialog(c) ==
    [open |-> TRUE, check |-> Copied(c.check, Checks["serial"]),
     text |-> Copied(c.text, Texts["serial"]),
     s_serConsole |-> c.SerConsole # 0, printer |-> c.SerConsole = 3,
     s_serModemSpeed |-> Speed(c.ModemDSpeed)]
DoMonitorDialog(c) ==
    [open |-> TRUE, check |-> Copied(c.check, Checks["monitor"]),
     text |-> Copied(c.text, Texts["monitor"]),
     m_depth |-> c.MonitorDepth # 0, m_size |-> c.MonitorSize # "none",
     bits |-> IF c.MonitorDepth = 0 THEN 1 ELSE c.MonitorDepth,
     size |-> IF c.MonitorSize = "none" THEN "640x480" ELSE c.MonitorSize]
DoMachineDialog(c) ==
    autoSizeRAMtext(changeMACHIDtext(
        [open |-> TRUE, check |-> Copied(c.check, Checks["machine"]),
         text |-> Copied(c.text, Texts["machine"]),
         memAmount |-> c.MemAmount, AutoSizeRAM |-> c.AutoSizeRAM,
         machID |-> c.newMACHID, ChangeMachID |-> c.ChangeMachID]))

Shows(d, c) == CASE d = "boot"    -> DoBootingDialog(c)
                 [] d = "startup" -> DoStartupDialog(c)
                 [] d = "serial"  -> DoSerialDialog(c)
                 [] d = "monitor" -> DoMonitorDialog(c)
                 [] d = "machine" -> DoMachineDialog(c)

(* What is taken from a dialog.                                            *)
CopyBack(c, p) ==
    [c EXCEPT !.check = With(@, p.check),
              !.text  = With(@, [f \in DOMAIN p.text |-> p.text[f] % Width[f]])]
\* Defect: the ATA device is read from the SCSI text.
GetBootOneText(c, p) ==
    [CopyBack(c, p) EXCEPT
        !.MacKernel.name = p.macFileID, !.AutoSetGMT = p.AutoSetGMT,
        !.GMT_bias = IF p.AutoSetGMT THEN machine.gmt ELSE Short(p.GMTID),
        !.ATAdisk = p.ATAroot, !.kernelLoc = p.kernelLoc, !.SCSIID = Byte(p.scsiID)]
GetBoot(c, p) ==
    [CopyBack(c, p) EXCEPT
        !.MacKernel.name = p.macFileID, !.AutoSetGMT = p.AutoSetGMT,
        !.GMT_bias = IF p.AutoSetGMT THEN machine.gmt ELSE Short(p.GMTID),
        !.ATAdisk  = p.ATAroot, !.kernelLoc = p.kernelLoc,
        !.Channel  = IF p.ATAroot THEN Byte(p.ATAchan) ELSE @,
        !.SCSIID   = IF p.ATAroot THEN Byte(p.ATAdevice) ELSE Byte(p.scsiID)]
GetStartup(c, p) == [CopyBack(c, p) EXCEPT !.DebugLevel = Byte(p.debugLevelID)]
GetSerial(c, p) ==
    [CopyBack(c, p) EXCEPT
        !.SerConsole  = IF ~p.s_serConsole THEN 0 ELSE IF p.printer THEN 3 ELSE 1,
        !.ModemDSpeed = p.s_serModemSpeed]
GetMonitor(c, p) ==
    [CopyBack(c, p) EXCEPT !.MonitorDepth = IF p.m_depth THEN p.bits ELSE 0,
                           !.MonitorSize  = IF p.m_size THEN p.size ELSE "none"]
SizeOf(p) == IF p.AutoSizeRAM THEN GetRAMSize(machine) ELSE Byte(p.memAmount)
GetMachine(c, p) ==
    [CopyBack(c, p) EXCEPT
        !.newMACHID = IF p.ChangeMachID THEN Short(p.machID) ELSE machine.type,
        !.ChangeMachID = p.ChangeMachID, !.AutoSizeRAM = p.AutoSizeRAM,
        !.MemAmount = SizeOf(p)]

Taken(d, c, p) ==
    IF ~p.open THEN c
    ELSE CASE d = "boot"    -> GetBoot(c, p)
           [] d = "startup" -> GetStartup(c, p)
           [] d = "serial"  -> GetSerial(c, p)
           [] d = "monitor" -> GetMonitor(c, p)
           [] d = "machine" -> GetMachine(c, p)

(* Hits: what a dialog may show after one, of those that change nothing    *)
(* but the dialog.  A key typed into a text is a hit on it.                *)
Toggled(p)   == {[p EXCEPT !.check[f] = ~@] : f \in DOMAIN p.check}
TypedInto(p) == {[p EXCEPT !.text[f] = n] : f \in DOMAIN p.text, n \in Numbers}
HandleBoot(p) ==
    {AutoSetGMTtext([p EXCEPT !.AutoSetGMT = ~@])}
    \cup {AutoSetGMTtext([p EXCEPT !.GMTID = n]) : n \in Numbers}
    \cup {[p EXCEPT !.kernelLoc = l] : l \in Locations}
    \cup {[p EXCEPT !.ATAroot = a] : a \in BOOLEAN}
    \cup UNION {{[p EXCEPT !.ATAchan = n], [p EXCEPT !.ATAdevice = n],
                 [p EXCEPT !.scsiID = n]} : n \in Numbers}
HandleStartup(p) == {[p EXCEPT !.debugLevelID = n] : n \in Numbers}
HandleSerial(p) ==
    {[p EXCEPT !.s_serConsole = ~@]}
    \cup {[p EXCEPT !.printer = b] : b \in IF p.s_serConsole THEN BOOLEAN ELSE {}}
    \cup {[p EXCEPT !.s_serModemSpeed = n] : n \in Numbers}
HandleMonitor(p) ==
    {[p EXCEPT !.bits = b] : b \in IF p.m_depth THEN Depths ELSE {}}
    \cup {[p EXCEPT !.size = s] : s \in IF p.m_size THEN Sizes ELSE {}}
    \cup (IF p.m_depth THEN {[p EXCEPT !.m_depth = FALSE]} ELSE {})
    \cup (IF p.m_size /\ machine.dm > 1 THEN {[p EXCEPT !.m_size = FALSE]} ELSE {})
HandleMachine(p) ==
    {autoSizeRAMtext([p EXCEPT !.AutoSizeRAM = ~@]),
     changeMACHIDtext([p EXCEPT !.ChangeMachID = ~@])}
    \cup {autoSizeRAMtext([p EXCEPT !.memAmount = n]) : n \in Numbers}
    \cup {changeMACHIDtext([p EXCEPT !.machID = n]) : n \in Numbers}

Handled(d, p) ==
    Toggled(p) \cup TypedInto(p) \cup
    CASE d = "boot"    -> HandleBoot(p)
      [] d = "startup" -> HandleStartup(p)
      [] d = "serial"  -> HandleSerial(p)
      [] d = "monitor" -> HandleMonitor(p)
      [] d = "machine" -> HandleMachine(p)
-----------------------------------------------------------------------------
(* Prefs.c.                                                                *)

Defaults(m) ==
    [kernelLoc |-> "NetBSDPart", MacKernel |-> [name |-> "netbsd.gz", dir |-> "none"],
     AutoSetGMT |-> TRUE, GMT_bias |-> m.gmt, ATAdisk |-> FALSE, Channel |-> 0,
     SCSIID |-> 0, DebugLevel |-> 0, LogFile |-> [name |-> "bootlog", dir |-> "none"],
     SerConsole |-> 0, ModemDSpeed |-> 0, MonitorDepth |-> 1, MonitorSize |-> "none",
     AutoSizeRAM |-> TRUE, MemAmount |-> GetRAMSize(m), ChangeMachID |-> FALSE,
     newMACHID |-> 0, check |-> [f \in AllChecks |-> f \in OnByDefault],
     text |-> [f \in AllTexts |-> 0]]

(* A file without the resource, or with one of another size, is ignored.   *)
LoadDefaultPrefs(f, m) == IF f.kind = "kept" THEN f.cfg ELSE Defaults(m)

\* Defect: the machine's own values are not asked for again.
LoadedAsKept(c, m) == c
Normalised(c, m) ==
    [c EXCEPT !.GMT_bias  = IF c.AutoSetGMT THEN m.gmt ELSE @,
              !.newMACHID = IF c.ChangeMachID THEN @ ELSE m.type]
LoadUserConfiguration(f, m) ==
    \E c \in {Normalised(LoadDefaultPrefs(f, m), m)} :
      /\ cfg' = c /\ debugLevel' = c.DebugLevel
      /\ RAMSize' = IF c.MemAmount = 0 \/ c.AutoSizeRAM THEN GetRAMSize(m) ELSE c.MemAmount

(* How a save can go: before the old resource is removed nothing is lost.  *)
\* Defect: the file is made anew before it is known that there is a handle.
SaveResultsEarly(old, c) ==
    [saved |-> {Kept(c)}, create |-> {old}, open |-> {old}, handle |-> {NoFile},
     remove |-> {old, Kept(c)}, add |-> {NoFile}, write |-> {NoFile, Kept(c)}]
SaveResults(old, c) ==
    [saved |-> {Kept(c)}, create |-> {old}, open |-> {old}, handle |-> {old},
     remove |-> {old, Kept(c)}, add |-> {NoFile},
     write |-> {NoFile, [kind |-> "odd"], Kept(c)}]
-----------------------------------------------------------------------------
Init ==
    /\ machine \in Machines
    /\ file \in {NoFile, [kind |-> "odd"]}
    /\ cfg = Normalised(Defaults(machine), machine)
    /\ debugLevel = cfg.DebugLevel /\ RAMSize = GetRAMSize(machine)
    /\ panel = [d \in Dialogs |-> Closed] /\ steps = 0
    /\ kept = NoFile /\ taken = {} /\ fresh = TRUE

Step == steps < MaxSteps /\ steps' = steps + 1 /\ fresh' = FALSE

(* A menu command; a dialog that is open already only comes to the front.  *)
Open(d) ==
    /\ Step /\ ~panel[d].open
    /\ panel' = [panel EXCEPT ![d] = Shows(d, cfg)] /\ taken' = {}
    /\ cfg' = IF d = "serial" THEN [cfg EXCEPT !.ModemDSpeed = Speed(@)] ELSE cfg
    /\ UNCHANGED <<machine, RAMSize, debugLevel, file, kept>>

Hit(d) ==
    /\ Step /\ panel[d].open
    /\ \E p \in Handled(d, panel[d]) : panel' = [panel EXCEPT ![d] = p]
    /\ taken' = {} /\ UNCHANGED <<machine, cfg, RAMSize, debugLevel, file, kept>>

(* Hits that change the configuration at once, whatever button follows.    *)
TurnOnDepth ==
    /\ Step /\ panel["monitor"].open /\ ~panel["monitor"].m_depth
    /\ panel' = [panel EXCEPT !["monitor"].m_depth = TRUE, !["monitor"].bits = 1]
    /\ cfg' = [cfg EXCEPT !.MonitorDepth = 1]
    /\ taken' = {} /\ UNCHANGED <<machine, RAMSize, debugLevel, file, kept>>
TurnOnSize ==
    /\ Step /\ panel["monitor"].open /\ ~panel["monitor"].m_size /\ machine.dm > 1
    /\ panel' = [panel EXCEPT !["monitor"].m_size = TRUE, !["monitor"].size = "640x480"]
    /\ cfg' = [cfg EXCEPT !.MonitorSize = "640x480"]
    /\ taken' = {} /\ UNCHANGED <<machine, RAMSize, debugLevel, file, kept>>
SetMacFile ==
    /\ Step /\ panel["boot"].open /\ panel["boot"].kernelLoc = "MacOSPart"
    /\ \E f \in Files : /\ cfg' = [cfg EXCEPT !.MacKernel = f]
                        /\ panel' = [panel EXCEPT !["boot"].macFileID = f.name]
    /\ taken' = {} /\ UNCHANGED <<machine, RAMSize, debugLevel, file, kept>>
SetLogFile ==
    /\ Step /\ panel["startup"].open
    /\ \E f \in Files : cfg' = [cfg EXCEPT !.LogFile = f]
    /\ taken' = {} /\ UNCHANGED <<machine, RAMSize, debugLevel, panel, file, kept>>

(* Taking a set of dialogs: GetMachine and GetStartup set globals too.     *)
Take(ds) ==
    /\ cfg' = LET c1 == IF "boot" \in ds THEN Taken("boot", cfg, panel["boot"]) ELSE cfg
                  c2 == IF "serial" \in ds THEN Taken("serial", c1, panel["serial"]) ELSE c1
                  c3 == IF "monitor" \in ds THEN Taken("monitor", c2, panel["monitor"]) ELSE c2
                  c4 == IF "startup" \in ds THEN Taken("startup", c3, panel["startup"]) ELSE c3
              IN  IF "machine" \in ds THEN Taken("machine", c4, panel["machine"]) ELSE c4
    /\ debugLevel' = IF "startup" \in ds THEN Byte(panel["startup"].debugLevelID) ELSE debugLevel
    /\ RAMSize'    = IF "machine" \in ds THEN SizeOf(panel["machine"]) ELSE RAMSize
    /\ taken' = {[dialog |-> d, shown |-> panel[d]] : d \in ds}
OpenDialogs   == {d \in Dialogs : panel[d].open}
GetAllOptions == Take(OpenDialogs)

PressOK(d) == /\ Step /\ panel[d].open /\ Take({d})
              /\ panel' = [panel EXCEPT ![d] = Closed]
              /\ UNCHANGED <<machine, file, kept>>
PressCancel(d) == /\ Step /\ panel[d].open /\ taken' = {}
                  /\ panel' = [panel EXCEPT ![d] = Closed]
                  /\ UNCHANGED <<machine, cfg, RAMSize, debugLevel, file, kept>>

(* The commands of the File and Options menus.                             *)
BootNow == /\ Step /\ GetAllOptions /\ UNCHANGED <<machine, panel, file, kept>>
OpenAndBoot == /\ Step /\ \E f \in Files : cfg' = [cfg EXCEPT !.MacKernel = f]
               /\ taken' = {}
               /\ UNCHANGED <<machine, RAMSize, debugLevel, panel, file, kept>>
SavePreferences(how) ==
    /\ Step /\ GetAllOptions
    /\ file' \in SaveResults(file, cfg')[how]
    /\ kept' = IF how = "saved" THEN Kept(cfg')
               ELSE IF how \in {"create", "open", "handle"} THEN kept ELSE NoFile
    /\ UNCHANGED <<machine, panel>>

(* Quit, and a launch, perhaps with more memory or on another machine.     *)
Relaunch ==
    /\ \E m \in Machines : machine' = m /\ LoadUserConfiguration(file, m)
    /\ panel' = [d \in Dialogs |-> Closed] /\ taken' = {} /\ fresh' = TRUE
    /\ UNCHANGED <<file, steps, kept>>

Next == \/ \E d \in Dialogs : Open(d) \/ Hit(d) \/ PressOK(d) \/ PressCancel(d)
        \/ TurnOnDepth \/ TurnOnSize \/ SetMacFile \/ SetLogFile
        \/ BootNow \/ OpenAndBoot \/ Relaunch
        \/ \E how \in DOMAIN SaveResults(file, cfg) : SavePreferences(how)

Spec == Init /\ [][Next]_vars
-----------------------------------------------------------------------------
(* Of two contents of a dialog, that everything the user meant with the    *)
(* first is in the second: a number out of its field's range, and what is  *)
(* chosen behind a box that is off, are not meant.                         *)
Bytes  == 0 .. 255
Shorts == -32768 .. 32767
SameNumber(n, m, range) == n \in range => n = m
Meant(d, p, q) ==
    /\ \A f \in Checks[d] : q.check[f] = p.check[f]
    /\ \A f \in Texts[d] : SameNumber(p.text[f], q.text[f], 0 .. Width[f] - 1)
    /\ CASE d = "boot" ->
              /\ q.AutoSetGMT = p.AutoSetGMT /\ SameNumber(p.GMTID, q.GMTID, Shorts)
              /\ q.kernelLoc = p.kernelLoc /\ q.macFileID = p.macFileID
              /\ q.ATAroot = p.ATAroot
              /\ IF p.ATAroot THEN /\ SameNumber(p.ATAchan, q.ATAchan, Bytes)
                                   /\ SameNumber(p.ATAdevice, q.ATAdevice, Bytes)
                 ELSE SameNumber(p.scsiID, q.scsiID, Bytes)
         [] d = "startup" -> SameNumber(p.debugLevelID, q.debugLevelID, Bytes)
         [] d = "serial" ->
              /\ q.s_serConsole = p.s_serConsole
              /\ p.s_serConsole => q.printer = p.printer
              /\ p.s_serModemSpeed # 0 => q.s_serModemSpeed = p.s_serModemSpeed
         [] d = "monitor" ->
              /\ q.m_depth = p.m_depth /\ (p.m_depth => q.bits = p.bits)
              /\ q.m_size = p.m_size /\ (p.m_size => q.size = p.size)
         [] d = "machine" ->
              /\ q.AutoSizeRAM = p.AutoSizeRAM /\ SameNumber(p.memAmount, q.memAmount, Bytes)
              /\ q.ChangeMachID = p.ChangeMachID /\ SameNumber(p.machID, q.machID, Shorts)

(* OK, Boot Now and Save Preferences take what the dialogs show, all of    *)
(* them and each of its own items: a dialog opened again shows what it     *)
(* showed when it was taken, whatever the dialogs taken with it, before or *)
(* after, did to the configuration and to the globals that go with it.     *)
ShownIsStored == \A t \in taken : Meant(t.dialog, t.shown, Shows(t.dialog, cfg))

(* A launch has the settings of the last save that was reported good, but  *)
(* for those that follow the machine; a save that fails before it touches  *)
(* the resource (no file, no handle) leaves the earlier one in force.      *)
RelaunchRestores ==
    fresh /\ kept.kind = "kept" =>
      \A f \in DOMAIN cfg :
        \/ cfg[f] = kept.cfg[f]
        \/ f = "GMT_bias"  /\ cfg.AutoSetGMT
        \/ f = "newMACHID" /\ ~cfg.ChangeMachID

(* The globals and fields that are computed from the machine and from      *)
(* other fields keep up with them through launches on other machines,      *)
(* dialogs and loads: RAMSize (what the kernel is told), debugLevel, the   *)
(* GMT bias and the machine id.  A memory size of 0 means none was given,  *)
(* and only the next launch asks the machine in its place.                 *)
DerivedAgree ==
    /\ debugLevel = cfg.DebugLevel
    /\ cfg.AutoSetGMT => cfg.GMT_bias = machine.gmt
    /\ ~cfg.ChangeMachID => cfg.newMACHID = machine.type
    /\ IF cfg.AutoSizeRAM THEN RAMSize = GetRAMSize(machine)
       ELSE \/ RAMSize = cfg.MemAmount
            \/ cfg.MemAmount = 0 /\ RAMSize = GetRAMSize(machine)
=============================================================================
