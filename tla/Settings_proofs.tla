-------------------------- MODULE Settings_proofs --------------------------
(***************************************************************************)
(* Proofs about Settings, for any check boxes and texts, any machines, any *)
(* numbers typed and any number of hits.                                   *)
(***************************************************************************)
EXTENDS Settings, TLAPS

FileRef == [name : {f.name : f \in Files} \cup {"netbsd.gz", "bootlog"},
            dir  : {f.dir : f \in Files} \cup {"none"}]
Config ==
    [kernelLoc : Locations, MacKernel : FileRef, AutoSetGMT : BOOLEAN, GMT_bias : Int,
     ATAdisk : BOOLEAN, Channel : Int, SCSIID : Int, DebugLevel : Int, LogFile : FileRef,
     SerConsole : {0, 1, 3}, ModemDSpeed : Int, MonitorDepth : {0} \cup Depths,
     MonitorSize : {"none"} \cup Sizes, AutoSizeRAM : BOOLEAN, MemAmount : Int,
     ChangeMachID : BOOLEAN, newMACHID : Int,
     check : [AllChecks -> BOOLEAN], text : [AllTexts -> Int]]

(* What each dialog shows; the numbers of the machine itself, where a box  *)
(* says so.                                                                *)
BootPanel ==
    {p \in [open : {TRUE}, check : [Checks["boot"] -> BOOLEAN], text : [Texts["boot"] -> Int],
            GMTID : Int, AutoSetGMT : BOOLEAN,
            macFileID : {f.name : f \in Files} \cup {"netbsd.gz", "bootlog"},
            kernelLoc : Locations, ATAroot : BOOLEAN,
            ATAchan : Int, ATAdevice : Int, scsiID : Int] :
        p.AutoSetGMT => p.GMTID = machine.gmt}
StartupPanel ==
    [open : {TRUE}, check : [Checks["startup"] -> BOOLEAN], text : [Texts["startup"] -> Int],
     debugLevelID : Int]
SerialPanel ==
    [open : {TRUE}, check : [Checks["serial"] -> BOOLEAN], text : [Texts["serial"] -> Int],
     s_serConsole : BOOLEAN, printer : BOOLEAN, s_serModemSpeed : Int]
MonitorPanel ==
    [open : {TRUE}, check : [Checks["monitor"] -> BOOLEAN], text : [Texts["monitor"] -> Int],
     m_depth : BOOLEAN, m_size : BOOLEAN, bits : Depths, size : Sizes]
MachinePanel ==
    {p \in [open : {TRUE}, check : [Checks["machine"] -> BOOLEAN], text : [Texts["machine"] -> Int],
            memAmount : Int, AutoSizeRAM : BOOLEAN, machID : Int, ChangeMachID : BOOLEAN] :
        /\ p.AutoSizeRAM => p.memAmount = GetRAMSize(machine)
        /\ ~p.ChangeMachID => p.machID = machine.type}

Panel(d) == CASE d = "boot"    -> BootPanel
              [] d = "startup" -> StartupPanel
              [] d = "serial"  -> SerialPanel
              [] d = "monitor" -> MonitorPanel
              [] d = "machine" -> MachinePanel

(* The fields of the configuration that a dialog is for.                   *)
Own(d) == CASE d = "boot"    -> {"kernelLoc", "MacKernel", "AutoSetGMT", "GMT_bias", "ATAdisk",
                                 "Channel", "SCSIID"}
            [] d = "startup" -> {"DebugLevel"}
            [] d = "serial"  -> {"SerConsole", "ModemDSpeed"}
            [] d = "monitor" -> {"MonitorDepth", "MonitorSize"}
            [] d = "machine" -> {"AutoSizeRAM", "MemAmount", "ChangeMachID", "newMACHID"}
Agree(d, c, e) ==
    /\ \A f \in Own(d) : c[f] = e[f]
    /\ \A f \in Checks[d] : c.check[f] = e.check[f]
    /\ \A f \in Texts[d] : c.text[f] = e.text[f]

(* Numbers are cut to the width of their field, those within it are kept.  *)
LEMMA Conversions ==
    /\ \A n \in Int : Byte(n) \in Int /\ Short(n) \in Int
    /\ \A n \in Bytes : Byte(n) = n
    /\ \A n \in Shorts : Short(n) = n
  BY DEF Byte, Short, Bytes, Shorts

(* What the machine says of itself are numbers.                            *)
LEMMA MachineNumbers ==
    ASSUME NEW m \in Machines
    PROVE  /\ m.gmt \in Int /\ m.type \in Int /\ m.ram \in Int
           /\ GetRAMSize(m) \in Int
  BY InputsAssumption, Conversions DEF GetRAMSize

(* Check boxes and texts that are copied from the configuration.           *)
LEMMA CopiedType ==
    ASSUME NEW c \in Config, NEW d \in Dialogs
    PROVE  /\ Copied(c.check, Checks[d]) \in [Checks[d] -> BOOLEAN]
           /\ Copied(c.text, Texts[d]) \in [Texts[d] -> Int]
  BY DEF Copied, Config, AllChecks, AllTexts
-----------------------------------------------------------------------------
(* What the dialogs show of a configuration.                               *)
BootShown(c) ==
    [open |-> TRUE, check |-> Copied(c.check, Checks["boot"]),
     text |-> Copied(c.text, Texts["boot"]),
     GMTID |-> IF c.AutoSetGMT THEN machine.gmt ELSE c.GMT_bias,
     AutoSetGMT |-> c.AutoSetGMT, macFileID |-> c.MacKernel.name,
     kernelLoc |-> c.kernelLoc, ATAroot |-> c.ATAdisk,
     ATAchan   |-> IF c.ATAdisk THEN c.Channel ELSE Blank,
     ATAdevice |-> IF c.ATAdisk THEN c.SCSIID ELSE Blank,
     scsiID    |-> IF c.ATAdisk THEN Blank ELSE c.SCSIID]
MachineShown(c) ==
    [open |-> TRUE, check |-> Copied(c.check, Checks["machine"]),
     text |-> Copied(c.text, Texts["machine"]),
     memAmount |-> IF c.AutoSizeRAM THEN GetRAMSize(machine) ELSE c.MemAmount,
     AutoSizeRAM |-> c.AutoSizeRAM,
     machID |-> IF c.ChangeMachID THEN c.newMACHID ELSE machine.type,
     ChangeMachID |-> c.ChangeMachID]

LEMMA BootShows ==
    ASSUME NEW c \in Config, machine \in Machines
    PROVE  DoBootingDialog(c) = BootShown(c) /\ BootShown(c) \in BootPanel
  <1>1. /\ Copied(c.check, Checks["boot"]) \in [Checks["boot"] -> BOOLEAN]
        /\ Copied(c.text, Texts["boot"]) \in [Texts["boot"] -> Int]
    BY CopiedType DEF Dialogs
  <1>2. /\ c.GMT_bias \in Int /\ c.Channel \in Int /\ c.SCSIID \in Int
        /\ c.AutoSetGMT \in BOOLEAN /\ c.ATAdisk \in BOOLEAN /\ c.kernelLoc \in Locations
        /\ c.MacKernel.name \in {f.name : f \in Files} \cup {"netbsd.gz", "bootlog"}
    BY DEF Config, FileRef
  <1>3. DoBootingDialog(c) = BootShown(c)
    BY DEF DoBootingDialog, AutoSetGMTtext, BootShown
  <1>4. BootShown(c) \in BootPanel
    BY <1>1, <1>2, MachineNumbers DEF BootShown, BootPanel, Blank
  <1> QED
    BY <1>3, <1>4

LEMMA MachineShows ==
    ASSUME NEW c \in Config, machine \in Machines
    PROVE  DoMachineDialog(c) = MachineShown(c) /\ MachineShown(c) \in MachinePanel
  <1>1. /\ Copied(c.check, Checks["machine"]) \in [Checks["machine"] -> BOOLEAN]
        /\ Copied(c.text, Texts["machine"]) \in [Texts["machine"] -> Int]
    BY CopiedType DEF Dialogs
  <1>2. /\ c.MemAmount \in Int /\ c.newMACHID \in Int
        /\ c.AutoSizeRAM \in BOOLEAN /\ c.ChangeMachID \in BOOLEAN
    BY DEF Config
  <1>3. DoMachineDialog(c) = MachineShown(c)
    BY DEF DoMachineDialog, autoSizeRAMtext, changeMACHIDtext, MachineShown
  <1>4. MachineShown(c) \in MachinePanel
    BY <1>1, <1>2, MachineNumbers DEF MachineShown, MachinePanel
  <1> QED
    BY <1>3, <1>4

LEMMA ShowsType ==
    ASSUME NEW c \in Config, NEW d \in Dialogs, machine \in Machines
    PROVE  Shows(d, c) \in Panel(d)
  <1>1. /\ Copied(c.check, Checks[d]) \in [Checks[d] -> BOOLEAN]
        /\ Copied(c.text, Texts[d]) \in [Texts[d] -> Int]
    BY CopiedType
  <1>2. /\ c.DebugLevel \in Int /\ c.SerConsole \in {0, 1, 3} /\ c.ModemDSpeed \in Int
        /\ c.MonitorDepth \in {0} \cup Depths /\ c.MonitorSize \in {"none"} \cup Sizes
    BY DEF Config
  <1>3. CASE d = "boot"
    BY <1>3, BootShows DEF Shows, Panel
  <1>4. CASE d = "startup"
    BY <1>1, <1>2, <1>4 DEF Shows, Panel, DoStartupDialog, StartupPanel
  <1>5. CASE d = "serial"
    BY <1>1, <1>2, <1>5 DEF Shows, Panel, DoSerialDialog, SerialPanel, Speed
  <1>6. CASE d = "monitor"
    BY <1>1, <1>2, <1>6 DEF Shows, Panel, DoMonitorDialog, MonitorPanel, Depths, Sizes
  <1>7. CASE d = "machine"
    BY <1>7, MachineShows DEF Shows, Panel
  <1> QED
    BY <1>3, <1>4, <1>5, <1>6, <1>7 DEF Dialogs

(* A dialog shows no more of a configuration than its own fields.          *)
LEMMA ShowsOwn ==
    ASSUME NEW c \in Config, NEW e \in Config, NEW d \in Dialogs, machine \in Machines,
           Agree(d, c, e)
    PROVE  Shows(d, c) = Shows(d, e)
  <1>1. /\ Copied(c.check, Checks[d]) = Copied(e.check, Checks[d])
        /\ Copied(c.text, Texts[d]) = Copied(e.text, Texts[d])
    BY DEF Agree, Copied
  <1>2. CASE d = "boot"
    <2>1. BootShown(c) = BootShown(e)
      BY <1>1, <1>2 DEF BootShown, Agree, Own
    <2> QED
      BY <1>2, <2>1, BootShows DEF Shows
  <1>3. CASE d = "startup"
    BY <1>1, <1>3 DEF Shows, DoStartupDialog, Agree, Own
  <1>4. CASE d = "serial"
    BY <1>1, <1>4 DEF Shows, DoSerialDialog, Agree, Own
  <1>5. CASE d = "monitor"
    BY <1>1, <1>5 DEF Shows, DoMonitorDialog, Agree, Own
  <1>6. CASE d = "machine"
    <2>1. MachineShown(c) = MachineShown(e)
      BY <1>1, <1>6 DEF MachineShown, Agree, Own
    <2> QED
      BY <1>6, <2>1, MachineShows DEF Shows
  <1> QED
    BY <1>2, <1>3, <1>4, <1>5, <1>6 DEF Dialogs
-----------------------------------------------------------------------------
(* Taking a dialog.                                                        *)

LEMMA CopyBackType ==
    ASSUME NEW c \in Config, NEW d \in Dialogs, NEW p,
           p.check \in [Checks[d] -> BOOLEAN], p.text \in [Texts[d] -> Int]
    PROVE  /\ CopyBack(c, p) \in Config
           /\ \A f \in Checks[d] : CopyBack(c, p).check[f] = p.check[f]
           /\ \A f \in Texts[d] : CopyBack(c, p).text[f] = p.text[f] % Width[f]
           /\ \A f \in AllChecks \ Checks[d] : CopyBack(c, p).check[f] = c.check[f]
           /\ \A f \in AllTexts \ Texts[d] : CopyBack(c, p).text[f] = c.text[f]
           /\ \A f \in DOMAIN c \ {"check", "text"} : CopyBack(c, p)[f] = c[f]
  <1> DEFINE check == With(c.check, p.check)
             cut   == [f \in DOMAIN p.text |-> p.text[f] % Width[f]]
             text  == With(c.text, cut)
  <1>1. Checks[d] \subseteq AllChecks /\ Texts[d] \subseteq AllTexts
    BY DEF AllChecks, AllTexts
  <1>2. c.check \in [AllChecks -> BOOLEAN] /\ c.text \in [AllTexts -> Int]
    BY DEF Config
  <1>3. cut \in [Texts[d] -> Int]
    <2>1. \A f \in Texts[d] : p.text[f] \in Int /\ Width[f] \in Nat \ {0}
      BY <1>1, WidthAssumption
    <2> QED
      BY <2>1
  <1>4. check = [f \in AllChecks |-> IF f \in Checks[d] THEN p.check[f] ELSE c.check[f]]
    BY <1>1, <1>2 DEF With
  <1>5. text = [f \in AllTexts |-> IF f \in Texts[d] THEN cut[f] ELSE c.text[f]]
    <2> HIDE DEF cut
    <2> QED
      BY <1>1, <1>2, <1>3 DEF With
  <1>6. check \in [AllChecks -> BOOLEAN]
    <2> HIDE DEF check
    <2> QED
      BY <1>1, <1>2, <1>4
  <1>7. text \in [AllTexts -> Int]
    <2> HIDE DEF text, cut
    <2> QED
      BY <1>1, <1>2, <1>3, <1>5
  <1>8. CopyBack(c, p) = [c EXCEPT !.check = check, !.text = text]
    BY DEF CopyBack
  <1>9. \A f \in Texts[d] : cut[f] = p.text[f] % Width[f]
    OBVIOUS
  <1> HIDE DEF check, text, cut
  <1>10. CopyBack(c, p) \in Config /\ CopyBack(c, p).check = check /\ CopyBack(c, p).text = text
    BY ZenonT(40), <1>6, <1>7, <1>8 DEF Config
  <1>11. \A f \in DOMAIN c \ {"check", "text"} : CopyBack(c, p)[f] = c[f]
    BY <1>8 DEF Config
  <1> QED
    BY <1>1, <1>4, <1>5, <1>9, <1>10, <1>11

(* Taking one dialog changes its own fields only.                          *)
LEMMA OthersKept ==
    ASSUME NEW c \in Config, NEW e \in Config, NEW d \in Dialogs, NEW o \in Dialogs, o # d,
           NEW p, p.check \in [Checks[d] -> BOOLEAN], p.text \in [Texts[d] -> Int],
           \A f \in DOMAIN c \ Own(d) : e[f] = CopyBack(c, p)[f]
    PROVE  Agree(o, c, e)
  <1>1. /\ \A f \in Checks[o] : f \in AllChecks \ Checks[d]
        /\ \A f \in Texts[o] : f \in AllTexts \ Texts[d]
    BY FieldsAssumption DEF AllChecks, AllTexts
  <1>2. "check" \in DOMAIN c \ Own(d) /\ "text" \in DOMAIN c \ Own(d)
    BY DEF Config, Own, Dialogs
  <1>3. \A f \in Own(o) : f \in DOMAIN c \ {"check", "text"} /\ f \notin Own(d)
    BY DEF Config, Own, Dialogs
  <1> QED
    BY <1>1, <1>2, <1>3, CopyBackType DEF Agree

(* What a dialog shows is typed and, once taken, is shown again; nothing   *)
(* but its own fields changes, and those that follow the machine or are    *)
(* in a global too have the values Stored says.                            *)
Stored(d, p, c) ==
    CASE d = "boot"    -> c.AutoSetGMT => c.GMT_bias = machine.gmt
      [] d = "startup" -> c.DebugLevel = Byte(p.debugLevelID)
      [] d = "serial"  -> TRUE
      [] d = "monitor" -> TRUE
      [] d = "machine" -> /\ c.MemAmount = SizeOf(p) /\ c.AutoSizeRAM = p.AutoSizeRAM
                          /\ ~c.ChangeMachID => c.newMACHID = machine.type
TakenRight(d, c, p, taking) ==
    /\ taking \in Config /\ Stored(d, p, taking)
    /\ \A f \in DOMAIN c \ Own(d) : taking[f] = CopyBack(c, p)[f]
    /\ Meant(d, p, Shows(d, taking))

LEMMA CopiedMeant ==
    ASSUME NEW c \in Config, NEW d \in Dialogs, NEW p, NEW e \in Config,
           p.check \in [Checks[d] -> BOOLEAN], p.text \in [Texts[d] -> Int],
           e.check = CopyBack(c, p).check, e.text = CopyBack(c, p).text
    PROVE  /\ \A f \in Checks[d] : Copied(e.check, Checks[d])[f] = p.check[f]
           /\ \A f \in Texts[d] : SameNumber(p.text[f], Copied(e.text, Texts[d])[f], 0 .. Width[f] - 1)
  <1>1. \A f \in Texts[d] : Width[f] \in Nat \ {0} /\ p.text[f] \in Int
    BY WidthAssumption DEF AllTexts
  <1>2. \A f \in Texts[d] : p.text[f] \in 0 .. Width[f] - 1 => p.text[f] % Width[f] = p.text[f]
    BY <1>1
  <1> QED
    BY <1>2, CopyBackType DEF Copied, SameNumber

LEMMA GetBootRight ==
    ASSUME NEW c \in Config, NEW p \in BootPanel, machine \in Machines
    PROVE  TakenRight("boot", c, p, GetBoot(c, p))
  <1> DEFINE b == CopyBack(c, p)
             r == GetBoot(c, p)
  <1>1. /\ p.check \in [Checks["boot"] -> BOOLEAN] /\ p.text \in [Texts["boot"] -> Int]
        /\ p.GMTID \in Int /\ p.AutoSetGMT \in BOOLEAN /\ p.kernelLoc \in Locations
        /\ p.macFileID \in {f.name : f \in Files} \cup {"netbsd.gz", "bootlog"}
        /\ p.ATAroot \in BOOLEAN /\ p.ATAchan \in Int /\ p.ATAdevice \in Int /\ p.scsiID \in Int
        /\ p.AutoSetGMT => p.GMTID = machine.gmt
    BY DEF BootPanel
  <1>2. b \in Config
    BY <1>1, CopyBackType DEF Dialogs
  <1>3. r = [b EXCEPT
        !.MacKernel.name = p.macFileID, !.AutoSetGMT = p.AutoSetGMT,
        !.GMT_bias = IF p.AutoSetGMT THEN machine.gmt ELSE Short(p.GMTID),
        !.ATAdisk  = p.ATAroot, !.kernelLoc = p.kernelLoc,
        !.Channel  = IF p.ATAroot THEN Byte(p.ATAchan) ELSE @,
        !.SCSIID   = IF p.ATAroot THEN Byte(p.ATAdevice) ELSE Byte(p.scsiID)]
    BY DEF GetBoot
  <1> HIDE DEF b, r
  <1>4. [b.MacKernel EXCEPT !.name = p.macFileID] \in FileRef
        /\ [b.MacKernel EXCEPT !.name = p.macFileID].name = p.macFileID
    BY <1>1, <1>2 DEF Config, FileRef
  <1>5. r \in Config
    <2> DEFINE kernel == [b.MacKernel EXCEPT !.name = p.macFileID]
               bias   == IF p.AutoSetGMT THEN machine.gmt ELSE Short(p.GMTID)
               chan   == IF p.ATAroot THEN Byte(p.ATAchan) ELSE b.Channel
               id     == IF p.ATAroot THEN Byte(p.ATAdevice) ELSE Byte(p.scsiID)
    <2>1. kernel \in FileRef /\ bias \in Int /\ chan \in Int /\ id \in Int
      <3>1. b.Channel \in Int
        BY <1>2 DEF Config
      <3> QED
        BY <1>1, <1>4, <3>1, Conversions, MachineNumbers
    <2>2. r = [b EXCEPT !.MacKernel = kernel, !.AutoSetGMT = p.AutoSetGMT, !.GMT_bias = bias,
                        !.ATAdisk = p.ATAroot, !.kernelLoc = p.kernelLoc, !.Channel = chan,
                        !.SCSIID = id]
      BY <1>2, <1>3 DEF Config
    <2> HIDE DEF kernel, bias, chan, id
    <2> QED
      BY <1>1, <1>2, <2>1, <2>2 DEF Config
  <1>6. /\ r.MacKernel.name = p.macFileID /\ r.AutoSetGMT = p.AutoSetGMT
        /\ r.GMT_bias = (IF p.AutoSetGMT THEN machine.gmt ELSE Short(p.GMTID))
        /\ r.ATAdisk = p.ATAroot /\ r.kernelLoc = p.kernelLoc
        /\ p.ATAroot => r.Channel = Byte(p.ATAchan) /\ r.SCSIID = Byte(p.ATAdevice)
        /\ ~p.ATAroot => r.SCSIID = Byte(p.scsiID)
    BY <1>2, <1>3, <1>4 DEF Config
  <1>7. \A f \in DOMAIN c \ Own("boot") : r[f] = b[f]
    BY <1>2, <1>3 DEF Config, Own
  <1>8. /\ \A f \in Checks["boot"] : BootShown(r).check[f] = p.check[f]
        /\ \A f \in Texts["boot"] : SameNumber(p.text[f], BootShown(r).text[f], 0 .. Width[f] - 1)
    <2>1. r.check = b.check /\ r.text = b.text
      BY <1>7 DEF Config, Own
    <2> QED
      BY <1>1, <1>5, <2>1, CopiedMeant DEF Dialogs, BootShown, b
  <1>9. Meant("boot", p, BootShown(r))
    <2>1. /\ SameNumber(p.GMTID, BootShown(r).GMTID, Shorts)
          /\ BootShown(r).AutoSetGMT = p.AutoSetGMT
          /\ BootShown(r).kernelLoc = p.kernelLoc /\ BootShown(r).macFileID = p.macFileID
          /\ BootShown(r).ATAroot = p.ATAroot
      BY <1>1, <1>6, Conversions DEF BootShown, SameNumber
    <2>2. IF p.ATAroot THEN /\ SameNumber(p.ATAchan, BootShown(r).ATAchan, Bytes)
                            /\ SameNumber(p.ATAdevice, BootShown(r).ATAdevice, Bytes)
          ELSE SameNumber(p.scsiID, BootShown(r).scsiID, Bytes)
      BY <1>1, <1>6, Conversions DEF BootShown, SameNumber
    <2> QED
      BY <1>8, <2>1, <2>2 DEF Meant
  <1> QED
    BY <1>5, <1>6, <1>7, <1>9, BootShows DEF TakenRight, Stored, Shows, b, r

LEMMA GetStartupRight ==
    ASSUME NEW c \in Config, NEW p \in StartupPanel
    PROVE  TakenRight("startup", c, p, GetStartup(c, p))
  <1> DEFINE b == CopyBack(c, p)
             r == GetStartup(c, p)
  <1>1. /\ p.check \in [Checks["startup"] -> BOOLEAN] /\ p.text \in [Texts["startup"] -> Int]
        /\ p.debugLevelID \in Int
    BY DEF StartupPanel
  <1>2. b \in Config
    BY <1>1, CopyBackType DEF Dialogs
  <1>3. r = [b EXCEPT !.DebugLevel = Byte(p.debugLevelID)]
    BY DEF GetStartup
  <1> HIDE DEF b, r
  <1>4. r \in Config /\ r.DebugLevel = Byte(p.debugLevelID)
    BY <1>1, <1>2, <1>3, Conversions DEF Config
  <1>5. \A f \in DOMAIN c \ Own("startup") : r[f] = b[f]
    BY <1>2, <1>3 DEF Config, Own
  <1>6. r.check = b.check /\ r.text = b.text
    BY <1>5 DEF Config, Own
  <1>7. Meant("startup", p, Shows("startup", r))
    BY <1>1, <1>4, <1>6, CopiedMeant, Conversions
    DEF Meant, Shows, DoStartupDialog, SameNumber, Dialogs, b
  <1> QED
    BY <1>4, <1>5, <1>7 DEF TakenRight, Stored, b, r

LEMMA GetSerialRight ==
    ASSUME NEW c \in Config, NEW p \in SerialPanel
    PROVE  TakenRight("serial", c, p, GetSerial(c, p))
  <1> DEFINE b == CopyBack(c, p)
             r == GetSerial(c, p)
  <1>1. /\ p.check \in [Checks["serial"] -> BOOLEAN] /\ p.text \in [Texts["serial"] -> Int]
        /\ p.s_serConsole \in BOOLEAN /\ p.printer \in BOOLEAN /\ p.s_serModemSpeed \in Int
    BY DEF SerialPanel
  <1>2. b \in Config
    BY <1>1, CopyBackType DEF Dialogs
  <1>3. r = [b EXCEPT
        !.SerConsole  = IF ~p.s_serConsole THEN 0 ELSE IF p.printer THEN 3 ELSE 1,
        !.ModemDSpeed = p.s_serModemSpeed]
    BY DEF GetSerial
  <1> HIDE DEF b, r
  <1>4. /\ r \in Config /\ r.ModemDSpeed = p.s_serModemSpeed
        /\ r.SerConsole = (IF ~p.s_serConsole THEN 0 ELSE IF p.printer THEN 3 ELSE 1)
    BY ZenonT(40), <1>1, <1>2, <1>3 DEF Config
  <1>5. \A f \in DOMAIN c \ Own("serial") : r[f] = b[f]
    BY <1>2, <1>3 DEF Config, Own
  <1>6. r.check = b.check /\ r.text = b.text
    BY <1>5 DEF Config, Own
  <1>7. /\ \A f \in Checks["serial"] : DoSerialDialog(r).check[f] = p.check[f]
        /\ \A f \in Texts["serial"] :
              SameNumber(p.text[f], DoSerialDialog(r).text[f], 0 .. Width[f] - 1)
    BY <1>1, <1>4, <1>6, CopiedMeant DEF DoSerialDialog, Dialogs, b
  <1>8. /\ DoSerialDialog(r).s_serConsole = p.s_serConsole
        /\ p.s_serConsole => DoSerialDialog(r).printer = p.printer
        /\ p.s_serModemSpeed # 0 => DoSerialDialog(r).s_serModemSpeed = p.s_serModemSpeed
    BY <1>1, <1>4 DEF DoSerialDialog, Speed
  <1>9. Meant("serial", p, Shows("serial", r))
    BY <1>7, <1>8 DEF Meant, Shows
  <1> QED
    BY <1>4, <1>5, <1>9 DEF TakenRight, Stored, b, r

LEMMA GetMonitorRight ==
    ASSUME NEW c \in Config, NEW p \in MonitorPanel
    PROVE  TakenRight("monitor", c, p, GetMonitor(c, p))
  <1> DEFINE b == CopyBack(c, p)
             r == GetMonitor(c, p)
  <1>1. /\ p.check \in [Checks["monitor"] -> BOOLEAN] /\ p.text \in [Texts["monitor"] -> Int]
        /\ p.m_depth \in BOOLEAN /\ p.m_size \in BOOLEAN
        /\ p.bits \in Depths /\ p.size \in Sizes
    BY DEF MonitorPanel
  <1>2. b \in Config
    BY <1>1, CopyBackType DEF Dialogs
  <1>3. r = [b EXCEPT !.MonitorDepth = IF p.m_depth THEN p.bits ELSE 0,
                      !.MonitorSize  = IF p.m_size THEN p.size ELSE "none"]
    BY DEF GetMonitor
  <1> HIDE DEF b, r
  <1>4. /\ r \in Config /\ r.MonitorDepth = (IF p.m_depth THEN p.bits ELSE 0)
        /\ r.MonitorSize = (IF p.m_size THEN p.size ELSE "none")
    BY <1>1, <1>2, <1>3 DEF Config
  <1>5. \A f \in DOMAIN c \ Own("monitor") : r[f] = b[f]
    BY <1>2, <1>3 DEF Config, Own
  <1>6. r.check = b.check /\ r.text = b.text
    BY <1>5 DEF Config, Own
  <1>7. /\ \A f \in Checks["monitor"] : DoMonitorDialog(r).check[f] = p.check[f]
        /\ \A f \in Texts["monitor"] :
              SameNumber(p.text[f], DoMonitorDialog(r).text[f], 0 .. Width[f] - 1)
    BY <1>1, <1>4, <1>6, CopiedMeant DEF DoMonitorDialog, Dialogs, b
  <1>8. /\ DoMonitorDialog(r).m_depth = p.m_depth
        /\ p.m_depth => DoMonitorDialog(r).bits = p.bits
        /\ DoMonitorDialog(r).m_size = p.m_size
        /\ p.m_size => DoMonitorDialog(r).size = p.size
    BY <1>1, <1>4 DEF DoMonitorDialog, Depths, Sizes
  <1>9. Meant("monitor", p, Shows("monitor", r))
    BY <1>7, <1>8 DEF Meant, Shows
  <1> QED
    BY <1>4, <1>5, <1>9 DEF TakenRight, Stored, b, r

LEMMA GetMachineRight ==
    ASSUME NEW c \in Config, NEW p \in MachinePanel, machine \in Machines
    PROVE  TakenRight("machine", c, p, GetMachine(c, p))
  <1> DEFINE b == CopyBack(c, p)
             r == GetMachine(c, p)
  <1>1. /\ p.check \in [Checks["machine"] -> BOOLEAN] /\ p.text \in [Texts["machine"] -> Int]
        /\ p.memAmount \in Int /\ p.machID \in Int
        /\ p.AutoSizeRAM \in BOOLEAN /\ p.ChangeMachID \in BOOLEAN
        /\ p.AutoSizeRAM => p.memAmount = GetRAMSize(machine)
        /\ ~p.ChangeMachID => p.machID = machine.type
    BY DEF MachinePanel
  <1>2. b \in Config
    BY <1>1, CopyBackType DEF Dialogs
  <1>3. r = [b EXCEPT !.newMACHID = IF p.ChangeMachID THEN Short(p.machID) ELSE machine.type,
                      !.ChangeMachID = p.ChangeMachID, !.AutoSizeRAM = p.AutoSizeRAM,
                      !.MemAmount = SizeOf(p)]
    BY DEF GetMachine
  <1> HIDE DEF b, r
  <1>4. SizeOf(p) \in Int /\ (p.memAmount \in Bytes => SizeOf(p) = p.memAmount)
    BY <1>1, Conversions, MachineNumbers DEF SizeOf
  <1>5. /\ r \in Config /\ r.MemAmount = SizeOf(p) /\ r.AutoSizeRAM = p.AutoSizeRAM
        /\ r.ChangeMachID = p.ChangeMachID
        /\ r.newMACHID = (IF p.ChangeMachID THEN Short(p.machID) ELSE machine.type)
    <2> DEFINE id == IF p.ChangeMachID THEN Short(p.machID) ELSE machine.type
    <2>1. id \in Int
      BY <1>1, Conversions, MachineNumbers
    <2>2. r = [b EXCEPT !.newMACHID = id, !.ChangeMachID = p.ChangeMachID,
                        !.AutoSizeRAM = p.AutoSizeRAM, !.MemAmount = SizeOf(p)]
      BY <1>3
    <2> HIDE DEF id
    <2>3. /\ r \in Config /\ r.MemAmount = SizeOf(p) /\ r.AutoSizeRAM = p.AutoSizeRAM
          /\ r.ChangeMachID = p.ChangeMachID /\ r.newMACHID = id
      BY <1>1, <1>2, <1>4, <2>1, <2>2 DEF Config
    <2> QED
      BY <2>3 DEF id
  <1>6. \A f \in DOMAIN c \ Own("machine") : r[f] = b[f]
    BY <1>2, <1>3 DEF Config, Own
  <1>7. r.check = b.check /\ r.text = b.text
    BY <1>6 DEF Config, Own
  <1>8. /\ \A f \in Checks["machine"] : MachineShown(r).check[f] = p.check[f]
        /\ \A f \in Texts["machine"] :
              SameNumber(p.text[f], MachineShown(r).text[f], 0 .. Width[f] - 1)
    BY <1>1, <1>5, <1>7, CopiedMeant DEF MachineShown, Dialogs, b
  <1>9. /\ MachineShown(r).AutoSizeRAM = p.AutoSizeRAM
        /\ SameNumber(p.memAmount, MachineShown(r).memAmount, Bytes)
        /\ MachineShown(r).ChangeMachID = p.ChangeMachID
        /\ SameNumber(p.machID, MachineShown(r).machID, Shorts)
    BY <1>1, <1>4, <1>5, Conversions DEF MachineShown, SameNumber
  <1>10. Meant("machine", p, MachineShown(r))
    BY <1>8, <1>9 DEF Meant
  <1> QED
    BY <1>5, <1>6, <1>10, MachineShows DEF TakenRight, Stored, Shows, b, r

LEMMA TakenIsRight ==
    ASSUME NEW c \in Config, NEW d \in Dialogs, NEW p \in Panel(d), machine \in Machines
    PROVE  /\ Taken(d, c, p) \in Config
           /\ Meant(d, p, Shows(d, Taken(d, c, p)))
           /\ Stored(d, p, Taken(d, c, p))
           /\ \A o \in Dialogs \ {d} : Agree(o, c, Taken(d, c, p))
           /\ Taken(d, c, p).LogFile = c.LogFile
  <1>1. /\ p.open = TRUE /\ p.check \in [Checks[d] -> BOOLEAN] /\ p.text \in [Texts[d] -> Int]
    BY DEF Panel, BootPanel, StartupPanel, SerialPanel, MonitorPanel, MachinePanel, Dialogs
  <1>2. TakenRight(d, c, p, Taken(d, c, p))
    BY <1>1, GetBootRight, GetStartupRight, GetSerialRight, GetMonitorRight, GetMachineRight
    DEF Taken, Panel, Dialogs
  <1>3. \A o \in Dialogs \ {d} : Agree(o, c, Taken(d, c, p))
    BY <1>1, <1>2, OthersKept DEF TakenRight
  <1>4. Taken(d, c, p).LogFile = c.LogFile
    <2>1. "LogFile" \in DOMAIN c \ Own(d) /\ "LogFile" \in DOMAIN c \ {"check", "text"}
      BY DEF Config, Own, Dialogs
    <2> QED
      BY <1>1, <1>2, <2>1, CopyBackType DEF TakenRight
  <1> QED
    BY <1>2, <1>3, <1>4 DEF TakenRight

(* One of the dialogs that may or may not be taken with others.            *)
Took(d, ds, c) == IF d \in ds THEN Taken(d, c, panel[d]) ELSE c
LEMMA TookRight ==
    ASSUME NEW c \in Config, NEW d \in Dialogs, NEW ds, machine \in Machines,
           d \in ds => panel[d] \in Panel(d)
    PROVE  /\ Took(d, ds, c) \in Config
           /\ d \in ds => /\ Meant(d, panel[d], Shows(d, Took(d, ds, c)))
                          /\ Stored(d, panel[d], Took(d, ds, c))
           /\ d \notin ds => Agree(d, c, Took(d, ds, c))
           /\ \A o \in Dialogs \ {d} : Agree(o, c, Took(d, ds, c))
  <1>1. CASE d \in ds
    BY <1>1, TakenIsRight DEF Took
  <1>2. CASE d \notin ds
    BY <1>2 DEF Took, Agree
  <1> QED
    BY <1>1, <1>2

LEMMA AgreeTransitive ==
    ASSUME NEW d, NEW a, NEW b, NEW c, Agree(d, a, b), Agree(d, b, c)
    PROVE  Agree(d, a, c)
  BY DEF Agree

LEMMA StoredOwn ==
    ASSUME NEW d \in Dialogs, NEW p, NEW c, NEW e, Agree(d, c, e), Stored(d, p, c)
    PROVE  Stored(d, p, e)
  BY DEF Agree, Stored, Own, Dialogs

(* Taking dialogs one after another: the later ones leave alone what was   *)
(* taken from the earlier ones.                                            *)
LEMMA TakeRight ==
    ASSUME cfg \in Config, machine \in Machines, NEW ds \in SUBSET Dialogs,
           \A d \in ds : panel[d] \in Panel(d), Take(ds)
    PROVE  /\ cfg' \in Config
           /\ \A d \in ds : Meant(d, panel[d], Shows(d, cfg')) /\ Stored(d, panel[d], cfg')
           /\ \A d \in Dialogs \ ds : Agree(d, cfg, cfg')
  <1> DEFINE c1 == Took("boot", ds, cfg)
             c2 == Took("serial", ds, c1)
             c3 == Took("monitor", ds, c2)
             c4 == Took("startup", ds, c3)
             c5 == Took("machine", ds, c4)
             Right(d, b, c) == /\ c \in Config
                               /\ d \in ds => /\ Meant(d, panel[d], Shows(d, c))
                                              /\ Stored(d, panel[d], c)
                               /\ d \notin ds => Agree(d, b, c)
                               /\ \A o \in Dialogs \ {d} : Agree(o, b, c)
  <1>1. cfg' = c5
    BY DEF Take, Took
  <1>2. \A d \in Dialogs, c \in Config : Right(d, c, Took(d, ds, c))
    BY TookRight
  <1>3. {"boot", "serial", "monitor", "startup", "machine"} = Dialogs
    BY DEF Dialogs
  <1>4. Right("boot", cfg, c1)
    BY <1>2, <1>3
  <1>5. Right("serial", c1, c2)
    BY <1>2, <1>3, <1>4
  <1>6. Right("monitor", c2, c3)
    BY <1>2, <1>3, <1>5
  <1>7. Right("startup", c3, c4)
    BY <1>2, <1>3, <1>6
  <1>8. Right("machine", c4, c5)
    BY <1>2, <1>3, <1>7
  <1> HIDE DEF c1, c2, c3, c4, c5
  <1>9. c1 \in Config /\ c2 \in Config /\ c3 \in Config /\ c4 \in Config /\ c5 \in Config
    BY <1>4, <1>5, <1>6, <1>7, <1>8
  <1>10. \A d \in Dialogs \ {"machine"} : Agree(d, c4, c5)
    BY <1>8
  <1>11. \A d \in Dialogs \ {"machine", "startup"} : Agree(d, c3, c5)
    BY <1>7, <1>10, AgreeTransitive
  <1>12. \A d \in Dialogs \ {"machine", "startup", "monitor"} : Agree(d, c2, c5)
    BY <1>6, <1>11, AgreeTransitive
  <1>13. Agree("boot", c1, c5)
    BY <1>3, <1>5, <1>12, AgreeTransitive
  <1>14. /\ Agree("serial", cfg, c1) /\ Agree("monitor", cfg, c2)
         /\ Agree("startup", cfg, c3) /\ Agree("machine", cfg, c4)
    BY <1>3, <1>4, <1>5, <1>6, <1>7, AgreeTransitive
  <1> DEFINE Done(d, c) ==
                 /\ d \in ds => /\ Meant(d, panel[d], Shows(d, c))
                                /\ Stored(d, panel[d], c)
                 /\ d \notin ds => Agree(d, cfg, c)
  <1>15. ASSUME NEW d \in Dialogs, NEW b \in Config, NEW c \in Config, Right(d, b, c),
                Agree(d, cfg, b), Agree(d, c, c5)
         PROVE  Done(d, c5)
    <2>1. Shows(d, c) = Shows(d, c5)
      BY <1>9, <1>15, ShowsOwn
    <2>2. d \in ds => Stored(d, panel[d], c5)
      BY <1>15, StoredOwn
    <2>3. d \notin ds => Agree(d, cfg, c5)
      BY <1>15, AgreeTransitive
    <2> QED
      BY <1>15, <2>1, <2>2, <2>3
  <1> HIDE DEF Right
  <1>16. Agree("boot", cfg, cfg) /\ Agree("machine", c5, c5)
    BY DEF Agree
  <1>17. /\ Agree("serial", c2, c5) /\ Agree("monitor", c3, c5) /\ Agree("startup", c4, c5)
    BY <1>3, <1>10, <1>11, <1>12
  <1>18. Done("boot", c5)
    BY <1>3, <1>4, <1>9, <1>13, <1>15, <1>16
  <1>19. Done("serial", c5)
    BY <1>3, <1>5, <1>9, <1>14, <1>15, <1>17
  <1>20. Done("monitor", c5)
    BY <1>3, <1>6, <1>9, <1>14, <1>15, <1>17
  <1>21. Done("startup", c5)
    BY <1>3, <1>7, <1>9, <1>14, <1>15, <1>17
  <1>22. Done("machine", c5)
    BY <1>3, <1>8, <1>9, <1>14, <1>15, <1>16
  <1>23. \A d \in Dialogs : Done(d, c5)
    <2> HIDE DEF Done
    <2> QED
      BY <1>3, <1>18, <1>19, <1>20, <1>21, <1>22
  <1> QED
    BY <1>1, <1>9, <1>23
-----------------------------------------------------------------------------
(* Hits leave what a dialog shows of its kind.                             *)
LEMMA TypedAndToggled ==
    ASSUME NEW d \in Dialogs, NEW p \in Panel(d), NEW q \in Toggled(p) \cup TypedInto(p)
    PROVE  q \in Panel(d)
  <1>1. /\ p.check \in [Checks[d] -> BOOLEAN] /\ p.text \in [Texts[d] -> Int]
    BY DEF Panel, BootPanel, StartupPanel, SerialPanel, MonitorPanel, MachinePanel, Dialogs
  <1>2. PICK check \in [Checks[d] -> BOOLEAN], text \in [Texts[d] -> Int] :
           q = [p EXCEPT !.check = check, !.text = text]
    <2>1. CASE q \in Toggled(p)
      <3>1. PICK f \in Checks[d] : q = [p EXCEPT !.check[f] = ~@]
        BY <1>1, <2>1 DEF Toggled
      <3>2. [p.check EXCEPT ![f] = ~@] \in [Checks[d] -> BOOLEAN]
        BY <1>1
      <3>3. q = [p EXCEPT !.check = [p.check EXCEPT ![f] = ~@], !.text = p.text]
        BY <3>1 DEF Panel, BootPanel, StartupPanel, SerialPanel, MonitorPanel, MachinePanel, Dialogs
      <3> QED
        BY <1>1, <3>2, <3>3
    <2>2. CASE q \in TypedInto(p)
      <3>1. PICK f \in Texts[d], n \in Numbers : q = [p EXCEPT !.text[f] = n]
        BY <1>1, <2>2 DEF TypedInto
      <3>2. [p.text EXCEPT ![f] = n] \in [Texts[d] -> Int]
        BY <1>1, <3>1, InputsAssumption
      <3>3. q = [p EXCEPT !.check = p.check, !.text = [p.text EXCEPT ![f] = n]]
        BY <3>1 DEF Panel, BootPanel, StartupPanel, SerialPanel, MonitorPanel, MachinePanel, Dialogs
      <3> QED
        BY <1>1, <3>2, <3>3
    <2> QED
      BY <2>1, <2>2
  <1> QED
    BY ZenonT(40), <1>2 DEF Panel, BootPanel, StartupPanel, SerialPanel,
                            MonitorPanel, MachinePanel, Dialogs

LEMMA HandledBoot ==
    ASSUME NEW p \in BootPanel, NEW q \in HandleBoot(p), machine \in Machines
    PROVE  q \in BootPanel
  <1>1. Numbers \subseteq Int /\ machine.gmt \in Int
    BY InputsAssumption, MachineNumbers
  <1>2. /\ \A a \in BOOLEAN : AutoSetGMTtext([p EXCEPT !.AutoSetGMT = a]) \in BootPanel
        /\ \A n \in Int : AutoSetGMTtext([p EXCEPT !.GMTID = n]) \in BootPanel
    BY <1>1 DEF AutoSetGMTtext, BootPanel
  <1>3. \A l \in Locations : [p EXCEPT !.kernelLoc = l] \in BootPanel
    BY DEF BootPanel
  <1>4. \A a \in BOOLEAN : [p EXCEPT !.ATAroot = a] \in BootPanel
    BY DEF BootPanel
  <1>5. \A n \in Int : /\ [p EXCEPT !.ATAchan = n] \in BootPanel
                       /\ [p EXCEPT !.ATAdevice = n] \in BootPanel
                       /\ [p EXCEPT !.scsiID = n] \in BootPanel
    BY DEF BootPanel
  <1>6. (~p.AutoSetGMT) \in BOOLEAN
    OBVIOUS
  <1>7. CASE q = AutoSetGMTtext([p EXCEPT !.AutoSetGMT = ~@])
    BY <1>2, <1>6, <1>7
  <1>8. CASE \E n \in Numbers : q = AutoSetGMTtext([p EXCEPT !.GMTID = n])
    BY <1>1, <1>2, <1>8
  <1>9. CASE \/ \E l \in Locations : q = [p EXCEPT !.kernelLoc = l]
             \/ \E a \in BOOLEAN : q = [p EXCEPT !.ATAroot = a]
    BY <1>3, <1>4, <1>9
  <1>10. CASE \E n \in Numbers : q \in {[p EXCEPT !.ATAchan = n], [p EXCEPT !.ATAdevice = n],
                                       [p EXCEPT !.scsiID = n]}
    BY <1>1, <1>5, <1>10
  <1>11. \/ q = AutoSetGMTtext([p EXCEPT !.AutoSetGMT = ~@])
         \/ q \in {AutoSetGMTtext([p EXCEPT !.GMTID = n]) : n \in Numbers}
         \/ q \in {[p EXCEPT !.kernelLoc = l] : l \in Locations}
         \/ q \in {[p EXCEPT !.ATAroot = a] : a \in BOOLEAN}
         \/ q \in UNION {{[p EXCEPT !.ATAchan = n], [p EXCEPT !.ATAdevice = n],
                         [p EXCEPT !.scsiID = n]} : n \in Numbers}
    BY Zenon DEF HandleBoot
  <1> QED
    BY <1>7, <1>8, <1>9, <1>10, <1>11

LEMMA HandledMachine ==
    ASSUME NEW p \in MachinePanel, NEW q \in HandleMachine(p), machine \in Machines
    PROVE  q \in MachinePanel
  <1>1. Numbers \subseteq Int /\ machine.type \in Int /\ GetRAMSize(machine) \in Int
    BY InputsAssumption, MachineNumbers
  <1>2. \A n \in Int, a \in BOOLEAN :
          /\ autoSizeRAMtext([p EXCEPT !.AutoSizeRAM = a]) \in MachinePanel
          /\ autoSizeRAMtext([p EXCEPT !.memAmount = n]) \in MachinePanel
    BY <1>1 DEF autoSizeRAMtext, MachinePanel
  <1>3. \A n \in Int, a \in BOOLEAN :
          /\ changeMACHIDtext([p EXCEPT !.ChangeMachID = a]) \in MachinePanel
          /\ changeMACHIDtext([p EXCEPT !.machID = n]) \in MachinePanel
    BY <1>1 DEF changeMACHIDtext, MachinePanel
  <1>4. (~p.AutoSizeRAM) \in BOOLEAN /\ (~p.ChangeMachID) \in BOOLEAN
    OBVIOUS
  <1> QED
    BY <1>1, <1>2, <1>3, <1>4 DEF HandleMachine

LEMMA HandledType ==
    ASSUME NEW d \in Dialogs, NEW p \in Panel(d), NEW q \in Handled(d, p), machine \in Machines
    PROVE  q \in Panel(d)
  <1>1. Numbers \subseteq Int
    BY InputsAssumption
  <1>2. CASE q \in Toggled(p) \cup TypedInto(p)
    BY <1>2, TypedAndToggled
  <1>3. CASE d = "boot" /\ q \in HandleBoot(p)
    BY <1>3, HandledBoot DEF Panel
  <1>4. CASE d = "startup" /\ q \in HandleStartup(p)
    BY <1>1, <1>4 DEF Panel, StartupPanel, HandleStartup
  <1>5. CASE d = "serial" /\ q \in HandleSerial(p)
    BY ZenonT(40), <1>1, <1>5 DEF Panel, SerialPanel, HandleSerial
  <1>6. CASE d = "monitor" /\ q \in HandleMonitor(p)
    BY <1>6 DEF Panel, MonitorPanel, HandleMonitor
  <1>7. CASE d = "machine" /\ q \in HandleMachine(p)
    BY <1>7, HandledMachine DEF Panel
  <1> QED
    BY <1>2, <1>3, <1>4, <1>5, <1>6, <1>7 DEF Handled, Dialogs

(* The settings of a launch.                                               *)
LEMMA DefaultsType ==
    ASSUME NEW m \in Machines
    PROVE  Defaults(m) \in Config
  <1>1. /\ [name |-> "netbsd.gz", dir |-> "none"] \in FileRef
        /\ [name |-> "bootlog", dir |-> "none"] \in FileRef
    BY DEF FileRef
  <1>2. /\ [f \in AllChecks |-> f \in OnByDefault] \in [AllChecks -> BOOLEAN]
        /\ [f \in AllTexts |-> 0] \in [AllTexts -> Int]
    OBVIOUS
  <1> DEFINE check == [f \in AllChecks |-> f \in OnByDefault]
             text  == [f \in AllTexts |-> 0]
  <1>3. Defaults(m) =
          [kernelLoc |-> "NetBSDPart", MacKernel |-> [name |-> "netbsd.gz", dir |-> "none"],
           AutoSetGMT |-> TRUE, GMT_bias |-> m.gmt, ATAdisk |-> FALSE, Channel |-> 0,
           SCSIID |-> 0, DebugLevel |-> 0, LogFile |-> [name |-> "bootlog", dir |-> "none"],
           SerConsole |-> 0, ModemDSpeed |-> 0, MonitorDepth |-> 1, MonitorSize |-> "none",
           AutoSizeRAM |-> TRUE, MemAmount |-> GetRAMSize(m), ChangeMachID |-> FALSE,
           newMACHID |-> 0, check |-> check, text |-> text]
    BY DEF Defaults
  <1>4. check \in [AllChecks -> BOOLEAN] /\ text \in [AllTexts -> Int]
    BY <1>2
  <1> HIDE DEF check, text
  <1> QED
    BY <1>1, <1>3, <1>4, MachineNumbers DEF Config, Locations, Depths

LEMMA NormalisedType ==
    ASSUME NEW c \in Config, NEW m \in Machines
    PROVE  /\ Normalised(c, m) \in Config
           /\ \A f \in DOMAIN c : \/ Normalised(c, m)[f] = c[f]
                                  \/ f = "GMT_bias" /\ c.AutoSetGMT
                                  \/ f = "newMACHID" /\ ~c.ChangeMachID
           /\ c.AutoSetGMT => Normalised(c, m).GMT_bias = m.gmt
           /\ ~c.ChangeMachID => Normalised(c, m).newMACHID = m.type
  <1> DEFINE bias == IF c.AutoSetGMT THEN m.gmt ELSE c.GMT_bias
             id   == IF c.ChangeMachID THEN c.newMACHID ELSE m.type
  <1>1. /\ bias \in Int /\ id \in Int
        /\ c.AutoSetGMT => bias = m.gmt
        /\ ~c.AutoSetGMT => bias = c.GMT_bias
        /\ ~c.ChangeMachID => id = m.type
        /\ c.ChangeMachID => id = c.newMACHID
    BY MachineNumbers DEF Config
  <1>2. Normalised(c, m) = [c EXCEPT !.GMT_bias = bias, !.newMACHID = id]
    BY DEF Normalised
  <1> HIDE DEF bias, id
  <1>3. /\ Normalised(c, m) \in Config /\ Normalised(c, m).GMT_bias = bias
        /\ Normalised(c, m).newMACHID = id
    BY ZenonT(40), <1>1, <1>2 DEF Config
  <1>4. \A f \in DOMAIN c \ {"GMT_bias", "newMACHID"} : Normalised(c, m)[f] = c[f]
    BY <1>2 DEF Config
  <1> QED
    BY <1>1, <1>3, <1>4
-----------------------------------------------------------------------------
(* What the variables may be.  A save that was reported good is in the     *)
(* file until the resource is touched again.                               *)
Typed ==
    /\ machine \in Machines /\ cfg \in Config
    /\ panel = [d \in Dialogs |-> panel[d]]
    /\ \A d \in Dialogs : panel[d] = Closed \/ panel[d] \in Panel(d)
    /\ file \in {NoFile, [kind |-> "odd"]} \cup {Kept(c) : c \in Config}
KeptInForce == kept = NoFile \/ (kept = file /\ kept \in {Kept(c) : c \in Config})
SettingsInv == Typed /\ KeptInForce /\ ShownIsStored /\ RelaunchRestores /\ DerivedAgree

LEMMA FileKinds ==
    /\ NoFile.kind = "none" /\ [kind |-> "odd"].kind = "odd"
    /\ \A c : Kept(c).kind = "kept" /\ Kept(c).cfg = c
  BY DEF NoFile, Kept

LEMMA Opened ==
    ASSUME Typed, NEW d \in Dialogs
    PROVE  /\ panel[d].open <=> panel[d] \in Panel(d)
           /\ panel[d].open <=> panel[d] # Closed
  <1>1. Closed.open = FALSE
    BY DEF Closed
  <1>2. \A p \in Panel(d) : p.open = TRUE
    BY DEF Panel, BootPanel, StartupPanel, SerialPanel, MonitorPanel, MachinePanel, Dialogs
  <1> QED
    BY <1>1, <1>2 DEF Typed

(* On the same machine the dialogs are of the same kinds and show the same *)
(* of the same configuration.                                              *)
LEMMA SamePanels ==
    ASSUME machine' = machine
    PROVE  \A d \in Dialogs : Panel(d)' = Panel(d)
  BY DEF Panel, BootPanel, StartupPanel, SerialPanel, MonitorPanel, MachinePanel

LEMMA SameShows ==
    ASSUME machine' = machine, NEW d \in Dialogs
    PROVE  Shows(d, cfg)' = Shows(d, cfg')
  BY DEF Shows, DoBootingDialog, DoStartupDialog, DoSerialDialog, DoMonitorDialog,
         DoMachineDialog, AutoSetGMTtext, autoSizeRAMtext, changeMACHIDtext

LEMMA TypedNext ==
    ASSUME Typed, machine' = machine, cfg' \in Config, file' = file,
           panel' = [d \in Dialogs |-> panel'[d]],
           \A d \in Dialogs : panel'[d] \in {panel[d], Closed} \/ panel'[d] \in Panel(d)
    PROVE  Typed'
  BY SamePanels DEF Typed, Closed, NoFile, Kept

LEMMA NothingTaken ==
    ASSUME taken' = {}
    PROVE  ShownIsStored'
  BY DEF ShownIsStored

LEMMA NotFresh ==
    ASSUME fresh' = FALSE
    PROVE  RelaunchRestores'
  BY DEF RelaunchRestores

(* An action that leaves the machine and the fields the globals follow.    *)
LEMMA DerivedKept ==
    ASSUME DerivedAgree, cfg \in Config, machine' = machine, RAMSize' = RAMSize,
           debugLevel' = debugLevel, cfg' \in Config,
           \A f \in {"DebugLevel", "AutoSetGMT", "GMT_bias", "ChangeMachID", "newMACHID",
                    "AutoSizeRAM", "MemAmount"} : cfg'[f] = cfg[f]
    PROVE  DerivedAgree'
  BY DEF DerivedAgree, GetRAMSize, Byte

LEMMA DerivedTaken ==
    ASSUME Typed, DerivedAgree, machine' = machine, NEW ds \in SUBSET Dialogs,
           \A d \in ds : panel[d] \in Panel(d), Take(ds)
    PROVE  DerivedAgree'
  <1>1. /\ cfg' \in Config
        /\ \A d \in ds : Stored(d, panel[d], cfg')
        /\ \A d \in Dialogs \ ds : Agree(d, cfg, cfg')
    BY TakeRight DEF Typed
  <1>2. debugLevel' = cfg'.DebugLevel
    <2>1. CASE "startup" \in ds
      BY <1>1, <2>1 DEF Take, Stored
    <2>2. CASE "startup" \notin ds
      BY <1>1, <2>2 DEF Take, Agree, Own, Dialogs, DerivedAgree
    <2> QED
      BY <2>1, <2>2
  <1>3. cfg'.AutoSetGMT => cfg'.GMT_bias = machine.gmt
    <2>1. CASE "boot" \in ds
      BY <1>1, <2>1 DEF Stored
    <2>2. CASE "boot" \notin ds
      BY <1>1, <2>2 DEF Agree, Own, Dialogs, DerivedAgree
    <2> QED
      BY <2>1, <2>2
  <1>4. /\ ~cfg'.ChangeMachID => cfg'.newMACHID = machine.type
        /\ IF cfg'.AutoSizeRAM THEN RAMSize' = GetRAMSize(machine)
           ELSE \/ RAMSize' = cfg'.MemAmount
                \/ cfg'.MemAmount = 0 /\ RAMSize' = GetRAMSize(machine)
    <2>1. CASE "machine" \in ds
      BY <1>1, <2>1 DEF Take, Stored, SizeOf
    <2>2. CASE "machine" \notin ds
      BY <1>1, <2>2 DEF Take, Agree, Own, Dialogs, DerivedAgree
    <2> QED
      BY <2>1, <2>2
  <1> QED
    BY <1>2, <1>3, <1>4 DEF DerivedAgree, GetRAMSize, Byte

(* Taking open dialogs, for OK, Boot Now and a save.                       *)
LEMMA TakeKeeps ==
    ASSUME SettingsInv, machine' = machine, NEW ds \in SUBSET OpenDialogs, Take(ds)
    PROVE  cfg' \in Config /\ ShownIsStored' /\ DerivedAgree'
  <1>1. ds \in SUBSET Dialogs /\ \A d \in ds : panel[d] \in Panel(d)
    BY Opened DEF OpenDialogs, SettingsInv
  <1>2. /\ cfg' \in Config
        /\ \A d \in ds : Meant(d, panel[d], Shows(d, cfg'))
    BY <1>1, TakeRight DEF SettingsInv, Typed
  <1>3. DerivedAgree'
    BY <1>1, DerivedTaken DEF SettingsInv
  <1>4. ASSUME NEW t \in taken'
        PROVE  Meant(t.dialog, t.shown, Shows(t.dialog, cfg)')
    <2>1. PICK d \in ds : t = [dialog |-> d, shown |-> panel[d]]
      BY <1>4 DEF Take
    <2> QED
      BY <1>1, <1>2, <2>1, SameShows
  <1>5. ShownIsStored'
    BY <1>4 DEF ShownIsStored
  <1> QED
    BY <1>2, <1>3, <1>5
-----------------------------------------------------------------------------
LEMMA InitInv == Init => SettingsInv
  <1> SUFFICES ASSUME Init
               PROVE  SettingsInv
    OBVIOUS
  <1>1. machine \in Machines /\ Defaults(machine) \in Config
    BY DefaultsType DEF Init
  <1>2. cfg \in Config
    BY <1>1, NormalisedType DEF Init
  <1>3. Typed /\ KeptInForce
    BY <1>1, <1>2 DEF Init, Typed, KeptInForce
  <1>4. ShownIsStored /\ RelaunchRestores
    BY FileKinds DEF Init, ShownIsStored, RelaunchRestores
  <1>5. DerivedAgree
    <2>1. /\ Defaults(machine).AutoSetGMT = TRUE /\ Defaults(machine).ChangeMachID = FALSE
          /\ Defaults(machine).AutoSizeRAM = TRUE
      BY DEF Defaults
    <2>2. /\ cfg.AutoSizeRAM = TRUE /\ cfg.ChangeMachID = FALSE
          /\ cfg.GMT_bias = machine.gmt /\ cfg.newMACHID = machine.type
      BY <1>1, <2>1, NormalisedType DEF Init, Config
    <2> QED
      BY <2>2 DEF Init, DerivedAgree
  <1> QED
    BY <1>3, <1>4, <1>5 DEF SettingsInv

LEMMA LaunchInv == SettingsInv /\ Relaunch => SettingsInv'
  <1> SUFFICES ASSUME SettingsInv, Relaunch
               PROVE  SettingsInv'
    OBVIOUS
  <1>1. PICK m \in Machines : machine' = m /\ LoadUserConfiguration(file, m)
    BY DEF Relaunch
  <1> DEFINE c == LoadDefaultPrefs(file, m)
  <1>2. c \in Config
    BY DefaultsType, FileKinds DEF SettingsInv, Typed, LoadDefaultPrefs
  <1>3. cfg' = Normalised(c, m)
    BY <1>1 DEF LoadUserConfiguration
  <1>4. cfg' \in Config
    BY <1>2, <1>3, NormalisedType
  <1>5. Typed'
    BY <1>1, <1>4 DEF Relaunch, SettingsInv, Typed, Closed, NoFile, Kept
  <1>6. KeptInForce'
    BY DEF Relaunch, SettingsInv, KeptInForce, NoFile, Kept
  <1>7. ShownIsStored'
    BY NothingTaken DEF Relaunch
  <1>8. RelaunchRestores'
    <2>1. kept.kind = "kept" => kept = file /\ kept.cfg = c
      BY FileKinds DEF SettingsInv, KeptInForce, LoadDefaultPrefs
    <2>2. DOMAIN cfg' = DOMAIN c
      BY <1>2, <1>4 DEF Config
    <2>3. \A f \in DOMAIN cfg' : \/ cfg'[f] = c[f]
                                 \/ f = "GMT_bias" /\ c.AutoSetGMT
                                 \/ f = "newMACHID" /\ ~c.ChangeMachID
      BY <1>2, <1>3, <2>2, NormalisedType
    <2>4. cfg'.AutoSetGMT = c.AutoSetGMT /\ cfg'.ChangeMachID = c.ChangeMachID
      BY <1>2, <1>4, <2>3 DEF Config
    <2> QED
      BY <2>1, <2>3, <2>4 DEF Relaunch, RelaunchRestores
  <1>9. DerivedAgree'
    <2>1. /\ cfg'.AutoSetGMT = c.AutoSetGMT /\ cfg'.ChangeMachID = c.ChangeMachID
          /\ cfg'.AutoSizeRAM = c.AutoSizeRAM /\ cfg'.MemAmount = c.MemAmount
          /\ cfg'.DebugLevel = c.DebugLevel
      BY <1>2, <1>3, NormalisedType DEF Config
    <2>2. /\ debugLevel' = cfg'.DebugLevel
          /\ RAMSize' = IF cfg'.MemAmount = 0 \/ cfg'.AutoSizeRAM THEN GetRAMSize(m)
                        ELSE cfg'.MemAmount
      BY <1>1 DEF LoadUserConfiguration
    <2>3. /\ cfg'.AutoSetGMT => cfg'.GMT_bias = m.gmt
          /\ ~cfg'.ChangeMachID => cfg'.newMACHID = m.type
      BY <1>2, <1>3, <2>1, NormalisedType
    <2> QED
      BY <1>1, <2>1, <2>2, <2>3 DEF DerivedAgree, GetRAMSize, Byte
  <1> QED
    BY <1>5, <1>6, <1>7, <1>8, <1>9 DEF SettingsInv

(* What the user does at the dialogs.                                      *)
LEMMA DialogInv ==
    ASSUME SettingsInv, NEW d \in Dialogs, Open(d) \/ Hit(d) \/ PressOK(d) \/ PressCancel(d)
    PROVE  SettingsInv'
  <1>1. machine' = machine /\ file' = file /\ kept' = kept /\ fresh' = FALSE
    BY DEF Open, Hit, PressOK, PressCancel, Step
  <1>2. KeptInForce' /\ RelaunchRestores'
    BY <1>1, NotFresh DEF SettingsInv, KeptInForce, NoFile, Kept
  <1>3. Typed
    BY DEF SettingsInv
  <1>4. CASE Open(d)
    <2>1. cfg' \in Config /\ DerivedAgree'
      <3>1. Speed(cfg.ModemDSpeed) \in Int
        BY <1>3 DEF Typed, Config, Speed
      <3>2. cfg' = cfg \/ cfg' = [cfg EXCEPT !.ModemDSpeed = Speed(cfg.ModemDSpeed)]
        BY <1>4 DEF Open
      <3>3. cfg' \in Config
        BY <1>3, <3>1, <3>2 DEF Typed, Config
      <3>4. \A f \in DOMAIN cfg \ {"ModemDSpeed"} : cfg'[f] = cfg[f]
        BY <1>3, <3>2 DEF Typed, Config
      <3> QED
        BY <1>1, <1>3, <1>4, <3>3, <3>4, DerivedKept DEF Open, SettingsInv, Typed, Config
    <2>2. Typed'
      <3>1. Shows(d, cfg) \in Panel(d)
        BY <1>3, ShowsType DEF Typed
      <3>2. panel' = [panel EXCEPT ![d] = Shows(d, cfg)]
        BY <1>4 DEF Open
      <3> QED
        BY <1>1, <1>3, <2>1, <3>1, <3>2, TypedNext DEF Typed
    <2> QED
      BY <1>2, <1>4, <2>1, <2>2, NothingTaken DEF SettingsInv, Open
  <1>5. CASE Hit(d)
    <2>1. PICK p \in Handled(d, panel[d]) : panel' = [panel EXCEPT ![d] = p]
      BY <1>5 DEF Hit
    <2>2. p \in Panel(d)
      BY <1>3, <1>5, Opened, HandledType DEF Hit, Typed
    <2>3. Typed'
      BY <1>1, <1>3, <1>5, <2>1, <2>2, TypedNext DEF Typed, Hit
    <2>4. DerivedAgree'
      BY <1>3, <1>5, DerivedKept DEF Hit, SettingsInv, Typed
    <2> QED
      BY <1>2, <1>5, <2>3, <2>4, NothingTaken DEF SettingsInv, Hit
  <1>6. CASE PressOK(d)
    <2>1. Take({d}) /\ {d} \in SUBSET OpenDialogs
      BY <1>6 DEF PressOK, OpenDialogs
    <2>2. cfg' \in Config /\ ShownIsStored' /\ DerivedAgree'
      BY <1>1, <2>1, TakeKeeps
    <2>3. Typed'
      BY <1>1, <1>3, <1>6, <2>2, TypedNext DEF Typed, PressOK
    <2> QED
      BY <1>2, <2>2, <2>3 DEF SettingsInv
  <1>7. CASE PressCancel(d)
    <2>1. Typed'
      BY <1>1, <1>3, <1>7, TypedNext DEF Typed, PressCancel
    <2>2. DerivedAgree'
      BY <1>3, <1>7, DerivedKept DEF PressCancel, SettingsInv, Typed
    <2> QED
      BY <1>2, <1>7, <2>1, <2>2, NothingTaken DEF SettingsInv, PressCancel
  <1> QED
    BY <1>4, <1>5, <1>6, <1>7

(* Hits that change the configuration at once, and Open and Boot: a field  *)
(* that no global follows, and at most one item of a dialog.               *)
LEMMA DirectInv ==
    ASSUME SettingsInv, TurnOnDepth \/ TurnOnSize \/ SetMacFile \/ SetLogFile \/ OpenAndBoot
    PROVE  SettingsInv'
  <1>1. /\ machine' = machine /\ file' = file /\ kept' = kept /\ fresh' = FALSE /\ taken' = {}
        /\ RAMSize' = RAMSize /\ debugLevel' = debugLevel
    BY DEF TurnOnDepth, TurnOnSize, SetMacFile, SetLogFile, OpenAndBoot, Step
  <1>2. KeptInForce' /\ RelaunchRestores' /\ ShownIsStored'
    BY <1>1, NotFresh, NothingTaken DEF SettingsInv, KeptInForce, NoFile, Kept
  <1>3. Typed
    BY DEF SettingsInv
  <1>4. \A f \in Files : f \in FileRef
    BY InputsAssumption DEF FileRef
  <1>5. PICK field \in {"MonitorDepth", "MonitorSize", "MacKernel", "LogFile"} :
          /\ cfg' \in Config
          /\ \A f \in DOMAIN cfg \ {field} : cfg'[f] = cfg[f]
    <2>1. CASE TurnOnDepth
      <3>1. cfg' \in Config /\ \A f \in DOMAIN cfg \ {"MonitorDepth"} : cfg'[f] = cfg[f]
        BY <1>3, <2>1 DEF TurnOnDepth, Typed, Config, Depths
      <3> QED
        BY <3>1
    <2>2. CASE TurnOnSize
      <3>1. cfg' \in Config /\ \A f \in DOMAIN cfg \ {"MonitorSize"} : cfg'[f] = cfg[f]
        BY <1>3, <2>2 DEF TurnOnSize, Typed, Config, Sizes
      <3> QED
        BY <3>1
    <2>3. CASE SetMacFile \/ OpenAndBoot
      <3>1. cfg' \in Config /\ \A f \in DOMAIN cfg \ {"MacKernel"} : cfg'[f] = cfg[f]
        BY <1>3, <1>4, <2>3 DEF SetMacFile, OpenAndBoot, Typed, Config
      <3> QED
        BY <3>1
    <2>4. CASE SetLogFile
      <3>1. cfg' \in Config /\ \A f \in DOMAIN cfg \ {"LogFile"} : cfg'[f] = cfg[f]
        BY <1>3, <1>4, <2>4 DEF SetLogFile, Typed, Config
      <3> QED
        BY <3>1
    <2> QED
      BY <2>1, <2>2, <2>3, <2>4
  <1>6. DerivedAgree'
    BY <1>1, <1>3, <1>5, DerivedKept DEF SettingsInv, Typed, Config
  <1>7. Typed'
    <2>1. CASE TurnOnDepth \/ TurnOnSize
      <3>1. panel["monitor"] \in MonitorPanel
        BY <1>3, <2>1, Opened DEF TurnOnDepth, TurnOnSize, Panel, Dialogs
      <3>2. \E p \in MonitorPanel : panel' = [panel EXCEPT !["monitor"] = p]
        <4>1. /\ [panel["monitor"] EXCEPT !.m_depth = TRUE, !.bits = 1] \in MonitorPanel
              /\ [panel["monitor"] EXCEPT !.m_size = TRUE, !.size = "640x480"] \in MonitorPanel
          BY <3>1 DEF MonitorPanel, Depths, Sizes
        <4>2. \/ panel' = [panel EXCEPT !["monitor"] =
                             [panel["monitor"] EXCEPT !.m_depth = TRUE, !.bits = 1]]
              \/ panel' = [panel EXCEPT !["monitor"] =
                             [panel["monitor"] EXCEPT !.m_size = TRUE, !.size = "640x480"]]
          BY <1>3, <2>1 DEF TurnOnDepth, TurnOnSize, Typed, Dialogs
        <4> QED
          BY <4>1, <4>2
      <3>3. MonitorPanel = Panel("monitor") /\ "monitor" \in Dialogs
        BY DEF Panel, Dialogs
      <3> QED
        BY <1>1, <1>3, <1>5, <3>2, <3>3, TypedNext DEF Typed
    <2>2. CASE SetMacFile
      <3>1. panel["boot"] \in BootPanel
        BY <1>3, <2>2, Opened DEF SetMacFile, Panel, Dialogs
      <3>2. \E p \in BootPanel : panel' = [panel EXCEPT !["boot"] = p]
        <4>1. PICK f \in Files : panel' = [panel EXCEPT !["boot"].macFileID = f.name]
          BY <2>2 DEF SetMacFile
        <4>2. [panel["boot"] EXCEPT !.macFileID = f.name] \in BootPanel
          BY <3>1 DEF BootPanel
        <4> QED
          BY <4>1, <4>2
      <3>3. BootPanel = Panel("boot") /\ "boot" \in Dialogs
        BY DEF Panel, Dialogs
      <3> QED
        BY <1>1, <1>3, <1>5, <3>2, <3>3, TypedNext DEF Typed
    <2>3. CASE SetLogFile \/ OpenAndBoot
      BY <1>1, <1>3, <1>5, <2>3, TypedNext DEF SetLogFile, OpenAndBoot, Typed
    <2> QED
      BY <2>1, <2>2, <2>3
  <1> QED
    BY <1>2, <1>6, <1>7 DEF SettingsInv

LEMMA BootNowInv == SettingsInv /\ BootNow => SettingsInv'
  <1> SUFFICES ASSUME SettingsInv, BootNow
               PROVE  SettingsInv'
    OBVIOUS
  <1>1. machine' = machine /\ file' = file /\ kept' = kept /\ fresh' = FALSE /\ panel' = panel
    BY DEF BootNow, Step
  <1>2. cfg' \in Config /\ ShownIsStored' /\ DerivedAgree'
    BY <1>1, TakeKeeps DEF BootNow, GetAllOptions
  <1>3. Typed'
    BY <1>1, <1>2, TypedNext DEF SettingsInv, Typed
  <1>4. KeptInForce' /\ RelaunchRestores'
    BY <1>1, NotFresh DEF SettingsInv, KeptInForce, NoFile, Kept
  <1> QED
    BY <1>2, <1>3, <1>4 DEF SettingsInv

LEMMA SaveInv ==
    ASSUME SettingsInv, NEW how \in DOMAIN SaveResults(file, cfg), SavePreferences(how)
    PROVE  SettingsInv'
  <1>1. machine' = machine /\ fresh' = FALSE /\ panel' = panel
    BY DEF SavePreferences, Step
  <1>2. cfg' \in Config /\ ShownIsStored' /\ DerivedAgree'
    BY <1>1, TakeKeeps DEF SavePreferences, GetAllOptions
  <1>3. how \in {"saved", "create", "open", "handle", "remove", "add", "write"}
    BY DEF SaveResults
  <1>4. /\ file' \in {NoFile, [kind |-> "odd"], file, Kept(cfg')}
        /\ how = "saved" => file' = Kept(cfg')
        /\ how \in {"create", "open", "handle"} => file' = file
    BY <1>3 DEF SavePreferences, SaveResults
  <1>5. Typed'
    <2>1. file' \in {NoFile, [kind |-> "odd"]} \cup {Kept(c) : c \in Config}
      BY <1>2, <1>4 DEF SettingsInv, Typed
    <2> QED
      BY <1>1, <1>2, <2>1, SamePanels DEF SettingsInv, Typed, Closed, NoFile, Kept
  <1>6. KeptInForce'
    <2>1. kept' = NoFile \/ (kept' = file' /\ kept' \in {Kept(c) : c \in Config})
      BY <1>2, <1>4 DEF SavePreferences, SettingsInv, KeptInForce
    <2> QED
      BY <2>1 DEF KeptInForce, NoFile, Kept
  <1> QED
    BY <1>1, <1>2, <1>5, <1>6, NotFresh DEF SettingsInv

LEMMA StutterInv == SettingsInv /\ UNCHANGED vars => SettingsInv'
  <1> SUFFICES ASSUME SettingsInv, UNCHANGED vars
               PROVE  SettingsInv'
    OBVIOUS
  <1>1. UNCHANGED <<machine, cfg, RAMSize, debugLevel, panel, file, kept, taken, fresh>>
    BY DEF vars
  <1>2. Typed' /\ KeptInForce'
    BY <1>1, TypedNext DEF SettingsInv, Typed, KeptInForce, NoFile, Kept
  <1>3. ShownIsStored'
    BY <1>1 DEF SettingsInv, ShownIsStored, Shows, DoBootingDialog, DoStartupDialog,
       DoSerialDialog, DoMonitorDialog, DoMachineDialog, AutoSetGMTtext, autoSizeRAMtext,
       changeMACHIDtext
  <1>4. RelaunchRestores' /\ DerivedAgree'
    BY <1>1 DEF SettingsInv, RelaunchRestores, DerivedAgree, GetRAMSize, Byte
  <1> QED
    BY <1>2, <1>3, <1>4 DEF SettingsInv

LEMMA SettingsInvariant == Spec => []SettingsInv
  <1>1. SettingsInv /\ [Next]_vars => SettingsInv'
    BY DialogInv, DirectInv, BootNowInv, LaunchInv, SaveInv, StutterInv DEF Next
  <1> QED
    BY <1>1, InitInv, PTL DEF Spec

(* Whatever set of dialogs is taken, in the order the code takes them, and *)
(* whatever they show: nothing the user meant is lost to another dialog,   *)
(* to the width of a field or to a box that is off.                        *)
THEOREM ShownIsStoredCorrect == Spec => []ShownIsStored
  <1>1. SettingsInv => ShownIsStored
    BY DEF SettingsInv
  <1> QED
    BY <1>1, SettingsInvariant, PTL

(* Every launch after a good save, with any failed saves that did not      *)
(* reach the resource in between, has the settings saved.                  *)
THEOREM RelaunchRestoresCorrect == Spec => []RelaunchRestores
  <1>1. SettingsInv => RelaunchRestores
    BY DEF SettingsInv
  <1> QED
    BY <1>1, SettingsInvariant, PTL

(* The memory size, the debug level, the GMT bias and the machine id agree *)
(* with the settings and the machine after any dialogs, saves and launches.*)
THEOREM DerivedAgreeCorrect == Spec => []DerivedAgree
  <1>1. SettingsInv => DerivedAgree
    BY DEF SettingsInv
  <1> QED
    BY <1>1, SettingsInvariant, PTL
=============================================================================
