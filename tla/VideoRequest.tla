---------------------------- MODULE VideoRequest ----------------------------
(***************************************************************************)
(* RequestVideo.c: the search for the video mode nearest to a request, and *)
(* the calls that read, set and confirm a mode.  Device 0 is nil.          *)
(*                                                                         *)
(* A machine is a record: dm, the Display Manager's version (0 if there is *)
(* none), slotManager, main, the screen GetMainDevice returns, and screen, *)
(* a sequence of                                                           *)
(*   [modes, known, listed, inSlot, aware, reports]                        *)
(* known, listed, inSlot: DMGetDisplayIDByGDevice, DMNewDisplayModeList    *)
(* and SGetSRsrc succeed; aware: its driver knows the Display Manager;     *)
(* reports: DMGetDisplayMode succeeds.  A mode has a timing (displayMode), *)
(* a depth in bits, which stands for its depthMode too, a size, and flags: *)
(*   [mode, bits, h, v, valid, safe, readable]                             *)
(* What a screen shows is [mode, bits, mono].                              *)
(***************************************************************************)
EXTENDS Integers, Sequences

Nil    == 0
NoMode == -1            \* displayMode and depthMode of a setting not read

Request(depth, width, height, flags) ==
    [screenDevice |-> Nil, reqBitDepth |-> depth, reqHorizontal |-> width,
     reqVertical |-> height, availBitDepth |-> 0, availHorizontal |-> 0,
     availVertical |-> 0, requestFlags |-> flags, notSafe |-> FALSE,
     displayMode |-> 0, depthMode |-> 0]

Distance(a, b) == IF a < b THEN b - a ELSE a - b

(* Defect: among modes of one size the last wins.                          *)
FindBestMatchAnyDepth(r, m) ==
    \/ r.displayMode = 0
    \/ /\ Distance(r.reqHorizontal, m.h) <= Distance(r.reqHorizontal, r.availHorizontal)
       /\ Distance(r.reqVertical, m.v) <= Distance(r.reqVertical, r.availVertical)

(* The three ways in which a mode replaces the best one so far.            *)
FindBestMatch(r, m) ==
    LET Flag(f)  == f \in r.requestFlags
        Large    == (m.h >= r.reqHorizontal /\ m.v >= r.reqVertical) \/ ~Flag("MaximizeRes")
        Shallow  == m.bits <= r.reqBitDepth \/ ~Flag("ShallowDepth")
        Exact    == \/ ~Flag("AbsoluteRequest")
                    \/ /\ m.h = r.reqHorizontal /\ m.v = r.reqVertical
                       /\ m.bits = r.reqBitDepth
        Deeper   == r.availBitDepth < r.reqBitDepth /\ m.bits > r.availBitDepth
        First    == r.displayMode = 0 /\ Large /\ Shallow /\ Exact
        ByDepth  == /\ Flag("BitDepthPriority") /\ r.availBitDepth # r.reqBitDepth
                    /\ \/ m.bits > r.availBitDepth /\ m.bits <= r.reqBitDepth
                       \/ ~Flag("ShallowDepth")
                    /\ Deeper /\ Exact
        NoFarther == /\ Distance(r.reqHorizontal, m.h)
                            <= Distance(r.reqHorizontal, r.availHorizontal)
                     /\ Distance(r.reqVertical, m.v)
                            <= Distance(r.reqVertical, r.availVertical)
        BySize   == /\ NoFarther /\ Large /\ Shallow /\ Exact
                    /\ r.availBitDepth = m.bits \/ ~Flag("BitDepthPriority")
                    /\ \/ r.availHorizontal # m.h \/ r.availVertical # m.v
                       \/ Deeper \/ m.bits = r.reqBitDepth
    IN  First \/ ByDepth \/ BySize

Taken(r, i, m) ==
    [r EXCEPT !.screenDevice = i, !.availBitDepth = m.bits, !.availHorizontal = m.h,
              !.availVertical = m.v, !.displayMode = m.mode, !.depthMode = m.bits,
              !.notSafe = ~m.safe]
Selectable(r, m) == m.valid /\ (m.safe \/ "AllValidModes" \in r.requestFlags)
Consider(i, r, m) == IF FindBestMatch(r, m) THEN Taken(r, i, m) ELSE r

(* The modes of a screen that a search looks at: the Display Manager's     *)
(* list, or, of a driver it has no list of, the slot's resources, where a  *)
(* mode also has to have parameters that can be read.                      *)
Considered(i, r, m, slot) ==
    IF Selectable(r, m) /\ (slot => m.readable) THEN Consider(i, r, m) ELSE r
SearchModes(r, i, modes, slot) ==
    LET best[n \in 0 .. Len(modes)] ==
            IF n = 0 THEN r ELSE Considered(i, best[n - 1], modes[n], slot)
    IN  best[Len(modes)]
GetRequestTheDM2Way(r, i, s) == SearchModes(r, i, s.modes, FALSE)
GetRequestTheDM1Way(r, i, s) == IF s.inSlot THEN SearchModes(r, i, s.modes, TRUE) ELSE r

(* A device that is given, or every active one in turn.                    *)
SearchScreen(mac, r, i) ==
    IF ~mac.screen[i].known THEN r
    ELSE IF mac.screen[i].listed THEN GetRequestTheDM2Way(r, i, mac.screen[i])
    ELSE GetRequestTheDM1Way(r, i, mac.screen[i])
SearchAll(mac, r) ==
    LET best[n \in 0 .. Len(mac.screen)] ==
            IF n = 0 THEN r ELSE SearchScreen(mac, best[n - 1], n)
    IN  best[Len(mac.screen)]
RVRequestVideoSetting(mac, r) ==
    IF mac.dm = 0 \/ ~mac.slotManager THEN r
    ELSE IF r.screenDevice # Nil THEN SearchScreen(mac, r, r.screenDevice)
    ELSE SearchAll(mac, r)
-----------------------------------------------------------------------------
(* Setting a screen, through the toolbox.                                  *)

(* HasDepth and SetDepth of the Palette Manager: another depth in the same *)
(* timing.  A flag that is not in whichFlags is left alone, and the only   *)
(* value the flags are given here is 0, a monochrome device.               *)
HasDepth(mac, shown, i, bits) ==
    \E k \in DOMAIN mac.screen[i].modes :
        LET m == mac.screen[i].modes[k]
        IN  m.mode = shown[i].mode /\ m.bits = bits /\ m.valid
SetDepth(mac, shown, i, bits, mono) ==
    IF HasDepth(mac, shown, i, bits)
    THEN [shown EXCEPT ![i].bits = bits, ![i].mono = mono] ELSE shown

(* The Display Manager switches to a mode the driver has.                  *)
DMSetDisplayMode(mac, shown, i, mode, bits) ==
    IF \E k \in DOMAIN mac.screen[i].modes :
           LET m == mac.screen[i].modes[k] IN m.mode = mode /\ m.bits = bits /\ m.valid
    THEN [shown EXCEPT ![i].mode = mode, ![i].bits = bits] ELSE shown

(* SetDeviceAttribute, then the mode, or, if the driver or the Display     *)
(* Manager of old cannot, its depth.                                       *)
Coloured(shown, r) == [shown EXCEPT ![r.screenDevice].mono = r.availBitDepth = 1]
RVSetVideoRequest(mac, shown, r) ==
    IF mac.dm = 0 \/ r.displayMode = 0 \/ r.depthMode = 0 \/ r.screenDevice = Nil
    THEN shown
    ELSE IF mac.screen[r.screenDevice].aware /\ (Len(mac.screen) = 1 \/ mac.dm >= 2)
    THEN DMSetDisplayMode(mac, Coloured(shown, r), r.screenDevice, r.displayMode, r.depthMode)
    ELSE SetDepth(mac, Coloured(shown, r), r.screenDevice, r.depthMode, r.availBitDepth = 1)

(* What a screen shows now; the requested and available sizes are not      *)
(* filled in, and without a device the modes are NoMode.                   *)
RVGetCurrentVideoSetting(mac, shown, device) ==
    LET Unread == [Request(0, 0, 0, {}) EXCEPT !.screenDevice = device,
                     !.displayMode = NoMode, !.depthMode = NoMode]
    IN  IF device # Nil /\ mac.screen[device].reports
        THEN [Unread EXCEPT !.displayMode = shown[device].mode,
                            !.depthMode = shown[device].bits]
        ELSE Unread

(* The alert for a mode that is valid but not safe: Confirm with Option    *)
(* and Return; Revert, Return, Enter and eight seconds are a no.           *)
ConfirmAlertFilter == {"iConfirmItem", "iRevertItem"}
RVConfirmVideoRequest(r, hit) == ~r.notSafe \/ hit = "iConfirmItem"
=============================================================================
