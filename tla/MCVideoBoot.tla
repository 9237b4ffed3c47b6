---------------------------- MODULE MCVideoBoot ----------------------------
(* Machines and settings for VideoBoot.                                    *)
EXTENDS VideoBoot

Mode(mode, bits, h, v, valid, safe) ==
    [mode |-> mode, bits |-> bits, h |-> h, v |-> v, valid |-> valid, safe |-> safe,
     readable |-> TRUE]
Screen(modes) == [modes |-> modes, known |-> TRUE, listed |-> TRUE, inSlot |-> TRUE,
                  aware |-> TRUE, reports |-> TRUE]

(* The size asked for comes first, last, in depths on both sides of the    *)
(* one asked for, unsafe, or not at all; no order of sizes is total.       *)
Rich  == Screen(<<Mode(1, 8, 640, 480, TRUE, TRUE),   Mode(1, 32, 640, 480, TRUE, TRUE),
                  Mode(2, 1, 832, 624, TRUE, FALSE),  Mode(2, 8, 832, 624, TRUE, FALSE),
                  Mode(2, 16, 832, 624, TRUE, FALSE), Mode(3, 8, 800, 600, FALSE, TRUE),
                  Mode(4, 1, 1024, 768, TRUE, TRUE)>>)
Tall  == Screen(<<Mode(1, 1, 640, 870, TRUE, TRUE),   Mode(1, 8, 640, 870, TRUE, TRUE),
                  Mode(2, 8, 1152, 870, TRUE, TRUE),  Mode(2, 32, 1152, 870, TRUE, TRUE)>>)
Old   == [Screen(<<Mode(1, 1, 640, 480, TRUE, TRUE), Mode(1, 8, 640, 480, TRUE, FALSE),
                   [Mode(2, 8, 800, 600, TRUE, TRUE) EXCEPT !.readable = FALSE],
                   Mode(3, 8, 832, 624, TRUE, TRUE), Mode(3, 32, 832, 624, TRUE, TRUE)>>)
          EXCEPT !.listed = FALSE, !.aware = FALSE]
Mute  == [Rich EXCEPT !.reports = FALSE]
Lost  == [Old EXCEPT !.inSlot = FALSE]
Alien == [Tall EXCEPT !.known = FALSE]

(* Slots: nothing, a board alone, a board with a display, two displays.    *)
Empty == [id \in {} |-> "other"]
Board == (1 :> "board")
Card(id) == Board @@ (id :> "video") @@ ((id + 1) :> "video") @@ (2 :> "other")
Broken == Board @@ (2 :> "error")
Cards(Slot(_)) == [s \in 9 .. 14 |-> Slot(s)]

NoCard(s)   == Empty
TwoCards(s) == CASE s = 10 -> Card(128) [] s = 14 -> Card(129) [] s = 11 -> Board [] OTHER -> Empty
AllCards(s) == Card(128)
OneBad(s)   == CASE s = 9 -> Card(128) [] s = 11 -> Broken [] s = 13 -> Card(128) [] OTHER -> Empty
Works       == [s \in 9 .. 14 |-> "ok"]

Machine(dm, screen, front, card, driver, kernel) ==
    [dm |-> dm, slotManager |-> TRUE, main |-> front, screen |-> screen, card |-> card,
     driver |-> driver, kernel |-> kernel]
MCMachines ==
    {Machine(2, <<Rich>>, 1, Cards(TwoCards), Works, {"cnt", "vec"}),
     Machine(2, <<Tall, Rich>>, 2, Cards(TwoCards),
             [Works EXCEPT ![14] = "refuses"], {"cnt"}),
     Machine(2, <<Old, Alien>>, 1, Cards(OneBad), Works, {"cnt", "vec"}),
     Machine(2, <<Mute>>, 1, Cards(AllCards), Works, {"cnt", "vec"}),
     Machine(2, <<Lost>>, 1, Cards(AllCards), [Works EXCEPT ![10] = "unnamed"], {}),
     [Machine(2, <<Rich>>, 1, Cards(NoCard), Works, {"cnt", "vec"})
        EXCEPT !.slotManager = FALSE],
     Machine(1, <<Tall>>, 1, Cards(TwoCards),
             [Works EXCEPT ![10] = "closed"], {"cnt", "vec"}),
     Machine(0, <<Old>>, 1, Cards(NoCard), Works, {"cnt", "vec"}),
     Machine(0, <<>>, 0, Cards(NoCard), Works, {"cnt", "vec"})}

Config(depth, greys, size, vbl, abort, hack) ==
    [MonitorDepth |-> depth, setToGreys |-> greys, MonitorSize |-> size,
     NoDisableVBLs |-> vbl, AbortNonFatal |-> abort, VideoHack |-> hack]
Changes == {Config(d, g, s, FALSE, FALSE, FALSE) :
              d \in {0, 1, 32}, g \in BOOLEAN, s \in DOMAIN Sizes \cup {"none"}}
MCConfigs == Changes \cup {Config(0, FALSE, "none", v, a, v) : v \in BOOLEAN, a \in BOOLEAN}
=============================================================================
