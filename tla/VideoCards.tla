----------------------------- MODULE VideoCards -----------------------------
(***************************************************************************)
(* videocard.c: a walk over the slots that hands every video card to a     *)
(* function, to list it for the kernel or to turn off its interrupts.      *)
(*                                                                         *)
(* card[slot] is a function from the sResource ids the slot has to what    *)
(* SRsrcInfo says of each: "board", "other", "video", or "error" for any   *)
(* error but smNoMoresRsrcs.  driver[slot] says how the card's driver      *)
(* takes SetInterrupt: "ok", "unnamed", "closed" or "refuses".             *)
(***************************************************************************)
EXTENDS Integers, Sequences

MAX_CARDS == 6
FirstSlot == 9                  \* 0x9 to 0xE
\* Defect: the walk ends one slot early.
LastSlotEarly == 13
LastSlot  == 14

NoError == 0
(* video_list, the slots whose interrupts are off, and how a walk went.    *)
NoCards(off) == [cards |-> <<>>, off |-> off, err |-> NoError, fatal |-> FALSE]

add_card(driver, vinfo, slot, id) ==
    [vinfo EXCEPT !.cards = Append(@, [slot |-> slot, modenum |-> id])]

(* The driver is found by name, opened, and told; it is never closed.      *)
vbl_off(driver, vinfo, slot, id) ==
    IF driver[slot] = "ok" THEN [vinfo EXCEPT !.off = @ \cup {slot}]
    ELSE [vinfo EXCEPT !.err = -1]

(* The sResource a walk stops at in a slot: without a board there is no    *)
(* card, and the first that is a display, or cannot be read, decides.      *)
Decisive(card, slot) ==
    IF 1 \notin DOMAIN card[slot] THEN {}
    ELSE LET hits == {id \in DOMAIN card[slot] : card[slot][id] \in {"video", "error"}}
         IN  {id \in hits : \A other \in hits : id <= other}

(* One card: an error ends the walk, and so does a full list, which is     *)
(* reported as error 1 and never clears `running'.                         *)
AfterCard(vinfo) ==
    IF vinfo.err # NoError THEN [vinfo EXCEPT !.fatal = TRUE]
    ELSE IF Len(vinfo.cards) = MAX_CARDS THEN [vinfo EXCEPT !.err = 1]
    ELSE vinfo
(* func is the function handed the card, "add_card" or "vbl_off".          *)
Handed(func, driver, vinfo, slot, id) ==
    IF func = "add_card" THEN add_card(driver, vinfo, slot, id)
    ELSE vbl_off(driver, vinfo, slot, id)
VisitSlot(card, driver, func, vinfo, slot) ==
    IF vinfo.err # NoError \/ Decisive(card, slot) = {} THEN vinfo
    ELSE LET id == CHOOSE i \in Decisive(card, slot) : TRUE
         IN  IF card[slot][id] = "error"
             THEN [vinfo EXCEPT !.err = -1, !.fatal = TRUE]
             ELSE AfterCard(Handed(func, driver, vinfo, slot, id))

video_call(card, driver, func, vinfo) ==
    LET walked[slot \in 0 .. LastSlot] ==
            IF slot < FirstSlot THEN vinfo
            ELSE VisitSlot(card, driver, func, walked[slot - 1], slot)
    IN  walked[LastSlot]
=============================================================================
