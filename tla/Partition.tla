------------------------------ MODULE Partition ------------------------------
(***************************************************************************)
(* Where on a disk the kernel's file system begins: read_part.c chooses an *)
(* entry of the partition map, or else a slice of the disk label.          *)
(***************************************************************************)
EXTENDS Integers, SequencesExt

CONSTANTS
    Names,              \* names of partitions, and what a user may type
    RootNames,          \* those with "Root" in them
    SwapNames,          \* those with "Swap" in them
    SliceOf             \* slice a name such as "sd0a" means, or -1

ASSUME NamesAssumption ==
    RootNames \subseteq Names /\ SwapNames \subseteq Names /\ SliceOf \in [Names -> -1 .. 25]

MAXPARTITIONS == 8
LastPart == 99          \* "we can't count partitions"
NotFound == -1

(* An entry of the map; `rootfs' are the flags A/UX sets when it installs  *)
(* a root file system.  `valid' is FALSE for a bad signature and for a     *)
(* block that cannot be read.                                              *)
Entry == [valid : BOOLEAN, unix : BOOLEAN, rootfs : BOOLEAN, name : Names, start : Nat]

\* Defect: the last candidates are kept instead of the first.
FirstIsLast(partnum, condition, before) == IF condition THEN partnum ELSE before
First(partnum, condition, before) ==
    IF condition /\ before = NotFound THEN partnum ELSE before

(* locate_partition: one scan with four rules.                             *)
Scanning == [part |-> NotFound, rootnamed |-> NotFound, nonswap |-> NotFound, over |-> FALSE]

Look(ent, name, scan, partnum) ==
    IF scan.over THEN scan
    ELSE IF ~ent.valid THEN [scan EXCEPT !.over = TRUE]
    ELSE IF ent.rootfs \/ ent.name = name
         THEN [scan EXCEPT !.over = TRUE, !.part = partnum]
    ELSE [scan EXCEPT
            !.rootnamed = First(partnum, ent.unix /\ ent.name \in RootNames, @),
            !.nonswap   = First(partnum, ent.unix /\ ent.name \notin SwapNames, @)]

locate_partition(map, name) ==
    LET count == IF Len(map) < LastPart THEN Len(map) ELSE LastPart
        scan[n \in 0 .. count] ==
            IF n = 0 THEN Scanning ELSE Look(map[n], name, scan[n - 1], n - 1)
        result == scan[count]
    IN  IF result.part # NotFound THEN result.part
        ELSE IF result.rootnamed # NotFound THEN result.rootnamed ELSE result.nonswap

(* get_disklabel_sector: the sectors it may return.  Without a label, and  *)
(* for the slice after the last, it returns what is in memory there: any   *)
(* of `junk'.  A label may be unsound, as a sector that cannot be read is. *)
Label == [found : BOOLEAN, sound : BOOLEAN, offset : Seq(Nat)]
Unsound == [found |-> TRUE, sound |-> FALSE, offset |-> <<>>]

get_disklabel_sector(label, name, junk) ==
    LET slice == SliceOf[name]
    IN  IF slice < 0 \/ slice > MAXPARTITIONS \/ (label.found /\ ~label.sound) THEN {NotFound}
        ELSE IF ~label.found \/ slice >= Len(label.offset) THEN junk
        ELSE {label.offset[slice + 1]}

(* get_part_sector, for the partition -1 that load_and_boot asks for; the  *)
(* entry is read again, and `again' is FALSE when that fails, unnoticed.   *)
get_part_sector(map, label, name, again, junk) ==
    LET part == locate_partition(map, name)
    IN  IF part = NotFound THEN get_disklabel_sector(label, name, junk)
        ELSE IF again THEN {map[part + 1].start} ELSE junk
=============================================================================
