------------------------------ MODULE MCUfsFile ------------------------------
(***************************************************************************)
(* Disks for UfsFile.  "a" has a partition map with two file systems, an   *)
(* entry behind the end of the map, and a directory of several blocks; "b" *)
(* has only a disk label.  The blocks, the inodes and the sectors have the *)
(* same numbers in every file system.  The others are named for the rule   *)
(* that chooses a partition against those before it in the map, which      *)
(* would choose another; they have no file system.                         *)
(***************************************************************************)
EXTENDS UfsFile

MCNames == {"Apple", "Swap", "Misc", "A Root", "Usr", "sd0b", "sd0i", ".", "old", "netbsd"}
MCRootNames == {"A Root"}
MCSwapNames == {"Swap"}
MCSliceOf == [x \in MCNames |-> CASE x = "sd0b" -> 1 [] x = "sd0i" -> 8 [] OTHER -> -1]

Part(x, unix, start) ==
    [valid |-> TRUE, unix |-> unix, rootfs |-> FALSE, name |-> x, start |-> start]
Dir(list)  == [dir |-> list, addr |-> <<>>]
Addr(list) == [dir |-> <<>>, addr |-> list]
Ent(ino, x) == [ino |-> ino, name |-> x]
Ino(size, db, ib) == [size |-> size, db |-> db, ib |-> ib]

(* A directory that needs an indirect block, with a removed "netbsd"; a    *)
(* file with one block and a half behind an indirect block.                *)
RootFs == [bsize |-> 2, nindir |-> 2, itable |-> 4,
           inode |-> (2 :> Ino(6, <<10, 11>>, <<12>>) @@ 3 :> Ino(2, <<20>>, <<>>)
                      @@ 5 :> Ino(7, <<21, 22>>, <<23>>)),
           block |-> (10 :> Dir(<<Ent(2, "."), Ent(0, "netbsd")>>) @@ 11 :> Dir(<<Ent(3, "old")>>)
                      @@ 12 :> Addr(<<13>>) @@ 13 :> Dir(<<Ent(5, "netbsd")>>)
                      @@ 23 :> Addr(<<24, 25>>))]
(* One whose file has a double indirect block.                             *)
UsrFs == [bsize |-> 1, nindir |-> 3, itable |-> 4,
          inode |-> (2 :> Ino(1, <<10>>, <<>>) @@ 6 :> Ino(6, <<20, 21>>, <<23, 25>>)),
          block |-> (10 :> Dir(<<Ent(2, "."), Ent(6, "netbsd")>>) @@ 23 :> Addr(<<22, 24, 26>>)
                     @@ 25 :> Addr(<<27>>) @@ 27 :> Addr(<<28>>))]
LabelFs == [bsize |-> 3, nindir |-> 3, itable |-> 4,
            inode |-> (2 :> Ino(3, <<10>>, <<>>) @@ 3 :> Ino(4, <<20, 22>>, <<>>)),
            block |-> (10 :> Dir(<<Ent(2, "."), Ent(3, "netbsd")>>))]

NoLabel  == [found |-> FALSE, sound |-> FALSE, offset |-> <<>>]
SlicesAB == [found |-> TRUE, sound |-> TRUE, offset |-> <<7, 48>>]

(* An entry marked root, and one with the name asked for: each behind the  *)
(* candidates of the other rules, and before the other of the two.  Two    *)
(* that are not for swapping, and none for Unix.                           *)
Flag(x) == [Part(x, TRUE, 9) EXCEPT !.rootfs = TRUE]
Misc(start) == Part("Misc", TRUE, start)
Ruled ==
    [flag  |-> <<Misc(2), Part("A Root", TRUE, 3), Flag("Swap"), Part("sd0b", TRUE, 4)>>,
     exact |-> <<Misc(2), Part("A Root", TRUE, 3), Part("sd0b", FALSE, 4), Flag("Misc")>>,
     first |-> <<Part("A Root", FALSE, 1), Part("Swap", TRUE, 2), Misc(3), Misc(4),
                 [Flag("sd0b") EXCEPT !.valid = FALSE]>>,
     slice |-> <<Part("Apple", FALSE, 1), Part("Swap", TRUE, 2)>>,
     none  |-> <<>>]
RuledDisk(x) ==
    [id |-> 2, formatted |-> x # "none", map |-> Ruled[x],
     label |-> IF x = "none" THEN NoLabel ELSE SlicesAB, fs |-> <<>>]

MCDisks == {"a", "b"} \cup DOMAIN Ruled
MCDisk == [x \in MCDisks |->
    IF x \in DOMAIN Ruled THEN RuledDisk(x)
    ELSE IF x = "a"
    THEN [id |-> 0, formatted |-> TRUE, label |-> NoLabel,
          map |-> <<Part("Apple", FALSE, 1), Part("Swap", TRUE, 2), Part("Misc", TRUE, 3),
                    Part("A Root", TRUE, 32), Part("A Root", TRUE, 4), Part("Usr", TRUE, 64),
                    [Part("sd0b", TRUE, 5) EXCEPT !.valid = FALSE]>>,
          fs |-> (32 :> RootFs @@ 64 :> UsrFs)]
    ELSE [id |-> 1, formatted |-> FALSE, label |-> SlicesAB, map |-> <<>>,
          fs |-> (48 :> LabelFs)]]
AllTargets == {<<"a", "sd0b">>, <<"a", "Usr">>, <<"b", "sd0b">>, <<"b", "sd0i">>}
              \cup {<<x, "sd0b">> : x \in DOMAIN Ruled}
TwoDisks   == {<<"a", "sd0b">>, <<"b", "sd0b">>}
MCPositions == {-1, 3}
MCLengths == {3}
MCJunk == {-1, 5}
=============================================================================
