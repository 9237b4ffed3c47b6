---------------------------- MODULE Inflate_proofs ----------------------------
(***************************************************************************)
(* Proofs about Inflate: the memory of the decoder, for any format, files, *)
(* sizes and number of failed allocations.  What the tables and the bits   *)
(* are is left open.                                                       *)
(***************************************************************************)
EXTENDS Inflate, TLAPS

Fields == {"table", "index", "blens", "tb", "bb", "left"}
(* Owned, of a mode and the tree of lengths.                               *)
Owns(m, tb) ==
    CASE m = "BTREE" -> {{"blens"}}
      [] m = "DTREE" -> {{"blens"} \cup IF tb = <<>> THEN {} ELSE {"tb"}}
      [] m = "CODES" -> {{"codes"}, {"codes", "tl"}, {"codes", "td"}, {"codes", "tl", "td"}}
      [] m = "BAD"   -> SUBSET {"blens", "tb"}
      [] OTHER -> {{}}
Holding == {"BTREE", "DTREE", "CODES", "BAD"}
MemInv ==
    /\ DOMAIN trees = Fields
    /\ IF call = "ended" THEN mem \subseteq {"blens", "tb"} ELSE mem \in Owns(mode, trees.tb)

LEMMA OwnsIs ==
    ASSUME NEW tb
    PROVE  /\ Owns("BTREE", tb) = {{"blens"}}
           /\ Owns("DTREE", tb) = {{"blens"} \cup IF tb = <<>> THEN {} ELSE {"tb"}}
           /\ Owns("CODES", tb) = {{"codes"}, {"codes", "tl"}, {"codes", "td"}, {"codes", "tl", "td"}}
           /\ Owns("BAD", tb) = SUBSET {"blens", "tb"}
  BY DEF Owns

LEMMA OwnsNothing ==
    ASSUME NEW tb, NEW m, m \notin Holding
    PROVE  Owns(m, tb) = {{}}
  BY DEF Owns, Holding

LEMMA TreeSet ==
    ASSUME NEW t, DOMAIN t = Fields, NEW x, NEW u, u = [t EXCEPT !.tb = x]
    PROVE  DOMAIN u = Fields /\ u.tb = x
  BY DEF Fields

(* What a call leaves is not "ended".                                      *)
LEMMA LeaveCall ==
    ASSUME NEW code, Leave(code)
    PROVE  call' = "idle"
  BY DEF Leave

(* A step that allocates and frees nothing, in a mode.                     *)
LEMMA Keep ==
    ASSUME MemInv, mem' = mem, mode' = mode, DOMAIN trees' = Fields, trees'.tb = trees.tb,
           call # "ended", call' # "ended"
    PROVE  MemInv'
  BY DEF MemInv

(* A step from a mode that holds nothing to another, or to "BAD".          *)
LEMMA HoldNothing ==
    ASSUME MemInv, mode \notin Holding, mem' = mem, mode' \notin Holding \/ mode' = "BAD",
           DOMAIN trees' = Fields, call # "ended", call' # "ended"
    PROVE  MemInv'
  <1>1. mem = {}
    <2>1. Owns(mode, trees.tb) = {{}}
      BY OwnsNothing
    <2> QED
      BY <2>1 DEF MemInv
  <1>2. {} \in Owns(mode', trees'.tb)
    <2>1. CASE mode' = "BAD"
      <3>1. Owns("BAD", trees'.tb) = SUBSET {"blens", "tb"}
        BY OwnsIs
      <3> QED
        BY <2>1, <3>1
    <2>2. CASE mode' \notin Holding
      <3>1. Owns(mode', trees'.tb) = {{}}
        BY <2>2, OwnsNothing
      <3> QED
        BY <3>1
    <2> QED
      BY <2>1, <2>2
  <1> QED
    BY <1>1, <1>2 DEF MemInv

LEMMA KeepTrees ==
    ASSUME MemInv, mem' = mem, mode' = mode, trees' = trees, call # "ended", call' # "ended"
    PROVE  MemInv'
  BY Keep DEF MemInv

LEMMA StepIdle ==
    ASSUME MemInv, inflate \/ NextByte \/ NoByte \/ MakeRoom
    PROVE  MemInv'
  <1>1. UNCHANGED <<mem, mode, trees>> /\ call # "ended"
    BY DEF inflate, NextByte, NoByte, MakeRoom, blockVars, heap, Same, WantsRoom, Turn, InCodes
  <1>2. call' # "ended"
    <2>1. CASE inflate
      BY <2>1 DEF inflate
    <2>2. CASE NextByte
      BY <2>2 DEF NextByte, Same, callVars
    <2>3. CASE NoByte
      BY <2>3, LeaveCall DEF NoByte
    <2>4. CASE MakeRoom
      BY <1>1, <2>4 DEF MakeRoom, callVars
    <2> QED
      BY <2>1, <2>2, <2>3, <2>4
  <1> QED
    BY <1>1, <1>2, KeepTrees

LEMMA StepCodes ==
    ASSUME MemInv, \/ Start \/ LengthOrLiteral \/ LenExt \/ Dist \/ DistExt \/ Copy \/ Lit
                   \/ BadCode \/ FastTurn \/ NullLookup
    PROVE  MemInv'
  <1>1. UNCHANGED <<mem, mode, trees>> /\ call = "blocks"
    BY DEF Start, LengthOrLiteral, LenExt, Dist, DistExt, Copy, Lit, BadCode, FastTurn, NullLookup,
           blockVars, heap, Same, Turn, InCodes
  <1>2. call' # "ended"
    <2>1. CASE Start \/ LengthOrLiteral \/ LenExt \/ Dist \/ DistExt \/ Copy \/ Lit
      <3>1. call' = call
        BY <2>1 DEF Start, LengthOrLiteral, LenExt, Dist, DistExt, Copy, Lit, Same, callVars
      <3> QED
        BY <1>1, <3>1
    <2>2. CASE BadCode
      BY <2>2, LeaveCall DEF BadCode
    <2>3. CASE FastTurn \/ NullLookup
      BY <1>1, <2>3 DEF FastTurn, NullLookup
    <2> QED
      BY <2>1, <2>2, <2>3
  <1> QED
    BY <1>1, <1>2, KeepTrees

LEMMA StepStored ==
    ASSUME MemInv, TypeStored \/ TypeDynamic \/ BadType \/ LensRead \/ StoredCopy \/ StoredStarved
    PROVE  MemInv'
  <1>1. mem' = mem /\ call = "blocks" /\ mode \in {"TYPE", "LENS", "STORED"}
    BY DEF TypeStored, TypeDynamic, BadType, LensRead, StoredCopy, StoredStarved,
           Type, Turn, heap, Same
  <1>2. mode' \in {"LENS", "TABLE", "BAD", "STORED", "DRY", "TYPE"}
    BY <1>1 DEF TypeStored, TypeDynamic, BadType, LensRead, StoredCopy, StoredStarved,
           To, Ended, blockVars
  <1>3. call' # "ended"
    BY <1>1, LeaveCall DEF TypeStored, TypeDynamic, BadType, LensRead, StoredCopy, StoredStarved,
           Same, callVars
  <1>4. DOMAIN trees' = Fields
    <2>1. DOMAIN trees = Fields
      BY DEF MemInv
    <2>2. \A x : DOMAIN [trees EXCEPT !.left = x] = DOMAIN trees
      OBVIOUS
    <2>3. trees' = trees \/ \E x : trees' = [trees EXCEPT !.left = x]
      BY DEF TypeStored, TypeDynamic, BadType, LensRead, StoredCopy, StoredStarved, blockVars
    <2> QED
      BY <2>1, <2>2, <2>3
  <1> QED
    BY <1>1, <1>2, <1>3, <1>4, HoldNothing DEF Holding

LEMMA StepFixed ==
    ASSUME MemInv, TypeFixed
    PROVE  MemInv'
  <1>1. mode = "TYPE" /\ call = "blocks" /\ trees' = trees
    BY DEF TypeFixed, Type, Turn
  <1>2. mem = {} /\ DOMAIN trees = Fields
    <2>1. mode \notin Holding
      BY <1>1 DEF Holding
    <2>2. Owns(mode, trees.tb) = {{}}
      BY <2>1, OwnsNothing
    <2> QED
      BY <1>1, <2>2 DEF MemInv
  <1>3. CASE Gets({"codes"}) /\ mode' = "CODES" /\ UNCHANGED callVars
    <2>1. mem' = {"codes"} /\ call' = "blocks"
      BY <1>1, <1>2, <1>3 DEF Gets, callVars
    <2>2. {"codes"} \in Owns("CODES", trees'.tb)
      BY OwnsIs
    <2> QED
      BY <1>1, <1>2, <1>3, <2>1, <2>2 DEF MemInv
  <1>4. CASE Fail /\ UNCHANGED mode
    BY <1>1, <1>4, LeaveCall, KeepTrees DEF Fail
  <1> QED
    BY <1>3, <1>4 DEF TypeFixed

LEMMA StepTable ==
    ASSUME MemInv, TableRead
    PROVE  MemInv'
  <1>1. mode = "TABLE" /\ call = "blocks"
    BY DEF TableRead, Turn
  <1>2. mem = {} /\ DOMAIN trees = Fields
    <2>1. mode \notin Holding
      BY <1>1 DEF Holding
    <2>2. Owns(mode, trees.tb) = {{}}
      BY <2>1, OwnsNothing
    <2> QED
      BY <1>1, <2>2 DEF MemInv
  <1>3. \/ /\ mode' = "BAD" /\ call' = "idle" /\ mem' = mem
           /\ \E t : trees' = [trees EXCEPT !.table = t]
        \/ /\ mode' = "BTREE" /\ call' = call /\ mem' = mem \cup {"blens"}
           /\ \E t, b : trees' = [NoTrees EXCEPT !.table = t, !.blens = b]
        \/ /\ mode' = mode /\ call' = "idle" /\ mem' = mem
           /\ \E t : trees' = [trees EXCEPT !.table = t]
    BY LeaveCall DEF TableRead, To, Gets, Fail, callVars, heap
  <1>4. DOMAIN trees' = Fields
    <2>1. DOMAIN NoTrees = Fields
      BY DEF NoTrees, Fields
    <2>2. /\ \A t : DOMAIN [trees EXCEPT !.table = t] = Fields
          /\ \A t, b : DOMAIN [NoTrees EXCEPT !.table = t, !.blens = b] = Fields
      BY <1>2, <2>1
    <2> QED
      BY <1>3, <2>2
  <1>5. CASE mode' = "BTREE" /\ call' = call /\ mem' = mem \cup {"blens"}
    <2>1. {"blens"} \in Owns("BTREE", trees'.tb) /\ mem' = {"blens"}
      BY <1>2, <1>5, OwnsIs
    <2> QED
      BY <1>1, <1>4, <1>5, <2>1 DEF MemInv
  <1>6. CASE mode' \in {"BAD", mode} /\ call' = "idle" /\ mem' = mem
    BY <1>1, <1>4, <1>6, HoldNothing DEF Holding
  <1> QED
    BY <1>3, <1>5, <1>6

LEMMA StepLengths ==
    ASSUME MemInv, CodeLength \/ SymbolLength
    PROVE  MemInv'
  <1>1. call = "blocks" /\ call' = call /\ mem' = mem /\ mode' = mode
    BY DEF CodeLength, SymbolLength, Turn, Same, callVars, heap
  <1>2. \E b, i : trees' = [trees EXCEPT !.blens = b, !.index = i]
    BY DEF CodeLength, SymbolLength
  <1>3. DOMAIN trees' = Fields /\ trees'.tb = trees.tb
    BY <1>2 DEF MemInv, Fields
  <1> QED
    BY <1>1, <1>3, Keep
LEMMA StepRepeat ==
    ASSUME MemInv, RepeatLength
    PROVE  MemInv'
  <1>1. mode = "DTREE" /\ call = "blocks" /\ mem' = mem
    BY DEF RepeatLength, Turn, heap
  <1>2. \/ /\ mode' = mode /\ call' = call
           /\ \E b, i : trees' = [trees EXCEPT !.blens = b, !.index = i]
        \/ mode' = "BAD" /\ call' = "idle" /\ trees' = trees
    BY LeaveCall DEF RepeatLength, To, callVars
  <1>3. CASE /\ mode' = mode /\ call' = call
             /\ \E b, i : trees' = [trees EXCEPT !.blens = b, !.index = i]
    <2>1. DOMAIN trees' = Fields /\ trees'.tb = trees.tb
      BY <1>3 DEF MemInv, Fields
    <2> QED
      BY <1>1, <1>3, <2>1, Keep
  <1>4. CASE mode' = "BAD" /\ call' = "idle" /\ trees' = trees
    <2>1. /\ Owns("DTREE", trees.tb) = {{"blens"} \cup IF trees.tb = <<>> THEN {} ELSE {"tb"}}
          /\ Owns("BAD", trees'.tb) = SUBSET {"blens", "tb"}
      BY OwnsIs
    <2>2. mem \in {{"blens"}, {"blens", "tb"}}
      BY <1>1, <2>1 DEF MemInv
    <2>3. mem' \in SUBSET {"blens", "tb"}
      BY <1>1, <2>2
    <2> QED
      BY <1>4, <2>1, <2>3 DEF MemInv
  <1> QED
    BY <1>2, <1>3, <1>4

(* The tree of lengths is kept, or there is none, or no memory for it.     *)
LEMMA StepBitsTree ==
    ASSUME MemInv, BitsTree
    PROVE  MemInv'
  <1>1. mode = "BTREE" /\ call = "blocks" /\ DOMAIN trees = Fields
    BY DEF BitsTree, Turn, MemInv
  <1>2. mem = {"blens"}
    <2>1. Owns("BTREE", trees.tb) = {{"blens"}}
      BY OwnsIs
    <2> QED
      BY <1>1, <2>1 DEF MemInv
  <1>3. \/ \E t, b, bits :
             /\ trees' = [trees EXCEPT !.tb = t, !.bb = bits, !.index = 0, !.blens = b]
             /\ mem' = mem \cup IF t = <<>> THEN {} ELSE {"tb"}
             /\ mode' = "DTREE" /\ call' = call
        \/ /\ mode' \in {"BAD", "BTREE"} /\ call' = "idle" /\ mem' = mem
           /\ \E i, b : trees' = [trees EXCEPT !.index = i, !.blens = b]
    <2>1. PICK cl, blens :
             \/ \E t \in {inflate_trees_bits(cl)} :
                  IF t.r = "Z_OK"
                  THEN /\ trees' = [trees EXCEPT !.tb = t.tree, !.bb = t.m, !.index = 0, !.blens = blens]
                       /\ Gets(IF t.tree = <<>> THEN {} ELSE {"tb"})
                       /\ To("DTREE") /\ UNCHANGED <<outVars, callVars, r>>
                  ELSE /\ To("BAD") /\ Leave(t.r) /\ UNCHANGED heap
                       /\ trees' = [trees EXCEPT !.index = Len(border), !.blens = blens]
             \/ /\ MayFail /\ Leave("Z_MEM_ERROR") /\ UNCHANGED <<mem, mode, last>>
                /\ trees' = [trees EXCEPT !.index = Len(border), !.blens = blens]
      BY DEF BitsTree
    <2>2. CASE /\ MayFail /\ Leave("Z_MEM_ERROR") /\ UNCHANGED <<mem, mode, last>>
               /\ trees' = [trees EXCEPT !.index = Len(border), !.blens = blens]
      BY <1>1, <2>2, LeaveCall
    <2>3. ASSUME NEW t,
                 IF t.r = "Z_OK"
                 THEN /\ trees' = [trees EXCEPT !.tb = t.tree, !.bb = t.m, !.index = 0, !.blens = blens]
                      /\ Gets(IF t.tree = <<>> THEN {} ELSE {"tb"})
                      /\ To("DTREE") /\ UNCHANGED <<outVars, callVars, r>>
                 ELSE /\ To("BAD") /\ Leave(t.r) /\ UNCHANGED heap
                      /\ trees' = [trees EXCEPT !.index = Len(border), !.blens = blens]
          PROVE  \/ \E u, b, bits :
                      /\ trees' = [trees EXCEPT !.tb = u, !.bb = bits, !.index = 0, !.blens = b]
                      /\ mem' = mem \cup IF u = <<>> THEN {} ELSE {"tb"}
                      /\ mode' = "DTREE" /\ call' = call
                 \/ /\ mode' \in {"BAD", "BTREE"} /\ call' = "idle" /\ mem' = mem
                    /\ \E i, b : trees' = [trees EXCEPT !.index = i, !.blens = b]
      BY <2>3, LeaveCall DEF Gets, To, callVars, heap
    <2> QED
      BY <2>1, <2>2, <2>3
  <1>4. CASE \E t, b, bits :
               /\ trees' = [trees EXCEPT !.tb = t, !.bb = bits, !.index = 0, !.blens = b]
               /\ mem' = mem \cup IF t = <<>> THEN {} ELSE {"tb"}
               /\ mode' = "DTREE" /\ call' = call
    <2>1. PICK t, b, bits :
            /\ trees' = [trees EXCEPT !.tb = t, !.bb = bits, !.index = 0, !.blens = b]
            /\ mem' = mem \cup IF t = <<>> THEN {} ELSE {"tb"}
            /\ mode' = "DTREE" /\ call' = call
      BY <1>4, Zenon
    <2>2. DOMAIN trees' = Fields /\ trees'.tb = t
      BY <1>1, <2>1 DEF Fields
    <2>3. Owns("DTREE", t) = {{"blens"} \cup IF t = <<>> THEN {} ELSE {"tb"}}
      BY OwnsIs
    <2> QED
      BY <1>1, <1>2, <2>1, <2>2, <2>3 DEF MemInv
  <1>5. CASE /\ mode' \in {"BAD", "BTREE"} /\ call' = "idle" /\ mem' = mem
             /\ \E i, b : trees' = [trees EXCEPT !.index = i, !.blens = b]
    <2>1. DOMAIN trees' = Fields
      BY <1>1, <1>5
    <2>2. Owns("BTREE", trees'.tb) = {{"blens"}} /\ Owns("BAD", trees'.tb) = SUBSET {"blens", "tb"}
      BY OwnsIs
    <2> QED
      BY <1>2, <1>5, <2>1, <2>2 DEF MemInv
  <1> QED
    BY <1>3, <1>4, <1>5, Zenon

(* The trees of the block take the place of the lengths and their tree.    *)
LEMMA StepTrees ==
    ASSUME MemInv, DynamicTrees
    PROVE  MemInv'
  <1>1. mode = "DTREE" /\ call = "blocks" /\ DOMAIN trees = Fields
    BY DEF DynamicTrees, Turn, MemInv
  <1>2. mem \in {{"blens"}, {"blens", "tb"}}
    <2>1. Owns("DTREE", trees.tb) = {{"blens"} \cup IF trees.tb = <<>> THEN {} ELSE {"tb"}}
      BY OwnsIs
    <2> QED
      BY <1>1, <2>1 DEF MemInv
  <1>3. \/ /\ \E tl, td : mem' = (mem \ {"tb", "blens"}) \cup {"codes"}
                                 \cup (IF tl = <<>> THEN {} ELSE {"tl"})
                                 \cup (IF td = <<>> THEN {} ELSE {"td"})
           /\ trees' = NoTrees /\ mode' = "CODES" /\ call' = call
        \/ /\ mode' \in {"BAD", "DTREE"} /\ call' = "idle" /\ mem' = mem \ {"tb"}
           /\ trees' = [trees EXCEPT !.tb = <<>>]
    <2>1. PICK t : \/ IF t.r = "Z_OK"
                      THEN /\ mem' = (mem \ {"tb", "blens"}) \cup {"codes"}
                                     \cup (IF t.tl = <<>> THEN {} ELSE {"tl"})
                                     \cup (IF t.td = <<>> THEN {} ELSE {"td"})
                           /\ trees' = NoTrees /\ To("CODES") /\ UNCHANGED callVars
                      ELSE /\ To("BAD") /\ Leave(t.r) /\ mem' = mem \ {"tb"}
                           /\ trees' = [trees EXCEPT !.tb = <<>>]
                   \/ /\ Leave("Z_MEM_ERROR") /\ mem' = mem \ {"tb"}
                      /\ trees' = [trees EXCEPT !.tb = <<>>] /\ UNCHANGED mode
      BY DEF DynamicTrees
    <2>2. CASE /\ Leave("Z_MEM_ERROR") /\ mem' = mem \ {"tb"}
               /\ trees' = [trees EXCEPT !.tb = <<>>] /\ UNCHANGED mode
      BY <1>1, <2>2, LeaveCall
    <2>3. CASE t.r = "Z_OK" /\ ~(Leave("Z_MEM_ERROR") /\ mem' = mem \ {"tb"}
               /\ trees' = [trees EXCEPT !.tb = <<>>] /\ UNCHANGED mode)
      BY <2>1, <2>3 DEF To, callVars
    <2>4. CASE t.r # "Z_OK" /\ ~(Leave("Z_MEM_ERROR") /\ mem' = mem \ {"tb"}
               /\ trees' = [trees EXCEPT !.tb = <<>>] /\ UNCHANGED mode)
      BY <2>1, <2>4, LeaveCall DEF To
    <2> QED
      BY <2>2, <2>3, <2>4
  <1>4. ASSUME NEW tl, NEW td, mem' = (mem \ {"tb", "blens"}) \cup {"codes"}
                                      \cup (IF tl = <<>> THEN {} ELSE {"tl"})
                                      \cup (IF td = <<>> THEN {} ELSE {"td"}),
               trees' = NoTrees, mode' = "CODES", call' = call
        PROVE  MemInv'
    <2>1. mem' \in {{"codes"}, {"codes", "tl"}, {"codes", "td"}, {"codes", "tl", "td"}}
      BY <1>2, <1>4
    <2>2. Owns("CODES", trees'.tb) = {{"codes"}, {"codes", "tl"}, {"codes", "td"}, {"codes", "tl", "td"}}
      BY OwnsIs
    <2>3. DOMAIN trees' = Fields
      BY <1>4 DEF NoTrees, Fields
    <2> QED
      BY <1>1, <1>4, <2>1, <2>2, <2>3 DEF MemInv
  <1>5. CASE /\ mode' \in {"BAD", "DTREE"} /\ call' = "idle" /\ mem' = mem \ {"tb"}
             /\ trees' = [trees EXCEPT !.tb = <<>>]
    <2>1. DOMAIN trees' = Fields /\ trees'.tb = <<>>
      BY <1>1, <1>5, TreeSet
    <2>2. mem' = {"blens"}
      BY <1>2, <1>5
    <2>3. /\ Owns("DTREE", trees'.tb) = {{"blens"} \cup IF trees'.tb = <<>> THEN {} ELSE {"tb"}}
          /\ Owns("BAD", trees'.tb) = SUBSET {"blens", "tb"}
      BY OwnsIs
    <2> QED
      BY <1>5, <2>1, <2>2, <2>3 DEF MemInv
  <1>6. CASE /\ \E tl, td : mem' = (mem \ {"tb", "blens"}) \cup {"codes"}
                                      \cup (IF tl = <<>> THEN {} ELSE {"tl"})
                                      \cup (IF td = <<>> THEN {} ELSE {"td"})
             /\ trees' = NoTrees /\ mode' = "CODES" /\ call' = call
    BY <1>4, <1>6, Zenon
  <1> QED
    BY <1>3, <1>5, <1>6, Zenon

(* The end of a block frees its trees.                                     *)
LEMMA StepWash ==
    ASSUME MemInv, Wash
    PROVE  MemInv'
  <1>1. mode = "CODES" /\ call = "blocks"
    BY DEF Wash, InCodes, Turn
  <1>2. /\ mem \in {{"codes"}, {"codes", "tl"}, {"codes", "td"}, {"codes", "tl", "td"}}
        /\ DOMAIN trees = Fields
    <2>1. Owns("CODES", trees.tb) = {{"codes"}, {"codes", "tl"}, {"codes", "td"}, {"codes", "tl", "td"}}
      BY OwnsIs
    <2> QED
      BY <1>1, <2>1 DEF MemInv
  <1>3. \/ call' = "idle" /\ UNCHANGED <<mem, mode, trees>>
        \/ /\ mem' = mem \ {"codes", "tl", "td"} /\ mode' \in {"DRY", "TYPE"}
           /\ call' \in {"astray", call} /\ trees' = trees
    BY DEF Wash, To, Ended, blockVars, heap
  <1>4. CASE call' = "idle" /\ UNCHANGED <<mem, mode, trees>>
    BY <1>1, <1>4, KeepTrees
  <1>5. CASE /\ mem' = mem \ {"codes", "tl", "td"} /\ mode' \in {"DRY", "TYPE"}
             /\ call' \in {"astray", call} /\ trees' = trees
    <2>1. mem' = {}
      BY <1>2, <1>5
    <2>2. mode' \notin Holding
      BY <1>5 DEF Holding
    <2>3. Owns(mode', trees'.tb) = {{}}
      BY <2>2, OwnsNothing
    <2> QED
      BY <1>1, <1>2, <1>5, <2>1, <2>3 DEF MemInv
  <1> QED
    BY <1>3, <1>4, <1>5

LEMMA StepDry ==
    ASSUME MemInv, Dry
    PROVE  MemInv'
  <1>1. mode = "DRY" /\ call = "blocks" /\ call' = "idle" /\ mem' = mem /\ trees' = trees
    BY DEF Dry, Turn, heap
  <1>2. mode' \in {"DRY", "TYPE"}
    BY <1>1 DEF Dry, To
  <1>3. DOMAIN trees' = Fields
    BY <1>1 DEF MemInv
  <1> QED
    BY <1>1, <1>2, <1>3, HoldNothing DEF Holding

(* What the mode holds is freed, but for the lengths of a bad block and    *)
(* the tree of lengths.                                                    *)
LEMMA StepEnd ==
    ASSUME MemInv, inflateEnd
    PROVE  MemInv'
  <1>1. call = "idle" /\ call' = "ended" /\ mem' = mem \ Freed(mode) /\ trees' = trees
    BY DEF inflateEnd, blockVars
  <1>2. mem \in Owns(mode, trees.tb) /\ DOMAIN trees = Fields
    BY <1>1 DEF MemInv
  <1>3. mem' \subseteq {"blens", "tb"}
    <2>1. CASE mode \in {"BTREE", "DTREE"}
      <3>1. mem \subseteq {"blens", "tb"}
        BY <1>2, <2>1, OwnsIs
      <3> QED
        BY <1>1, <3>1
    <2>2. CASE mode = "CODES"
      <3>1. mem \subseteq {"codes", "tl", "td"}
        BY <1>2, <2>2, OwnsIs
      <3>2. Freed(mode) = {"codes", "tl", "td"}
        BY <2>2 DEF Freed
      <3> QED
        BY <1>1, <3>1, <3>2
    <2>3. CASE mode = "BAD"
      <3>1. mem \subseteq {"blens", "tb"}
        BY <1>2, <2>3, OwnsIs
      <3> QED
        BY <1>1, <3>1
    <2>4. CASE mode \notin Holding
      <3>1. Owns(mode, trees.tb) = {{}}
        BY <2>4, OwnsNothing
      <3> QED
        BY <1>1, <1>2, <3>1
    <2> QED
      BY <2>1, <2>2, <2>3, <2>4 DEF Holding
  <1> QED
    BY <1>1, <1>2, <1>3 DEF MemInv

LEMMA StepMem ==
    ASSUME MemInv, [Next]_vars
    PROVE  MemInv'
  <1>1. CASE UNCHANGED vars
    BY <1>1 DEF vars, MemInv
  <1>2. CASE Next
    BY <1>2, StepIdle, StepCodes, StepStored, StepFixed, StepTable, StepLengths, StepRepeat,
       StepBitsTree, StepTrees, StepWash, StepDry, StepEnd DEF Next, Turns
  <1> QED
    BY <1>1, <1>2

(* infblock.c frees, at every point where it may be left, what it has      *)
(* allocated by then, for any stream and whatever allocation fails, but    *)
(* for the lengths and the tree of lengths of a block that is not finished.*)
THEOREM MemoryCorrect == Spec => []MemoryHeld
  <1>1. Init => MemInv
    <2> SUFFICES ASSUME Init PROVE MemInv
      OBVIOUS
    <2>1. mode = "TYPE" /\ mem = {} /\ call = "idle" /\ trees = NoTrees
      BY DEF Init
    <2>2. mode \notin Holding
      BY <2>1 DEF Holding
    <2>3. Owns(mode, trees.tb) = {{}}
      BY <2>2, OwnsNothing
    <2>4. DOMAIN trees = Fields
      BY <2>1 DEF NoTrees, Fields
    <2> QED
      BY <2>1, <2>3, <2>4 DEF MemInv
  <1>2. MemInv => MemoryHeld
    <2>1. Owned = Owns(mode, trees.tb)
      BY DEF Owned, Owns
    <2> QED
      BY <2>1 DEF MemInv, MemoryHeld
  <1>3. MemInv /\ [Next]_vars => MemInv'
    BY StepMem
  <1> QED
    BY <1>1, <1>2, <1>3, PTL DEF Spec
=============================================================================
