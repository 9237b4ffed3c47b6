------------------------------- MODULE Inflate -------------------------------
(***************************************************************************)
(* zlib's decoder as gzip.c drives it: inflate.c without a header,         *)
(* infblock.c, infcodes.c, inffast.c, infutil.c.  A step is one turn of a  *)
(* loop: a byte into the bit buffer, a symbol, a byte copied.  A call      *)
(* leaves the decoder at any of them, when input or room is over, with all *)
(* it has in its window given out, and the next one goes on from there.    *)
(*                                                                         *)
(* The caller reads a file into a buffer it fills again when it is empty.  *)
(* A call that reads memory that is not there goes "astray".               *)
(***************************************************************************)
EXTENDS InflateTrees

CONSTANTS
    Streams,            \* the files: their bytes, and what these mean
    BUFSIZE,            \* of the caller's input buffer
    Rooms,              \* avail_out of a call
    WSIZE,              \* 32768: of the window
    FastOut, FastIn,    \* 258, 10: room and bytes inflate_fast wants
    GrabCode, GrabDist, \* 20, 15: bits it has when it looks a code up
    MaxFailures         \* bound: allocations that fail

ASSUME StreamsAssumption == \A s \in Streams : s.means = Meaning(s.bytes)
ASSUME SizesAssumption ==
    /\ \A i \in DOMAIN cpdist : cpdist[i] + 2^cpdext[i] - 1 <= WSIZE
    /\ \A i \in DOMAIN cplens : cplext[i] # Invalid => cplens[i] + 2^cplext[i] - 1 <= FastOut
    /\ BUFSIZE \in Nat \ {0} /\ Rooms \subseteq Nat \ {0} /\ MaxFailures \in Nat

VARIABLES
    stream,             \* the file, what it means, and how many bytes the first buffer has
    z,                  \* next_in, avail_in, where in the file the buffer began; z_eof
    bit,                \* bitb, bitk
    window,             \* data, read, write
    out,                \* history of next_out: all bytes given out; avail_out
    mode, last,         \* of inflate_blocks
    trees,              \* its table, index, blens, tb, bb, and the left of a stored block
    codes,              \* inflate_codes: mode, need, tree, len, get, dist, lit
    coding,             \* bl, bd, tl, td
    mem,                \* what is allocated
    failures,
    call,               \* "idle", "blocks" in a call, "astray", "ended"
    r

vars == <<stream, z, bit, window, out, mode, last, trees, codes, coding, mem, failures, call, r>>
inVars  == <<z, bit>>
outVars == <<window, out>>
blockVars == <<mode, last, trees>>
codeVars  == <<codes, coding>>
heap      == <<mem, failures>>
callVars  == <<stream, call>>

NoTrees  == [table |-> 0, index |-> 0, blens |-> <<>>, tb |-> <<>>, bb |-> 0, left |-> 0]
NoCodes  == [mode |-> "START", need |-> 0, tree |-> 1, len |-> 0, get |-> 0, dist |-> 0, lit |-> 0]
NoCoding == [bl |-> 0, bd |-> 0, tl |-> <<>>, td |-> <<>>]

Init ==
    /\ \E s \in Streams, first \in 1 .. BUFSIZE :
         first <= Len(s.bytes) /\ stream = [bytes |-> s.bytes, means |-> s.means, first |-> first]
    /\ z = [next |-> 0, avail |-> 0, begin |-> 0, eof |-> FALSE] /\ bit = [b |-> 0, k |-> 0]
    /\ window = [data |-> [i \in 0 .. WSIZE - 1 |-> Junk], read |-> 0, write |-> 0]
    /\ out = [bytes |-> <<>>, avail |-> 0]
    /\ mode = "TYPE" /\ last = FALSE /\ trees = NoTrees /\ codes = NoCodes /\ coding = NoCoding
    /\ mem = {} /\ failures = 0 /\ call = "idle" /\ r = "Z_OK"
-----------------------------------------------------------------------------
(* infutil: the window.  Its room is never more than what is contiguous,   *)
(* and one byte of it stays unused, so that read = write means empty.      *)

WAVAIL(w) == IF w.write < w.read THEN w.read - w.write - 1 ELSE WSIZE - w.write
WRAP(w) == IF w.write = WSIZE /\ w.read # 0 THEN [w EXCEPT !.write = 0] ELSE w

\* Defect: the rest of the output, from the start of the window, is not counted.
FlushedOnce(w, o) ==
    LET n == Min({(IF w.read <= w.write THEN w.write ELSE WSIZE) - w.read, o.avail})
        q == w.read + n
        w1 == IF q = WSIZE THEN [w EXCEPT !.read = 0, !.write = IF @ = WSIZE THEN 0 ELSE @]
              ELSE [w EXCEPT !.read = q]
        n2 == IF q = WSIZE THEN Min({w1.write, o.avail}) ELSE 0
    IN  [window |-> [w1 EXCEPT !.read = @ + n2], n |-> n + n2,
         out |-> [avail |-> o.avail - n - n2,
                  bytes |-> o.bytes \o [i \in 1 .. n |-> w.data[w.read + i - 1]]]]
Flushed(w, o) ==
    LET n == Min({(IF w.read <= w.write THEN w.write ELSE WSIZE) - w.read, o.avail})
        q == w.read + n
        w1 == IF q = WSIZE THEN [w EXCEPT !.read = 0, !.write = IF @ = WSIZE THEN 0 ELSE @]
              ELSE [w EXCEPT !.read = q]
        n2 == IF q = WSIZE THEN Min({w1.write, o.avail - n}) ELSE 0
    IN  [window |-> [w1 EXCEPT !.read = @ + n2], n |-> n + n2,
         out |-> [avail |-> o.avail - n - n2,
                  bytes |-> o.bytes \o [i \in 1 .. n |-> w.data[w.read + i - 1]]
                                    \o [i \in 1 .. n2 |-> w.data[i - 1]]]]

OUTBYTE(w, byte) == [w EXCEPT !.data[w.write] = byte, !.write = @ + 1]
(* A copy from `dist' back: byte by byte, so that it may overlap itself.   *)
OneBack(w, dist) == OUTBYTE(w, w.data[(w.write - dist) % WSIZE])
CopiedBack(w, dist, len) ==
    LET copied[n \in 0 .. len] == IF n = 0 THEN w ELSE OneBack(copied[n - 1], dist)
    IN  copied[len]

(* LEAVE: out of inflate_blocks and inflate, with what output there is.    *)
Leave(code) ==
    \E f \in {Flushed(window, out)} :
      /\ window' = f.window /\ out' = f.out /\ call' = "idle"
      /\ r' = IF f.n > 0 /\ code = "Z_BUF_ERROR" THEN "Z_OK" ELSE code
      /\ UNCHANGED stream
Turn(m) == call = "blocks" /\ mode = m
InCodes(m) == Turn("CODES") /\ codes.mode = m
Same == UNCHANGED <<callVars, heap>>

(* The caller's loop: it reads on only when all input is used.             *)
Refill ==
    LET n == Min({IF z.next = 0 THEN stream.first ELSE BUFSIZE, Len(stream.bytes) - z.next})
    IN  IF z.avail > 0 \/ z.eof THEN z
        ELSE [next |-> z.next, avail |-> n, begin |-> z.next, eof |-> z.next > 0 /\ n # BUFSIZE]
inflate ==
    /\ call = "idle" /\ r \in {"Z_OK", "Z_BUF_ERROR", "Z_MEM_ERROR"}
    /\ z' = Refill
    /\ \E n \in IF out.avail = 0 \/ r # "Z_OK" \/ z.eof THEN Rooms ELSE {out.avail} :
         out' = [out EXCEPT !.avail = n]
    /\ call' = "blocks" /\ r' = "Z_BUF_ERROR"
    /\ UNCHANGED <<stream, bit, window, blockVars, codeVars, heap>>
-----------------------------------------------------------------------------
(* NEEDBITS: bits wanted by the mode before it does anything.              *)

TreeSymbols(t) == EOB + 2 + (t % 2^HLIT) + ((t \div 2^HLIT) % 2^HDIST)
CodeLengths(t) == MinCounts + t \div 2^(HLIT + HDIST)
LengthEntry == trees.tb[1][bit.b % 2^trees.bb]
NullTable ==
    \/ mode = "DTREE" /\ trees.index < TreeSymbols(trees.table) /\ trees.tb = <<>>
    \/ mode = "CODES" /\ codes.mode = "LEN" /\ coding.tl = <<>>
    \/ mode = "CODES" /\ codes.mode = "DIST" /\ coding.td = <<>>

Needed ==
    CASE mode = "TYPE"  -> 3
      [] mode = "LENS"  -> 2 * LenBits
      [] mode = "TABLE" -> HLIT + HDIST + HCLEN
      [] mode = "BTREE" -> IF trees.index < CodeLengths(trees.table) THEN CLBits ELSE 0
      [] mode = "DTREE" ->
           IF trees.index = TreeSymbols(trees.table) THEN 0
           ELSE IF bit.k < trees.bb \/ LengthEntry.base < Plain THEN trees.bb
           ELSE LengthEntry.bits + RepeatBits[LengthEntry.base]
      [] mode = "CODES" -> IF codes.mode \in {"LEN", "DIST"} THEN codes.need
                           ELSE IF codes.mode \in {"LENEXT", "DISTEXT"} THEN codes.get ELSE 0
      [] OTHER -> 0
Ready == call = "blocks" /\ ~NullTable /\ bit.k >= Needed

NextByte ==
    /\ call = "blocks" /\ ~NullTable /\ bit.k < Needed /\ z.avail > 0
    /\ bit' = [b |-> bit.b + stream.bytes[z.next + 1] * 2^bit.k, k |-> bit.k + W]
    /\ z' = [z EXCEPT !.next = @ + 1, !.avail = @ - 1] /\ r' = "Z_OK"
    /\ UNCHANGED <<outVars, blockVars, codeVars>> /\ Same
NoByte ==
    /\ call = "blocks" /\ ~NullTable /\ bit.k < Needed /\ z.avail = 0 /\ Leave(r)
    /\ UNCHANGED <<inVars, blockVars, codeVars, heap>>
Dumped(s, n) == [b |-> s.b \div 2^n, k |-> s.k - n]
Dump(n) == bit' = Dumped(bit, n)

(* NEEDOUT: room is made by going on at the start of the window, or by     *)
(* giving out what is in it.                                               *)
WantsRoom == \/ Turn("STORED") /\ z.avail > 0
             \/ InCodes("LIT") \/ (InCodes("COPY") /\ codes.len > 0)
Room == WAVAIL(window)
MakeRoom ==
    /\ WantsRoom /\ Room = 0
    /\ \E w \in {WRAP(window)}, f \in {Flushed(WRAP(window), out)} :
         IF WAVAIL(w) > 0 THEN window' = w /\ r' = "Z_OK" /\ UNCHANGED <<out, callVars>>
         ELSE IF WAVAIL(WRAP(f.window)) > 0
         THEN window' = WRAP(f.window) /\ out' = f.out /\ r' = "Z_OK" /\ UNCHANGED callVars
         ELSE /\ window' = WRAP(f.window) /\ out' = f.out /\ call' = "idle" /\ UNCHANGED stream
              /\ r' = IF f.n > 0 /\ r = "Z_BUF_ERROR" THEN "Z_OK" ELSE r
    /\ UNCHANGED <<inVars, blockVars, codeVars, heap>>

(* ZALLOC.                                                                 *)
MayFail == failures < MaxFailures /\ failures' = failures + 1
Gets(what) == mem' = mem \cup what /\ UNCHANGED failures
Fail == /\ MayFail /\ UNCHANGED <<mem, inVars>> /\ Leave("Z_MEM_ERROR")
-----------------------------------------------------------------------------
(* inflate_blocks.                                                         *)

Type(kind) == Turn("TYPE") /\ Ready /\ (bit.b \div 2) % 4 = kind /\ last' = (bit.b % 2 = 1)
To(m) == mode' = m /\ UNCHANGED last

TypeStored ==
    /\ Type(0) /\ Dump(3 + ((bit.k - 3) % W)) /\ mode' = "LENS"
    /\ UNCHANGED <<z, outVars, trees, codeVars, r>> /\ Same
TypeFixed ==
    /\ Type(1)
    /\ \/ /\ Gets({"codes"}) /\ Dump(3) /\ mode' = "CODES"
          /\ codes' = NoCodes /\ coding' = inflate_trees_fixed
          /\ UNCHANGED <<z, outVars, callVars, r>>
       \/ Fail /\ UNCHANGED <<mode, codeVars>>
    /\ UNCHANGED trees
TypeDynamic ==
    /\ Type(2) /\ Dump(3) /\ mode' = "TABLE"
    /\ UNCHANGED <<z, outVars, trees, codeVars, r>> /\ Same
BadType ==
    /\ Type(3) /\ Dump(3) /\ mode' = "BAD" /\ Leave("Z_DATA_ERROR")
    /\ UNCHANGED <<z, trees, codeVars, heap>>

Ended == IF last THEN "DRY" ELSE "TYPE"
LensRead ==
    LET left == bit.b % 2^LenBits
        good == left + ((bit.b \div 2^LenBits) % 2^LenBits) = 2^LenBits - 1
    IN  /\ Turn("LENS") /\ Ready
        /\ IF good THEN /\ bit' = [b |-> 0, k |-> 0] /\ trees' = [trees EXCEPT !.left = left]
                        /\ To(IF left > 0 THEN "STORED" ELSE Ended)
                        /\ UNCHANGED <<outVars, callVars, r>>
           ELSE To("BAD") /\ Leave("Z_DATA_ERROR") /\ UNCHANGED <<bit, trees>>
        /\ UNCHANGED <<z, codeVars, heap>>
StoredCopy ==
    LET t == Min({trees.left, z.avail, Room})
    IN  /\ Turn("STORED") /\ z.avail > 0 /\ Room > 0
        /\ window' = [window EXCEPT !.write = @ + t, !.data = [i \in DOMAIN @ |->
                         IF i \in window.write .. window.write + t - 1
                         THEN stream.bytes[z.next + 1 + i - window.write] ELSE @[i]]]
        /\ z' = [z EXCEPT !.next = @ + t, !.avail = @ - t]
        /\ trees' = [trees EXCEPT !.left = @ - t]
        /\ To(IF trees.left > t THEN "STORED" ELSE Ended) /\ r' = "Z_OK"
        /\ UNCHANGED <<bit, out, codeVars>> /\ Same
StoredStarved ==
    /\ Turn("STORED") /\ z.avail = 0 /\ Leave(r)
    /\ UNCHANGED <<inVars, blockVars, codeVars, heap>>

TooMany(t) == t % 2^HLIT > MaxSyms \/ (t \div 2^HLIT) % 2^HDIST > MaxSyms
TableRead ==
    /\ Turn("TABLE") /\ Ready
    /\ \E t \in {bit.b % 2^(HLIT + HDIST + HCLEN)} :
         \/ /\ TooMany(t) /\ To("BAD") /\ Leave("Z_DATA_ERROR")
            /\ trees' = [trees EXCEPT !.table = t] /\ UNCHANGED <<inVars, heap>>
         \/ /\ ~TooMany(t) /\ Gets({"blens"}) /\ Dump(HLIT + HDIST + HCLEN) /\ To("BTREE")
            /\ trees' = [NoTrees EXCEPT !.table = t,
                           !.blens = [i \in 0 .. Max({TreeSymbols(t), Len(border)}) - 1 |-> 0]]
            /\ UNCHANGED <<z, outVars, callVars, r>>
         \/ /\ ~TooMany(t) /\ Fail
            /\ trees' = [trees EXCEPT !.table = t] /\ UNCHANGED <<mode, last>>
    /\ UNCHANGED codeVars

CodeLength ==
    /\ Turn("BTREE") /\ Ready /\ trees.index < CodeLengths(trees.table)
    /\ trees' = [trees EXCEPT !.blens[border[trees.index + 1]] = bit.b % 2^CLBits, !.index = @ + 1]
    /\ Dump(CLBits) /\ UNCHANGED <<z, outVars, mode, last, codeVars, r>> /\ Same
(* The rest of the code lengths are 0.                                     *)
BitsTree ==
    LET cl == [s \in 0 .. Len(border) - 1 |->
                 IF \E i \in trees.index + 1 .. Len(border) : border[i] = s
                 THEN 0 ELSE trees.blens[s]]
        blens == cl @@ trees.blens
    IN  /\ Turn("BTREE") /\ trees.index >= CodeLengths(trees.table)
        /\ \/ \E t \in {inflate_trees_bits(cl)} :
                IF t.r = "Z_OK"
                THEN /\ trees' = [trees EXCEPT !.tb = t.tree, !.bb = t.m, !.index = 0, !.blens = blens]
                     /\ Gets(IF t.tree = <<>> THEN {} ELSE {"tb"})
                     /\ To("DTREE") /\ UNCHANGED <<outVars, callVars, r>>
                ELSE /\ To("BAD") /\ Leave(t.r) /\ UNCHANGED heap
                     /\ trees' = [trees EXCEPT !.index = Len(border), !.blens = blens]
           \/ /\ MayFail /\ Leave("Z_MEM_ERROR") /\ UNCHANGED <<mem, mode, last>>
              /\ trees' = [trees EXCEPT !.index = Len(border), !.blens = blens]
        /\ UNCHANGED <<inVars, codeVars>>

SymbolLength ==
    /\ Turn("DTREE") /\ Ready /\ trees.index < TreeSymbols(trees.table) /\ LengthEntry.base < Plain
    /\ trees' = [trees EXCEPT !.blens[trees.index] = LengthEntry.base, !.index = @ + 1]
    /\ Dump(LengthEntry.bits) /\ UNCHANGED <<z, outVars, mode, last, codeVars, r>> /\ Same
Repeats(c, j) ==
    trees.index + j <= TreeSymbols(trees.table) /\ (c # Plain \/ trees.index > 0)
RepeatLength ==
    LET c == LengthEntry.base
        after == Dumped(bit, LengthEntry.bits)
        j == RepeatBase[c] + (after.b % 2^RepeatBits[c])
        new == [i \in trees.index .. trees.index + j - 1 |->
                  IF c = Plain THEN trees.blens[trees.index - 1] ELSE 0]
    IN  /\ Turn("DTREE") /\ Ready
        /\ trees.index < TreeSymbols(trees.table) /\ LengthEntry.base >= Plain
        /\ bit' = Dumped(after, RepeatBits[c])
        /\ IF Repeats(c, j)
           THEN /\ trees' = [trees EXCEPT !.blens = new @@ @, !.index = @ + j]
                /\ UNCHANGED <<outVars, mode, last, callVars, r>>
           ELSE To("BAD") /\ Leave("Z_DATA_ERROR") /\ UNCHANGED trees
        /\ UNCHANGED <<z, codeVars, heap>>
DynamicTrees ==
    LET nl == EOB + 1 + (trees.table % 2^HLIT)
        nd == 1 + ((trees.table \div 2^HLIT) % 2^HDIST)
        trees1 == [trees EXCEPT !.tb = <<>>]
    IN  /\ Turn("DTREE") /\ trees.index = TreeSymbols(trees.table)
        /\ \/ \E t \in {inflate_trees_dynamic(nl, nd, trees.blens)} :
                IF t.r = "Z_OK"
                THEN /\ mem' = (mem \ {"tb", "blens"}) \cup {"codes"}
                               \cup (IF t.tl = <<>> THEN {} ELSE {"tl"})
                               \cup (IF t.td = <<>> THEN {} ELSE {"td"})
                     /\ coding' = [bl |-> t.bl, bd |-> t.bd, tl |-> t.tl, td |-> t.td]
                     /\ codes' = NoCodes /\ trees' = NoTrees /\ To("CODES")
                     /\ UNCHANGED <<outVars, callVars, failures, r>>
                ELSE /\ To("BAD") /\ Leave(t.r) /\ mem' = mem \ {"tb"} /\ trees' = trees1
                     /\ UNCHANGED <<codeVars, failures>>
           \/ /\ MayFail /\ Leave("Z_MEM_ERROR") /\ mem' = mem \ {"tb"}
              /\ trees' = trees1 /\ UNCHANGED <<mode, last, codeVars>>
        /\ UNCHANGED inVars
-----------------------------------------------------------------------------
(* inflate_codes.                                                          *)

Start ==
    /\ InCodes("START")
    /\ codes' = IF Room >= FastOut /\ z.avail >= FastIn THEN [codes EXCEPT !.mode = "FAST"]
                ELSE [codes EXCEPT !.mode = "LEN", !.need = coding.bl, !.tree = 1]
    /\ UNCHANGED <<inVars, outVars, blockVars, coding, r>> /\ Same

CodeEntry(tables) == tables[codes.tree][bit.b % 2^codes.need]
NextTable(t) == [codes EXCEPT !.need = t.exop, !.tree = t.base]
LengthOrLiteral ==
    /\ InCodes("LEN") /\ Ready
    /\ \E t \in {CodeEntry(coding.tl)} :
         /\ Dump(t.bits)
         /\ IF t.exop = 0 THEN codes' = [codes EXCEPT !.mode = "LIT", !.lit = t.base]
            ELSE IF IsBase(t.exop)
            THEN codes' = [codes EXCEPT !.mode = "LENEXT", !.get = t.exop % 16, !.len = t.base]
            ELSE IF IsNext(t.exop) THEN codes' = NextTable(t)
            ELSE IF IsEnd(t.exop) THEN codes' = [codes EXCEPT !.mode = "WASH"]
            ELSE codes' = [codes EXCEPT !.mode = "BADCODE"]
    /\ UNCHANGED <<z, outVars, blockVars, coding, r>> /\ Same
LenExt ==
    /\ InCodes("LENEXT") /\ Ready /\ Dump(codes.get)
    /\ codes' = [codes EXCEPT !.mode = "DIST", !.len = @ + (bit.b % 2^codes.get),
                              !.need = coding.bd, !.tree = 1]
    /\ UNCHANGED <<z, outVars, blockVars, coding, r>> /\ Same
Dist ==
    /\ InCodes("DIST") /\ Ready
    /\ \E t \in {CodeEntry(coding.td)} :
         /\ Dump(t.bits)
         /\ codes' = IF IsBase(t.exop)
                     THEN [codes EXCEPT !.mode = "DISTEXT", !.get = t.exop % 16, !.dist = t.base]
                     ELSE IF IsNext(t.exop) THEN NextTable(t) ELSE [codes EXCEPT !.mode = "BADCODE"]
    /\ UNCHANGED <<z, outVars, blockVars, coding, r>> /\ Same
DistExt ==
    /\ InCodes("DISTEXT") /\ Ready /\ Dump(codes.get)
    /\ codes' = [codes EXCEPT !.mode = "COPY", !.dist = @ + (bit.b % 2^codes.get)]
    /\ UNCHANGED <<z, outVars, blockVars, coding, r>> /\ Same
Copy ==
    /\ InCodes("COPY")
    /\ IF codes.len = 0
       THEN codes' = [codes EXCEPT !.mode = "START"] /\ UNCHANGED <<window, r>>
       ELSE /\ Room > 0 /\ window' = CopiedBack(window, codes.dist, 1) /\ r' = "Z_OK"
            /\ codes' = [codes EXCEPT !.len = @ - 1]
    /\ UNCHANGED <<inVars, out, blockVars, coding>> /\ Same
Lit ==
    /\ InCodes("LIT") /\ Room > 0 /\ window' = OUTBYTE(window, codes.lit) /\ r' = "Z_OK"
    /\ codes' = [codes EXCEPT !.mode = "START"]
    /\ UNCHANGED <<inVars, out, blockVars, coding>> /\ Same
BadCode ==
    /\ InCodes("BADCODE") /\ Leave("Z_DATA_ERROR")
    /\ UNCHANGED <<inVars, blockVars, codeVars, heap>>

(* A byte that was not needed is returned, though its buffer may be gone.  *)
GivesBack == last /\ bit.k >= W
\* Defect: the byte is kept.
KeptByte == [z |-> z, bit |-> bit]
GivenBack == IF GivesBack
             THEN [z |-> [z EXCEPT !.next = @ - 1, !.avail = @ + 1], bit |-> [bit EXCEPT !.k = @ - W]]
             ELSE [z |-> z, bit |-> bit]
(* WASH: the block ends when all of the window has been given out, or as   *)
(* inflate_fast has said so.                                               *)
Wash ==
    /\ InCodes("WASH")
    /\ \E f \in {Flushed(window, out)} :
         /\ window' = f.window /\ out' = f.out
         /\ IF f.window.read # f.window.write /\ r # "Z_STREAM_END"
            THEN /\ r' = IF f.n > 0 /\ r = "Z_BUF_ERROR" THEN "Z_OK" ELSE r
                 /\ call' = "idle" /\ UNCHANGED <<stream, inVars, blockVars, codeVars, heap>>
            ELSE /\ mem' = mem \ {"codes", "tl", "td"}
                 /\ codes' = NoCodes /\ coding' = NoCoding
                 /\ To(Ended) /\ r' = "Z_OK"
                 /\ z' = GivenBack.z /\ bit' = GivenBack.bit
                 /\ call' = IF GivesBack /\ z.next = z.begin THEN "astray" ELSE call
                 /\ UNCHANGED <<stream, trees, failures>>
(* DRY, DONE, and inflate: the state is reset, and there is no trailer.    *)
Dry ==
    /\ Turn("DRY")
    /\ \E f \in {Flushed(window, out)} :
         /\ out' = f.out
         /\ IF f.window.read # f.window.write
            THEN /\ window' = f.window /\ r' = IF f.n > 0 /\ r = "Z_BUF_ERROR" THEN "Z_OK" ELSE r
                 /\ UNCHANGED <<bit, mode, last>>
            ELSE /\ window' = [f.window EXCEPT !.read = 0, !.write = 0]
                 /\ bit' = [b |-> 0, k |-> 0] /\ r' = "Z_STREAM_END" /\ To("TYPE")
    /\ call' = "idle" /\ UNCHANGED <<stream, z, trees, codeVars, heap>>
(* inflateEnd, of a file that is closed.                                   *)
\* Defect: the trees of a block are forgotten.
FreedCodes(m) == IF m \in {"BTREE", "DTREE"} THEN {"blens"} ELSE IF m = "CODES" THEN {"codes"} ELSE {}
Freed(m) == IF m \in {"BTREE", "DTREE"} THEN {"blens"}
            ELSE IF m = "CODES" THEN {"codes", "tl", "td"} ELSE {}
inflateEnd ==
    /\ call = "idle" /\ call' = "ended"
    /\ mem' = mem \ Freed(mode)
    /\ UNCHANGED <<stream, inVars, outVars, blockVars, codeVars, failures, r>>
-----------------------------------------------------------------------------
(* inflate_fast: a symbol at a time while there is room for the longest    *)
(* copy and input for the longest pair.                                    *)

(* s is the input and the bit buffer.                                      *)
Grabbed(s, j) ==
    LET n == IF s.bit.k >= j THEN 0 ELSE (j - s.bit.k + W - 1) \div W
    IN  [z   |-> [s.z EXCEPT !.next = @ + n, !.avail = @ - n],
         bit |-> [b |-> s.bit.b + MapThenSumSet(
                          LAMBDA i : stream.bytes[s.z.next + i] * 2^(s.bit.k + W * (i - 1)), 1 .. n),
                  k |-> s.bit.k + W * n]]
Drop(s, n) == [s EXCEPT !.bit = Dumped(@, n)]
(* The bits that are given back stay in b: they are those of the bytes.    *)
UNGRAB(s) ==
    LET c == s.bit.k \div W
    IN  [z |-> [s.z EXCEPT !.next = @ - c, !.avail = @ + c],
         bit |-> [b |-> s.bit.b % 2^(s.bit.k % W), k |-> s.bit.k % W]]

(* The entry a code leads to, and the input after it.                      *)
Resolved(tables, q, need, s) ==
    LET found[p \in DOMAIN tables, n \in Nat, dropped \in Nat] ==
          LET t == tables[p][Dumped(s.bit, dropped).b % 2^n]
              after == dropped + t.bits
          IN  IF IsBase(t.exop) \/ t.exop = 0 \/ ~IsNext(t.exop)
              THEN [exop |-> t.exop, base |-> t.base, s |-> Drop(s, after)]
              ELSE found[t.base, t.exop, after]
    IN  found[q, need, 0]

Fast(kind, s, w) == [kind |-> kind, s |-> s, window |-> w]
FastCopy(len, dist, s, w) ==
    IF len = 0 THEN Fast("astray", s, w) ELSE Fast("on", s, CopiedBack(w, dist, len))
FastDistance(len, d, w) ==
    IF ~IsBase(d.exop) THEN Fast("BADCODE", d.s, w)
    ELSE LET x == Grabbed(d.s, d.exop % 16)
         IN  FastCopy(len, d.base + (x.bit.b % 2^(d.exop % 16)), Drop(x, d.exop % 16), w)
FastLength(len, s, w) ==
    IF coding.td = <<>> THEN Fast("astray", s, w)
    ELSE FastDistance(len, Resolved(coding.td, 1, coding.bd, Grabbed(s, GrabDist)), w)
FastSymbol(c, w) ==
    IF c.exop = 0 THEN Fast("on", c.s, OUTBYTE(w, c.base))
    ELSE IF IsBase(c.exop)
    THEN FastLength(c.base + (c.s.bit.b % 2^(c.exop % 16)), Drop(c.s, c.exop % 16), w)
    ELSE IF IsEnd(c.exop) THEN Fast("WASH", c.s, w) ELSE Fast("BADCODE", c.s, w)
FastTurn ==
    /\ InCodes("FAST") /\ coding.tl # <<>>
    /\ \E f \in {FastSymbol(Resolved(coding.tl, 1, coding.bl,
                                     Grabbed([z |-> z, bit |-> bit], GrabCode)), window)} :
         LET on == f.kind = "on" /\ WAVAIL(f.window) >= FastOut /\ f.s.z.avail >= FastIn
             s  == IF on THEN f.s ELSE UNGRAB(f.s)
         IN  /\ window' = f.window /\ z' = s.z /\ bit' = s.bit
             /\ codes' = IF on THEN codes
                         ELSE IF f.kind = "on"
                         THEN [codes EXCEPT !.mode = "LEN", !.need = coding.bl, !.tree = 1]
                         ELSE [codes EXCEPT !.mode = f.kind]
             /\ r' = IF f.kind = "BADCODE" THEN "Z_DATA_ERROR"
                     ELSE IF f.kind = "WASH" THEN "Z_STREAM_END" ELSE "Z_OK"
             /\ call' = IF f.kind = "astray" \/ s.z.next < z.begin THEN "astray" ELSE call
    /\ UNCHANGED <<stream, out, blockVars, coding, heap>>

(* A code is looked up in a table that does not exist.                     *)
NullLookup ==
    /\ \/ call = "blocks" /\ NullTable
       \/ InCodes("FAST") /\ coding.tl = <<>>
    /\ call' = "astray"
    /\ UNCHANGED <<stream, inVars, outVars, blockVars, codeVars, heap, r>>

Turns == \/ NextByte \/ NoByte \/ MakeRoom
         \/ TypeStored \/ TypeFixed \/ TypeDynamic \/ BadType
         \/ LensRead \/ StoredCopy \/ StoredStarved
         \/ TableRead \/ CodeLength \/ BitsTree \/ SymbolLength \/ RepeatLength \/ DynamicTrees
         \/ Start \/ LengthOrLiteral \/ LenExt \/ Dist \/ DistExt \/ Copy \/ Lit \/ BadCode
         \/ Wash \/ Dry \/ FastTurn \/ NullLookup
Next == inflate \/ Turns \/ inflateEnd
Spec == Init /\ [][Next]_vars /\ WF_vars(Turns)
-----------------------------------------------------------------------------
(* However a stream is cut into calls and buffers, what is given out is    *)
(* what its bits mean, in order, up to where it ends or is found to be bad.*)
(* (infblock.c, infcodes.c, inffast.c, infutil.c and the tables)           *)
OutputRight ==
    call # "astray" /\ stream.means.kind # "any" =>
        /\ Len(out.bytes) <= Len(stream.means.out)
        /\ \A i \in DOMAIN out.bytes : out.bytes[i] = stream.means.out[i]

(* The end is reported when all has been given out, with the next byte of  *)
(* input the first after the stream, where the checksum is; an error, only *)
(* of a stream that is bad.  (infblock.c's DRY and DONE)                   *)
EndRight ==
    call # "astray" /\ stream.means.kind # "any" =>
        /\ r = "Z_STREAM_END" /\ call # "blocks" =>
             stream.means.kind = "is" /\ out.bytes = stream.means.out /\ z.next = stream.means.size
        /\ r = "Z_DATA_ERROR" => stream.means.kind = "bad"

Owned ==
    CASE mode = "BTREE" -> {{"blens"}}
      [] mode = "DTREE" -> {{"blens"} \cup IF trees.tb = <<>> THEN {} ELSE {"tb"}}
      [] mode = "CODES" -> {{"codes"}, {"codes", "tl"}, {"codes", "td"}, {"codes", "tl", "td"}}
      [] mode = "BAD"   -> SUBSET {"blens", "tb"}
      [] OTHER -> {{}}

(* At every moment what is allocated is what the mode will free, and after *)
(* inflateEnd nothing is but the lengths, and the tree of lengths, of a    *)
(* block whose trees could not be made or were never finished.             *)
MemoryHeld == IF call = "ended" THEN mem \subseteq {"blens", "tb"} ELSE mem \in Owned

(* "can always return one" (infblock.c:361): the byte that the decoder     *)
(* gives back at the end of the last block is in the caller's buffer.      *)
CanReturnOne ==
    [][codes.mode = "WASH" /\ mode = "CODES" /\ mode' = "DRY" => z'.next >= z'.begin]_vars
=============================================================================
