------------------------------ MODULE MCInflate ------------------------------
(***************************************************************************)
(* Inflate over a format of the same shape as deflate's but with bytes of  *)
(* four bits, two literals, and three lengths and distances: its tables    *)
(* have more than one level and its window wraps within a few bytes.       *)
(***************************************************************************)
EXTENDS Inflate

MCcplens == <<3, 4, 0>>
MCcplext == <<0, 1, Invalid>>
MCcpdist == <<1, 2, 3>>
MCcpdext == <<0, 0, 1>>
MCFixedLens == [s \in 0 .. 5 |-> IF s \in {2, 3} THEN 2 ELSE 3]
MCFixedDist == [s \in 0 .. 2 |-> 2]
MCborder == <<4, 5, 6, 0, 2, 1, 3>>
MCRepeatBits == [s \in 4 .. 6 |-> IF s = 6 THEN 2 ELSE 1]
MCRepeatBase == [s \in 4 .. 6 |-> IF s = 6 THEN 4 ELSE 2]
-----------------------------------------------------------------------------
(* Streams are written bit by bit.                                         *)

Low(n, w) == [i \in 1 .. w |-> (n \div 2^(i - 1)) % 2]
Sym(lens, s) == Reverse(Low(Code(lens, s), lens[s]))
Padded(bits) == bits \o [i \in 1 .. (W - (Len(bits) % W)) % W |-> 0]
Written(bits) == [i \in 1 .. Len(bits) \div W |-> Number(bits, (i - 1) * W, W)]

(* Of a block's contents an item is a literal, or a length and a distance  *)
(* by their indices, each with its extra bits.                             *)
Item(ll, dl, x) ==
    IF Len(x) = 1 THEN Sym(ll, x[1])
    ELSE Sym(ll, EOB + x[1]) \o Low(x[2], cplext[x[1]]) \o Sym(dl, x[3] - 1) \o Low(x[4], cpdext[x[3]])
Body(ll, dl, what) ==
    FlattenSeq([i \in DOMAIN what |-> Item(ll, dl, what[i])]) \o Sym(ll, EOB)

FixedBlock(final, what) == <<final, 1, 0>> \o Body(FixedLens, FixedDist, what)
StoredBlock(before, final, bytes) ==
    Padded(before \o <<final, 0, 0>>) \o Low(Len(bytes), LenBits)
    \o Low(2^LenBits - 1 - Len(bytes), LenBits)
    \o FlattenSeq([i \in DOMAIN bytes |-> Low(bytes[i], W)])
(* `coded' are the lengths as they are written, a repeat with its extra    *)
(* bits.                                                                   *)
DynamicBlock(final, ll, dl, cl, coded, what) ==
    <<final, 0, 1>> \o Low(Cardinality(DOMAIN ll) - EOB - 1, HLIT)
    \o Low(Cardinality(DOMAIN dl) - 1, HDIST) \o Low(Len(border) - MinCounts, HCLEN)
    \o FlattenSeq([i \in DOMAIN border |-> Low(cl[border[i]], CLBits)])
    \o FlattenSeq([i \in DOMAIN coded |->
         Sym(cl, coded[i][1])
         \o IF Len(coded[i]) = 1 THEN <<>> ELSE Low(coded[i][2], RepeatBits[coded[i][1]])])
    \o Body(ll, dl, what)

From0(s) == [i \in 0 .. Len(s) - 1 |-> s[i + 1]]
Trailer == <<1, 0, 1, 1,  0, 1, 1, 0,  1, 1, 1, 0>>

(* Literals, and copies that overlap what they copy or reach too far back. *)
Fixed == FixedBlock(1, <<<<1>>, <<0>>, <<2, 1, 2, 0>>, <<1>>, <<2, 0, 3, 1>>, <<1, 0, 1, 0>>>>)
(* Copies enough to go round the window.                                   *)
Long == FixedBlock(1, <<<<1>>, <<0>>>> \o [i \in 1 .. 9 |-> <<2, 1, 1 + (i % 3), 0>>])
(* A stored block after one that ends within a byte, and before another.   *)
Mixed == StoredBlock(FixedBlock(0, <<<<1>>>>), 0, <<9, 2, 12>>) \o FixedBlock(1, <<<<1, 0, 3, 0>>>>)
StoredLast == StoredBlock(FixedBlock(0, <<>>), 1, <<5, 6>>)
(* Lengths that repeat, a table of two levels.                             *)
Repeating == DynamicBlock(1, From0(<<2, 2, 2, 3, 3>>), From0(<<1, 2, 2>>), From0(<<0, 3, 1, 3, 2, 0, 0>>),
                          <<<<2>>, <<4, 0>>, <<3>>, <<3>>, <<1>>, <<2>>, <<2>>>>,
                          <<<<0>>, <<1>>, <<1, 0, 2, 0>>, <<2, 1, 3, 1>>>>)
(* Two dynamic blocks, one of a single literal, one with no distances.     *)
Sparse == DynamicBlock(0, From0(<<0, 1, 1>>), From0(<<1>>), From0(<<2, 1, 0, 0, 0, 2, 0>>),
                       <<<<0>>, <<1>>, <<1>>, <<1>>>>, <<<<1>>, <<1>>>>)
          \o DynamicBlock(1, From0(<<0, 0, 1, 0, 0>>), From0(<<0>>), From0(<<2, 1, 0, 0, 0, 2, 0>>),
                          <<<<5, 0>>, <<1>>, <<5, 1>>>>, <<>>)
(* An end of block so short that a whole byte after it is read with it.    *)
ShortEnd == DynamicBlock(1, From0(<<2, 2, 1>>), From0(<<1>>), From0(<<0, 1, 1, 0, 0, 0, 0>>),
                         <<<<2>>, <<2>>, <<1>>, <<1>>>>, <<<<1>>, <<0>>, <<1>>, <<0>>>>)

Flipped(bits) == {[bits EXCEPT ![i] = 1 - @] : i \in DOMAIN bits}
Short == {Fixed, Mixed, StoredLast, Repeating, Sparse, ShortEnd}
Meant(files) == {[bytes |-> bytes, means |-> Meaning(bytes)] : bytes \in files}
GoodStreams == Meant({Written(Padded(bits) \o Trailer) : bits \in Short \cup {Long}})
BadStreams == Meant({Written(Padded(bits)) : bits \in UNION {Flipped(bits) : bits \in Short}})
MCStreams == GoodStreams \cup BadStreams
=============================================================================
