------------------------------- MODULE Deflate -------------------------------
(***************************************************************************)
(* The compressed format as zlib's tables give it, with its sizes as       *)
(* constants, and what a stream of it means: the reference against which   *)
(* Inflate is checked.  A stream is read here bit by bit and a code is     *)
(* looked up by its definition, with no tables, windows or buffers.        *)
(***************************************************************************)
EXTENDS Integers, Sequences, FiniteSets, FiniteSetsExt, SequencesExt

CONSTANTS               \* in deflate:
    W,                  \* 8: bits of a byte
    LenBits,            \* 16: bits of a stored block's length
    EOB,                \* 256: the end of block, after the literals
    cplens, cplext,     \* base and extra bits of the lengths after it
    cpdist, cpdext,     \* and of the distances
    FixedLens, FixedDist, \* code lengths of a fixed block, [0 .. n - 1 -> Nat]
    HLIT, HDIST, HCLEN, \* 5, 5, 4: bits of a dynamic block's three counts
    MaxSyms,            \* 29: greatest of the first two
    MinCounts,          \* 4: code lengths there are at least for the code lengths
    CLBits,             \* 3: bits of one of those
    border,             \* their order
    Plain,              \* 16: the lengths below are code lengths, the rest repeat one
    RepeatBits, RepeatBase,   \* 16..18: extra bits, and base, of a repeat count
    BMAX                \* 15: greatest length of a code

ASSUME FormatAssumption ==
    /\ {W, LenBits, EOB, HLIT, HDIST, HCLEN, CLBits, BMAX, Plain} \subseteq Nat \ {0}
    /\ Len(cplens) = Len(cplext) /\ Len(cpdist) = Len(cpdext)
    /\ DOMAIN RepeatBits = Plain .. Len(border) - 1 /\ DOMAIN RepeatBase = DOMAIN RepeatBits
    /\ {border[i] : i \in DOMAIN border} = 0 .. Len(border) - 1

Invalid == 192          \* cplext of a length that is not one
Junk    == 2^W          \* what memory holds before it is written
-----------------------------------------------------------------------------
(* Canonical codes: the shorter first, and those of a length in order.     *)

Coded(lens) == {s \in DOMAIN lens : lens[s] > 0}
Longest(lens) == Max({lens[s] : s \in Coded(lens)})
Code(lens, s) ==
    MapThenSumSet(LAMBDA t : 2^(lens[s] - lens[t]), {t \in Coded(lens) : lens[t] < lens[s]})
    + Cardinality({t \in Coded(lens) : lens[t] = lens[s] /\ t < s})
Used(lens) == MapThenSumSet(LAMBDA s : 2^(BMAX - lens[s]), Coded(lens))
(* Complete, or empty, or one code of a single bit.                        *)
Usable(lens) ==
    \/ Used(lens) = 2^BMAX \/ Coded(lens) = {}
    \/ Used(lens) < 2^BMAX /\ Longest(lens) = 1

(* Numbers have their least bit first, codes their greatest.               *)
Number(bits, at, n) == MapThenSumSet(LAMBDA i : bits[at + i] * 2^(i - 1), 1 .. n)
CodeAt(bits, at, n) == MapThenSumSet(LAMBDA i : bits[at + i] * 2^(n - i), 1 .. n)
BitsOf(bytes) ==
    [i \in 1 .. W * Len(bytes) |-> (bytes[1 + (i - 1) \div W] \div 2^((i - 1) % W)) % 2]
-----------------------------------------------------------------------------
(* A reading of a stream: up to which bit, with what output, the last      *)
(* number or symbol read and the code lengths; whether that much "is"      *)
(* there, needs "more" bits, is "bad", or is what the format says nothing  *)
(* of ("any").                                                             *)

Reading == [kind : {"is", "more", "bad", "any"}, at : Nat, out : Seq(Nat), val : Nat,
            lens : Seq(Nat)]
FromStart == [kind |-> "is", at |-> 0, out |-> <<>>, val |-> 0, lens |-> <<>>]
As(kind, p) == [p EXCEPT !.kind = kind]
Then(p, F(_)) == IF p.kind = "is" THEN F(p) ELSE p
Out(p, bytes) == [p EXCEPT !.out = @ \o bytes]

Bits(bits, p, n) ==
    IF p.at + n > Len(bits) THEN As("more", p)
    ELSE [p EXCEPT !.val = Number(bits, p.at, n), !.at = @ + n]
SymbolsAt(bits, at, lens) ==
    {s \in Coded(lens) : at + lens[s] <= Len(bits) /\ CodeAt(bits, at, lens[s]) = Code(lens, s)}
Symbol(bits, p, lens, wrong) ==
    IF Coded(lens) = {} THEN As("any", p)
    ELSE LET One(found) ==
               IF found = {} THEN As(IF p.at + Longest(lens) > Len(bits) THEN "more" ELSE wrong, p)
               ELSE LET s == CHOOSE s \in found : TRUE IN [p EXCEPT !.val = s, !.at = @ + lens[s]]
         IN  One(SymbolsAt(bits, p.at, lens))

Copied(out, len, dist) ==
    [i \in 1 .. len |-> LET from == Len(out) - dist + 1 + ((i - 1) % dist)
                        IN  IF from > 0 THEN out[from] ELSE Junk]
(* The symbols of a block, up to its end.                                  *)
Symbols(bits, p, ll, dl) ==
    LET rest[q \in Reading] ==
          Then(Symbol(bits, q, ll, "bad"), LAMBDA s :
            IF s.val < EOB THEN rest[Out(s, <<s.val>>)]
            ELSE IF s.val = EOB THEN s
            ELSE IF cplext[s.val - EOB] = Invalid THEN As("any", s)
            ELSE Then(Bits(bits, s, cplext[s.val - EOB]), LAMBDA x :
                 Then(Symbol(bits, x, dl, "bad"), LAMBDA d :
                 Then(Bits(bits, d, cpdext[d.val + 1]), LAMBDA y :
                   rest[Out(y, Copied(y.out, cplens[s.val - EOB] + x.val,
                                      cpdist[d.val + 1] + y.val))]))))
    IN  rest[p]

(* The code lengths of a dynamic block.                                    *)
Repeated(p, sym, n, want) ==
    IF Len(p.lens) + n > want \/ (sym = Plain /\ p.lens = <<>>) THEN As("bad", p)
    ELSE [p EXCEPT !.lens = @ \o [i \in 1 .. n |-> IF sym = Plain THEN Last(@) ELSE 0]]
Lengths(bits, p, cl, want) ==
    LET rest[q \in Reading] ==
          IF Len(q.lens) = want THEN q
          ELSE Then(Symbol(bits, q, cl, "any"), LAMBDA s :
               Then(IF s.val < Plain THEN [s EXCEPT !.lens = Append(@, s.val)]
                    ELSE Then(Bits(bits, s, RepeatBits[s.val]), LAMBDA x :
                           Repeated(x, s.val, RepeatBase[s.val] + x.val, want)),
                    LAMBDA y : rest[y]))
    IN  rest[p]

Contents(bits, p, ll, dl) ==
    IF Usable(ll) /\ Usable(dl) THEN Symbols(bits, p, ll, dl) ELSE As("bad", p)
Coding(bits, p, cl, nl, nd) ==
    IF ~Usable(cl) THEN As("bad", p)
    ELSE Then(Lengths(bits, [p EXCEPT !.lens = <<>>], cl, nl + nd), LAMBDA x :
           Contents(bits, x, [s \in 0 .. nl - 1 |-> x.lens[s + 1]], [s \in 0 .. nd - 1 |-> x.lens[nl + s + 1]]))
CodeLengthsAt(bits, at, n) ==
    [s \in 0 .. Len(border) - 1 |->
       LET i == CHOOSE i \in DOMAIN border : border[i] = s
       IN  IF i <= n THEN Number(bits, at + (i - 1) * CLBits, CLBits) ELSE 0]
Dynamic(bits, p) ==
    Then(Bits(bits, p, HLIT), LAMBDA l :
    Then(Bits(bits, l, HDIST), LAMBDA d :
    Then(Bits(bits, d, HCLEN), LAMBDA c :
      IF l.val > MaxSyms \/ d.val > MaxSyms THEN As("bad", c)
      ELSE Then(Bits(bits, c, (MinCounts + c.val) * CLBits), LAMBDA x :
             Coding(bits, x, CodeLengthsAt(bits, c.at, MinCounts + c.val), EOB + 1 + l.val, 1 + d.val)))))

BytesAt(bits, p, n) ==
    [Out(p, [i \in 1 .. n |-> Number(bits, p.at + (i - 1) * W, W)]) EXCEPT !.at = @ + n * W]
Stored(bits, p) ==
    Then(Bits(bits, [p EXCEPT !.at = W * ((@ + W - 1) \div W)], LenBits), LAMBDA n :
    Then(Bits(bits, n, LenBits), LAMBDA m :
      LET there == (Len(bits) - m.at) \div W
      IN  IF n.val + m.val # 2^LenBits - 1 THEN As("bad", m)
          ELSE IF n.val > there THEN As("more", BytesAt(bits, m, there))
          ELSE BytesAt(bits, m, n.val)))

Block(bits, p) ==
    CASE p.val = 0 -> Stored(bits, p)
      [] p.val = 1 -> Symbols(bits, p, FixedLens, FixedDist)
      [] p.val = 2 -> Dynamic(bits, p)
      [] OTHER -> As("bad", p)
Blocks(bits, p) ==
    LET rest[q \in Reading] ==
          Then(Bits(bits, q, 1), LAMBDA f :
          Then(Bits(bits, f, 2), LAMBDA t :
          Then(Block(bits, t), LAMBDA b : IF f.val = 1 THEN b ELSE rest[b])))
    IN  rest[p]

(* The output of a stream, and how it ends; of one that is whole, the      *)
(* number of its bytes.                                                    *)
Meaning(bytes) ==
    LET Told(p) == [kind |-> p.kind, out |-> p.out, size |-> (p.at + W - 1) \div W]
    IN  Told(Blocks(BitsOf(bytes), FromStart))
=============================================================================
