---------------------------- MODULE InflateTrees ----------------------------
(***************************************************************************)
(* inftrees.c: the tables by which Inflate looks a code up, a few bits at  *)
(* a time, made from the lengths of the codes.                             *)
(*                                                                         *)
(* A tree is a sequence of tables in the order they are made, the first    *)
(* its root; the empty one is Z_NULL.  An entry says how many bits to drop *)
(* and, by the bits of exop, what was found: a table to go on with, a      *)
(* literal, a base to which extra bits are added, an end or an error.      *)
(***************************************************************************)
EXTENDS Deflate

CONSTANTS lbits, dbits, bb,     \* 9, 6, 7: most bits looked up at a time
          fixed_bl, fixed_bd    \* 7, 5: and in a fixed block

Byte(n)  == n % 256
IsBase(e) == (e \div 16) % 2 = 1
IsNext(e) == (e \div 64) % 2 = 0        \* of those that are not IsBase
IsEnd(e)  == (e \div 32) % 2 = 1
Count(b, k) == Cardinality({v \in DOMAIN b : b[v] = k})

(* The size of a table for codes of k - w of its bits, of which this is    *)
(* one and a are left: as many bits as its prefix's codes use up, up to z. *)
TableBits(c, kw, w, z, a) ==
    LET Left(j) == 2^j - (a + 1) * 2^(j - kw)
                   - MapThenSumSet(LAMBDA t : c[w + t] * 2^(j - t), kw + 1 .. j)
    IN  Min({j \in kw .. z : Left(j) <= 0} \cup {z})

(* Tables down to the level of a code of k bits, each linked to the last:  *)
(* a table has at least one of them.                                       *)
Deeper(t, k, a, c, g, l) ==
    IF k <= t.w + l THEN t
    ELSE LET w == t.w + l
             j == TableBits(c, k - w, w, Min({g - w, l}), a)
             q == Len(t.tables) + 1
             linked == IF t.u = <<>> THEN t.tables
                       ELSE [t.tables EXCEPT ![Last(t.u)][t.i \div 2^(w - l)] =
                               [bits |-> l, exop |-> j, base |-> q]]
             table == [y \in 0 .. 2^j - 1 |-> [bits |-> 0, exop |-> 0, base |-> 0]]
         IN  [t EXCEPT !.w = w, !.tables = Append(linked, table),
                       !.x = Append(@, t.i), !.u = Append(@, q)]
Deepened(t, k, a, c, g, l) ==
    LET down[n \in 0 .. k] == IF n = 0 THEN t ELSE Deeper(down[n - 1], k, a, c, g, l)
    IN  down[k]

(* Codes count up from their greatest bit, which is the last of i.         *)
Incremented(i, k) ==
    LET clear == {e \in 0 .. k - 1 : (i \div 2^e) % 2 = 0}
    IN  IF clear = {} THEN 0 ELSE (i % 2^Max(clear)) + 2^Max(clear)
BackedUp(t, l) ==
    LET h == Max({h \in DOMAIN t.x : (t.i % 2^(l * (h - 1))) = t.x[h]})
    IN  [t EXCEPT !.w = l * (h - 1), !.u = SubSeq(@, 1, h), !.x = SubSeq(@, 1, h)]

(* The entry for the p-th code; there are codes for no symbol.             *)
Entry(t, bits, v, s, d, e) ==
    LET sym == v[t.p]
    IN  IF t.p > Len(v) THEN [bits |-> bits, exop |-> 128 + 64, base |-> t.base]
        ELSE IF sym < s
        THEN [bits |-> bits, exop |-> IF sym < EOB THEN 0 ELSE 32 + 64, base |-> sym]
        ELSE [bits |-> bits, exop |-> Byte(e[sym - s + 1] + 16 + 64), base |-> d[sym - s + 1]]
Placed(t, k, l, r) ==
    LET f == 2^(k - t.w)
        y0 == t.i \div 2^t.w
        q == Len(t.tables)
    IN  BackedUp([t EXCEPT !.tables[q] = [y \in DOMAIN @ |-> IF y >= y0 /\ (y - y0) % f = 0
                                                             THEN r ELSE @[y]],
                           !.p = @ + 1, !.base = r.base, !.i = Incremented(@, k)], l)

huft_build(b, s, d, e, m) ==
    LET used == {k \in 1 .. BMAX : Count(b, k) > 0}
        g == Max(used)
        l == Min({Max({m, Min(used)}), g})
        y == 2^g - MapThenSumSet(LAMBDA k : Count(b, k) * 2^(g - k), used)
        c == [k \in 1 .. g |-> Count(b, k) + IF k = g THEN y ELSE 0]
        v == SetToSortSeq({s1 \in DOMAIN b : b[s1] > 0},
                          LAMBDA s1, s2 : b[s1] < b[s2] \/ (b[s1] = b[s2] /\ s1 < s2))
        codes == FlattenSeq([k \in 1 .. g |-> [n \in 1 .. c[k] |-> [k |-> k, a |-> c[k] - n]]])
        Put(t, code) ==
            LET deep == Deepened(t, code.k, code.a, c, g, l)
            IN  Placed(deep, code.k, l, Entry(deep, code.k - deep.w, v, s, d, e))
        none == [i |-> 0, p |-> 1, base |-> 0, w |-> -l, tables |-> <<>>, x |-> <<>>, u |-> <<>>]
    IN  IF used = {} THEN [r |-> "Z_OK", tree |-> <<>>, m |-> 0]
        ELSE IF y < 0 THEN [r |-> "Z_DATA_ERROR", tree |-> <<>>, m |-> l]
        ELSE [r |-> IF y # 0 /\ g # 1 THEN "Z_BUF_ERROR" ELSE "Z_OK",
              tree |-> FoldLeft(Put, none, codes).tables, m |-> l]

(* An incomplete set of lengths is refused like an oversubscribed one.     *)
Refused(t) == IF t.r = "Z_OK" THEN t ELSE [r |-> "Z_DATA_ERROR", tree |-> <<>>, m |-> t.m]
inflate_trees_bits(c) == Refused(huft_build(c, Len(border), <<>>, <<>>, bb))
inflate_trees_dynamic(nl, nd, c) ==
    LET tl == Refused(huft_build([s \in 0 .. nl - 1 |-> c[s]], EOB + 1, cplens, cplext, lbits))
        td == Refused(huft_build([s \in 0 .. nd - 1 |-> c[nl + s]], 0, cpdist, cpdext, dbits))
    IN  [r |-> IF tl.r = "Z_OK" THEN td.r ELSE tl.r,
         bl |-> tl.m, bd |-> td.m, tl |-> tl.tree, td |-> td.tree]
inflate_trees_fixed ==
    LET tl == huft_build(FixedLens, EOB + 1, cplens, cplext, fixed_bl)
        td == huft_build(FixedDist, 0, cpdist, cpdext, fixed_bd)
    IN  [bl |-> tl.m, bd |-> td.m, tl |-> tl.tree, td |-> td.tree]
=============================================================================
