------------------------- MODULE KernelLoad_proofs -------------------------
(***************************************************************************)
(* Proofs about KernelLoad, for every set of kernels, every address the    *)
(* Memory Manager may return and any number of boots.                      *)
(***************************************************************************)
EXTENDS KernelLoad, SequenceTheorems, TLAPS

-----------------------------------------------------------------------------
(* The parts of a kernel.                                                  *)

(* A part writes no more than the room it takes.                           *)
Fits(p) == /\ p.kind = "tail" => p.size + p.zero <= p.room
           /\ p.kind = "pad"  => /\ p.size = 0 /\ p.zero = 0
                                 /\ p.room \in {4, 4096, 8192}
           /\ (p.what = "segment") <=> (p.kind = "placed")
FitPart == {p \in Part : Fits(p)}
EndPart == {p \in FitPart : p.kind # "placed"}

(* Rounding up to a boundary that is used never goes down, and stays below *)
(* the next boundary.                                                      *)
LEMMA RoundUpBounds ==
    ASSUME NEW n \in Nat, NEW to \in Nat, to = 4 \/ to = 4096 \/ to = 8192
    PROVE  /\ RoundUp(n, to) \in Nat
           /\ n <= RoundUp(n, to) /\ RoundUp(n, to) < n + to
  <1>1. CASE to = 4
    BY <1>1, Z3 DEF RoundUp
  <1>2. CASE to = 4096
    BY <1>2, Z3 DEF RoundUp
  <1>3. CASE to = 8192
    BY <1>3, Z3 DEF RoundUp
  <1> QED
    BY <1>1, <1>2, <1>3

LEMMA RoundUpLong ==
    \A n \in Nat : RoundUp(n, SizeofLong) \in Nat /\ n <= RoundUp(n, SizeofLong)
  BY Z3 DEF RoundUp, SizeofLong

(* A part that goes to maxp fits when its bytes fit its room.              *)
LEMMA AppendedFits ==
    ASSUME NEW what \in Names, what # "segment",
           NEW flag \in Flags \cup {"ALWAYS", "NONE"},
           NEW size \in Nat, NEW zero \in Nat, NEW room \in Nat, size + zero <= room
    PROVE  Appended(what, flag, size, zero, room) \in EndPart
  BY DEF Appended, EndPart, FitPart, Part, Fits, Names, Flags

LEMMA PadFits ==
    ASSUME NEW flag \in Flags \cup {"ALWAYS", "NONE"}, NEW to \in {4, 4096, 8192}
    PROVE  Pad(flag, to) \in EndPart
  BY DEF Pad, Appended, EndPart, FitPart, Part, Fits, Names, Flags

(* A segment's part is where the program header places it.                 *)
LEMMA SegmentFits ==
    ASSUME NEW s \in Segment
    PROVE  SegmentPart(s) \in FitPart /\ SegmentPart(s).kind = "placed"
  BY DEF Segment, SegmentPart, FitPart, Part, Fits, Names, Flags, UpperOf

(* A section's part goes to the end, whether it is kept or not.            *)
LEMMA SectionFits ==
    ASSUME NEW k \in ElfKernel, NEW i \in 1 .. Len(k.sections)
    PROVE  SectionPart(k, i) \in EndPart
  <1> DEFINE s == k.sections[i]
  <1>1. s.type \in {"SYMTAB", "STRTAB", "SHSTRTAB", "OTHER"} /\ s.size \in Nat
    <2>1. k.sections \in Seq(Section)
      BY DEF ElfKernel
    <2>2. s \in Section
      BY <2>1, ElementOfSeq
    <2> QED
      BY <2>2 DEF Section
  <1>2. RoundUp(s.size, SizeofLong) \in Nat /\ s.size <= RoundUp(s.size, SizeofLong)
    <2> DEFINE n == s.size
    <2>1. n \in Nat
      BY <1>1
    <2> HIDE DEF n
    <2>2. RoundUp(n, SizeofLong) \in Nat /\ n <= RoundUp(n, SizeofLong)
      BY <2>1, RoundUpLong
    <2> QED
      BY <2>2 DEF n
  <1>3. s.type \in Names /\ s.type # "segment"
    BY <1>1 DEF Names
  <1>4. Appended(s.type, "NONE", 0, 0, 0) \in EndPart
    BY <1>3, AppendedFits DEF Flags
  <1>5. \A b \in {0, s.size} :
           Appended(s.type, "SYM", b, 0, RoundUp(s.size, SizeofLong)) \in EndPart
    <2> DEFINE t    == s.type
               n    == s.size
               room == RoundUp(s.size, SizeofLong)
    <2>1. t \in Names /\ t # "segment" /\ n \in Nat /\ room \in Nat /\ n <= room
      BY <1>1, <1>2, <1>3
    <2> HIDE DEF t, n, room
    <2>2. Appended(t, "SYM", n, 0, room) \in EndPart
      <3>1. n + 0 <= room
        BY <2>1
      <3> QED
        BY <2>1, <3>1, AppendedFits DEF Flags
    <2>3. Appended(t, "SYM", 0, 0, room) \in EndPart
      <3>1. 0 + 0 <= room
        BY <2>1
      <3> QED
        BY <2>1, <3>1, AppendedFits DEF Flags
    <2> QED
      BY <2>2, <2>3 DEF t, n, room
  <1> QED
    BY <1>4, <1>5 DEF SectionPart

(* An ELF kernel: its segments, then parts that go to the end.             *)
LEMMA ElfPartsFit ==
    ASSUME NEW k \in ElfKernel
    PROVE  /\ ElfParts(k) \in Seq(FitPart) /\ Len(ElfParts(k)) > 0
           /\ Len(k.segments) \in Nat /\ Len(k.segments) < Len(ElfParts(k))
           /\ \A i \in 1 .. Len(k.segments) : ElfParts(k)[i] = SegmentPart(k.segments[i])
           /\ \A i \in 1 .. Len(ElfParts(k)) :
                 i > Len(k.segments) => ElfParts(k)[i].kind # "placed"
  <1> DEFINE sz == Len(k.sections) * SizeofShdr
             A  == [i \in 1 .. Len(k.segments) |-> SegmentPart(k.segments[i])]
             H  == << Pad("ALWAYS", SizeofLong),
                      Appended("ehdr", "HDR", SizeofEhdr, 0, SizeofEhdr),
                      Appended("shdrs", "SYM", sz, 0, RoundUp(sz, SizeofLong)) >>
             S  == [i \in 1 .. Len(k.sections) |-> SectionPart(k, i)]
  <1>1. k.segments \in Seq(Segment) /\ k.sections \in Seq(Section)
    BY DEF ElfKernel
  <1>2. Len(k.segments) \in Nat /\ Len(k.sections) \in Nat
    BY <1>1, LenProperties
  <1>3. A \in Seq(FitPart) /\ Len(A) = Len(k.segments)
    <2>1. \A i \in 1 .. Len(k.segments) : SegmentPart(k.segments[i]) \in FitPart
      BY <1>1, ElementOfSeq, SegmentFits
    <2> QED
      BY <2>1, <1>2, IsASeq, LenProperties
  <1>4. S \in Seq(EndPart) /\ Len(S) = Len(k.sections)
    <2>1. \A i \in 1 .. Len(k.sections) : SectionPart(k, i) \in EndPart
      BY SectionFits
    <2> QED
      BY <2>1, <1>2, IsASeq, LenProperties
  <1>5. H \in Seq(EndPart) /\ Len(H) = 3
    <2>0. sz \in Nat
      BY <1>2 DEF SizeofShdr
    <2>1. RoundUp(sz, SizeofLong) \in Nat /\ sz <= RoundUp(sz, SizeofLong)
      <3> HIDE DEF sz
      <3> QED
        BY <2>0, RoundUpLong
    <2>2. Appended("shdrs", "SYM", sz, 0, RoundUp(sz, SizeofLong)) \in EndPart
      BY <2>0, <2>1, AppendedFits DEF Names, Flags
    <2>3. Appended("ehdr", "HDR", SizeofEhdr, 0, SizeofEhdr) \in EndPart
      BY AppendedFits DEF Names, Flags, SizeofEhdr
    <2>4. Pad("ALWAYS", SizeofLong) \in EndPart
      BY PadFits DEF SizeofLong
    <2> QED
      BY <2>2, <2>3, <2>4
  <1>6. H \in Seq(FitPart) /\ S \in Seq(FitPart)
    BY <1>4, <1>5, SeqMonotonic DEF EndPart
  <1> HIDE DEF A, H, S
  <1>7. /\ A \o H \in Seq(FitPart) /\ Len(A \o H) = Len(A) + Len(H)
        /\ \A i \in 1 .. Len(A) + Len(H) :
              (A \o H)[i] = IF i <= Len(A) THEN A[i] ELSE H[i - Len(A)]
    BY <1>3, <1>6, ConcatProperties
  <1>8. /\ (A \o H) \o S \in Seq(FitPart)
        /\ Len((A \o H) \o S) = Len(A \o H) + Len(S)
        /\ \A i \in 1 .. Len(A \o H) + Len(S) :
              ((A \o H) \o S)[i] = IF i <= Len(A \o H) THEN (A \o H)[i] ELSE S[i - Len(A \o H)]
    BY <1>6, <1>7, ConcatProperties
  <1>9. ElfParts(k) = (A \o H) \o S
    BY DEF ElfParts, A, H, S
  <1>len. /\ Len(A \o H) = Len(A) + 3 /\ Len(A) = Len(k.segments)
          /\ Len(A) \in Nat /\ Len(S) \in Nat
    BY <1>2, <1>3, <1>4, <1>5, <1>7
  <1>10. \A i \in 1 .. Len(k.segments) : ElfParts(k)[i] = SegmentPart(k.segments[i])
    <2> TAKE i \in 1 .. Len(k.segments)
    <2>1. ElfParts(k)[i] = (A \o H)[i]
      <3>1. i \in 1 .. Len(A \o H) + Len(S) /\ i <= Len(A \o H)
        BY <1>len
      <3> QED
        BY <3>1, <1>8, <1>9
    <2>2. (A \o H)[i] = A[i]
      BY <1>2, <1>3, <1>5, <1>7
    <2> QED
      BY <2>1, <2>2 DEF A
  <1>11. \A i \in 1 .. Len(ElfParts(k)) :
            i > Len(k.segments) => ElfParts(k)[i].kind # "placed"
    <2> SUFFICES ASSUME NEW i \in 1 .. Len(ElfParts(k)), i > Len(k.segments)
                 PROVE  ElfParts(k)[i] \in EndPart
      BY DEF EndPart
    <2>1. CASE i <= Len(A \o H)
      <3>1. ElfParts(k)[i] = H[i - Len(A)]
        <4>1. i \in 1 .. Len(A \o H) + Len(S) /\ ~(i <= Len(A))
          BY <1>len, <1>8, <1>9
        <4>2. ElfParts(k)[i] = (A \o H)[i]
          BY <4>1, <2>1, <1>8, <1>9
        <4>3. i \in 1 .. Len(A) + Len(H)
          BY <4>1, <2>1, <1>7
        <4> QED
          BY <4>1, <4>2, <4>3, <1>7
      <3>2. i - Len(A) \in 1 .. 3
        BY <2>1, <1>len
      <3> QED
        BY <3>1, <3>2, <1>5, ElementOfSeq
    <2>2. CASE i > Len(A \o H)
      <3>1. ElfParts(k)[i] = S[i - Len(A \o H)]
        BY <2>2, <1>2, <1>4, <1>7, <1>8, <1>9
      <3>2. i - Len(A \o H) \in 1 .. Len(S)
        BY <2>2, <1>2, <1>4, <1>7, <1>8, <1>9
      <3> QED
        BY <3>1, <3>2, <1>4, ElementOfSeq
    <2> QED
      BY <2>1, <2>2, <1>2, <1>7
  <1>12. Len(k.segments) < Len(ElfParts(k))
    BY <1>2, <1>3, <1>4, <1>5, <1>7, <1>8, <1>9
  <1> QED
    BY <1>2, <1>8, <1>9, <1>10, <1>11, <1>12

(* An a.out kernel: every part goes to the end.                            *)
LEMMA AoutPartsFit ==
    ASSUME NEW k \in AoutKernel, k.text >= SizeofExec
    PROVE  AoutParts(k) \in Seq(EndPart) /\ Len(AoutParts(k)) > 0
  <1> DEFINE sub == IF k.magic \in {"OMAGIC", "NMAGIC"} THEN 0 ELSE SizeofExec
             A == << Appended("exec", "HDR", sub, 0, sub),
                     Appended("text", "TEXT", k.text - sub, 0, k.text - sub) >>
             B == IF k.magic \in {"ZMAGIC", "NMAGIC"} THEN <<Pad("TEXTA", k.pagesz)>> ELSE <<>>
             C == << Appended("data", "DATA", k.data, 0, k.data),
                     Appended("bss", "BSS", 0, k.bss, k.bss),
                     Appended("symsize", "SYM", SizeofLong, 0, SizeofLong) >>
             D == IF k.syms = 0 THEN <<>>
                  ELSE << Appended("SYMTAB", "SYM", k.syms, 0, k.syms),
                          Appended("STRTAB", "SYM", k.strs, 0, k.strs) >>
  <1>1. /\ k.text \in Nat /\ k.data \in Nat /\ k.bss \in Nat /\ k.syms \in Nat
        /\ k.strs \in Nat /\ k.pagesz \in {4096, 8192}
    BY DEF AoutKernel
  <1>2. A \in Seq(EndPart) /\ Len(A) = 2
    <2>1. sub \in Nat /\ k.text - sub \in Nat
      BY <1>1 DEF SizeofExec
    <2>2. Appended("exec", "HDR", sub, 0, sub) \in EndPart
      BY <2>1, AppendedFits DEF Names, Flags
    <2>3. Appended("text", "TEXT", k.text - sub, 0, k.text - sub) \in EndPart
      BY <2>1, AppendedFits DEF Names, Flags
    <2> QED
      BY <2>2, <2>3
  <1>3. B \in Seq(EndPart)
    <2>1. Pad("TEXTA", k.pagesz) \in EndPart
      BY <1>1, PadFits DEF Names, Flags
    <2> QED
      BY <2>1
  <1>4. C \in Seq(EndPart) /\ Len(C) = 3
    <2>1. Appended("data", "DATA", k.data, 0, k.data) \in EndPart
      BY <1>1, AppendedFits DEF Names, Flags
    <2>2. Appended("bss", "BSS", 0, k.bss, k.bss) \in EndPart
      BY <1>1, AppendedFits DEF Names, Flags
    <2>3. Appended("symsize", "SYM", SizeofLong, 0, SizeofLong) \in EndPart
      BY AppendedFits DEF Names, Flags, SizeofLong
    <2> QED
      BY <2>1, <2>2, <2>3
  <1>5. D \in Seq(EndPart)
    <2>1. Appended("SYMTAB", "SYM", k.syms, 0, k.syms) \in EndPart
      BY <1>1, AppendedFits DEF Names, Flags
    <2>2. Appended("STRTAB", "SYM", k.strs, 0, k.strs) \in EndPart
      BY <1>1, AppendedFits DEF Names, Flags
    <2> QED
      BY <2>1, <2>2
  <1>6. AoutParts(k) = ((A \o B) \o C) \o D
    BY DEF AoutParts
  <1> HIDE DEF A, B, C, D
  <1>7. A \o B \in Seq(EndPart) /\ Len(A \o B) = Len(A) + Len(B)
    BY <1>2, <1>3, ConcatProperties
  <1>8. (A \o B) \o C \in Seq(EndPart) /\ Len((A \o B) \o C) = Len(A \o B) + Len(C)
    BY <1>4, <1>7, ConcatProperties
  <1>9. /\ ((A \o B) \o C) \o D \in Seq(EndPart)
        /\ Len(((A \o B) \o C) \o D) = Len((A \o B) \o C) + Len(D)
    BY <1>5, <1>8, ConcatProperties
  <1> QED
    BY <1>2, <1>3, <1>4, <1>5, <1>6, <1>7, <1>8, <1>9, LenProperties
-----------------------------------------------------------------------------
(* The inductive invariant.                                                *)

(* The two passes test the same flags, so what a part does to maxp does    *)
(* not depend on the pass.                                                 *)
Loaded(p) == p.flag = "ALWAYS" \/ p.flag \in Flags
After(p, m) == IF Loaded(p)
               THEN CASE p.kind = "placed" -> UpperOf(m, p.at + p.size + p.zero)
                      [] p.kind = "tail"   -> m + p.room
                      [] p.kind = "pad"    -> RoundUp(m, p.room)
               ELSE m
At(c, i) == IF i = 0 THEN 0 ELSE c[i]
CountedAt(i) == At(counted, i)
Total == CountedAt(Len(Parts))
HasBuffer == pass = "load" \/ phase \in {"loaded", "ready", "kernel"}

(* A pass is made while, and only while, the kernel is parsed.             *)
PassInv ==
    /\ phase = "parse" <=> pass # "none"
    /\ phase = "idle" \/ pass = "count" \/ phase = "counted" => buf = 0 /\ bufstart = 0

(* What the first pass counted after each part; a second pass, which does  *)
(* the same steps, is where the first one was.                             *)
CountInv ==
    phase # "idle" =>
        /\ Len(counted) = IF pass = "count" THEN part ELSE Len(Parts)
        /\ \A i \in 1 .. Len(counted) : counted[i] = After(Parts[i], CountedAt(i - 1))
        /\ \A i, j \in 0 .. Len(counted) : i <= j => CountedAt(i) <= CountedAt(j)
        /\ pass # "none" => maxp = CountedAt(part)

(* The second pass writes above the aligned buffer, and up to maxp.        *)
WriteInv ==
    phase # "idle" =>
        /\ ~HasBuffer => written = {}
        /\ \A w \in written : /\ bufstart <= w.from
                              /\ w.to <= bufstart + CountedAt(IF pass = "load" THEN part
                                                              ELSE Len(Parts))

(* As long as segments are left to read, only segments have been written.  *)
SegmentInv ==
    pass = "load" =>
        \A i \in part + 1 .. Len(Parts) :
            Parts[i].kind = "placed" => \A w \in written : w.what = "segment"

(* The marks: what is asked for covers what was counted, the second pass   *)
(* starts from the aligned buffer and ends where the first one did.        *)
MarksInv ==
    /\ phase = "counted" => Total <= kVec.end
    /\ pass = "load" => kVec.start = bufstart
    /\ phase \in {"loaded", "ready", "kernel"} => kVec.end = bufstart + Total

(* The block, less what the alignment took.                                *)
BlockInv ==
    pass = "load" \/ phase = "loaded" =>
        /\ len = blockLen - (bufstart - buf) /\ bufstart < buf + kernel.pagesz
        /\ Total + BufferRoom <= blockLen

(* The lowest address a segment was read to.                               *)
LowestInv ==
    /\ pass = "load" =>
         /\ kernel.fmt = "aout" => minp = 0
         /\ \A i \in 1 .. part : Parts[i].kind = "placed" /\ Loaded(Parts[i])
                                    => minp <= Parts[i].at
    /\ phase \in {"loaded", "ready", "kernel"} /\ LinkedAtZero(kernel) =>
         /\ kVec.start = bufstart /\ kVec.entry = kernel.entry
         /\ phase # "loaded" => boot_entry = kernel.entry

LoadInv == /\ TypeOK /\ PassInv /\ CountInv /\ WriteInv /\ SegmentInv /\ NothingOverwritten
           /\ MarksInv /\ BlockInv /\ BufferLayout /\ LowestInv

-----------------------------------------------------------------------------
(* Facts the steps rest on.                                                *)

(* The parts of a kernel a session can meet: some, all of them fitting,    *)
(* the placed ones first.                                                  *)
LEMMA PartsFit ==
    ASSUME NEW k \in Kernels
    PROVE  /\ PartsOf(k) \in Seq(FitPart)
           /\ Len(PartsOf(k)) \in Nat /\ Len(PartsOf(k)) > 0
           /\ \A i \in 1 .. Len(PartsOf(k)) : PartsOf(k)[i] \in FitPart
           /\ \A i, j \in 1 .. Len(PartsOf(k)) :
                 i <= j /\ PartsOf(k)[j].kind = "placed" => PartsOf(k)[i].kind = "placed"
  <1>1. k \in ElfKernel \/ k \in AoutKernel
    BY KernelsAssumption
  <1>2. CASE k \in ElfKernel
    <2>1. PartsOf(k) = ElfParts(k)
      BY <1>2 DEF PartsOf, ElfKernel
    <2>2. /\ ElfParts(k) \in Seq(FitPart) /\ Len(ElfParts(k)) > 0
          /\ Len(k.segments) \in Nat /\ k.segments \in Seq(Segment)
          /\ \A i \in 1 .. Len(k.segments) : ElfParts(k)[i] = SegmentPart(k.segments[i])
          /\ \A i \in 1 .. Len(ElfParts(k)) :
                i > Len(k.segments) => ElfParts(k)[i].kind # "placed"
      BY <1>2, ElfPartsFit DEF ElfKernel
    <2>3. Len(ElfParts(k)) \in Nat
      BY <2>2, LenProperties
    <2>4. \A i \in 1 .. Len(ElfParts(k)) : ElfParts(k)[i] \in FitPart
      BY <2>2, ElementOfSeq
    <2>5. \A i \in 1 .. Len(k.segments) : ElfParts(k)[i].kind = "placed"
      BY <2>2, ElementOfSeq, SegmentFits
    <2>6. \A i, j \in 1 .. Len(ElfParts(k)) :
             i <= j /\ ElfParts(k)[j].kind = "placed" => ElfParts(k)[i].kind = "placed"
      BY <2>2, <2>3, <2>5
    <2> QED
      BY <2>1, <2>2, <2>3, <2>4, <2>6
  <1>3. CASE k \in AoutKernel
    <2>1. PartsOf(k) = AoutParts(k) /\ k.text >= SizeofExec
      BY <1>3, TextAssumption DEF PartsOf, AoutKernel
    <2>2. AoutParts(k) \in Seq(EndPart) /\ Len(AoutParts(k)) > 0
      BY <1>3, <2>1, AoutPartsFit
    <2>3. Len(AoutParts(k)) \in Nat /\ AoutParts(k) \in Seq(FitPart)
      BY <2>2, LenProperties, SeqMonotonic DEF EndPart
    <2>4. \A i \in 1 .. Len(AoutParts(k)) : AoutParts(k)[i] \in EndPart
      BY <2>2, ElementOfSeq
    <2> QED
      BY <2>1, <2>2, <2>3, <2>4 DEF EndPart
  <1> QED
    BY <1>1, <1>2, <1>3

(* A kernel's fields.                                                      *)
LEMMA KernelFields ==
    ASSUME NEW k \in Kernels
    PROVE  /\ k.pagesz \in {4096, 8192} /\ k.entry \in Nat
           /\ k.fmt \in {"elf", "aout"}
           /\ k.fmt = "aout" => k.syms \in Nat
           /\ k.fmt = "elf" => k \in ElfKernel /\ FirstOffset(k) \in Nat
  <1>1. k \in ElfKernel \/ k \in AoutKernel
    BY KernelsAssumption
  <1>2. CASE k \in ElfKernel
    <2>1. k.sections \in Seq(Section)
      BY <1>2 DEF ElfKernel
    <2>2. Len(k.sections) \in Nat
      BY <2>1, LenProperties
    <2>3. SizeofEhdr + Len(k.sections) * SizeofShdr \in Nat
      BY <2>2 DEF SizeofEhdr, SizeofShdr
    <2>4. \A n \in Nat : RoundUp(n, SizeofLong) \in Nat
      BY RoundUpLong
    <2>5. FirstOffset(k) \in Nat
      BY <2>3, <2>4, Zenon DEF FirstOffset
    <2> QED
      BY <1>2, <2>5 DEF ElfKernel
  <1>3. CASE k \in AoutKernel
    BY <1>3 DEF AoutKernel
  <1> QED
    BY <1>1, <1>2, <1>3

(* A part that is loaded never moves maxp down, and its bytes end before   *)
(* the maxp after it.                                                      *)
LEMMA AfterBounds ==
    ASSUME NEW p \in FitPart, NEW m \in Nat
    PROVE  /\ After(p, m) \in Nat /\ m <= After(p, m)
           /\ Loaded(p) => (IF p.kind = "placed" THEN p.at ELSE m) + p.size + p.zero
                              <= After(p, m)
           /\ p.at \in Nat /\ p.size \in Nat /\ p.zero \in Nat /\ p.room \in Nat
           /\ p.what \in Names /\ ((p.what = "segment") <=> (p.kind = "placed"))
  <1>1. /\ p.kind \in {"placed", "tail", "pad"} /\ p.what \in Names
        /\ p.at \in Nat /\ p.size \in Nat /\ p.zero \in Nat /\ p.room \in Nat
    BY DEF FitPart, Part
  <1>2. Fits(p)
    BY DEF FitPart
  <1>3. CASE p.kind = "placed"
    BY <1>1, <1>2, <1>3 DEF Fits, After, UpperOf
  <1>4. CASE p.kind = "tail"
    BY <1>1, <1>2, <1>4 DEF Fits, After
  <1>5. CASE p.kind = "pad"
    <2>1. p.room \in {4, 4096, 8192} /\ p.size = 0 /\ p.zero = 0
      BY <1>2, <1>5 DEF Fits
    <2>2. RoundUp(m, p.room) \in Nat /\ m <= RoundUp(m, p.room)
      <3> DEFINE to == p.room
      <3>1. to \in {4, 4096, 8192}
        BY <2>1
      <3> HIDE DEF to
      <3>2. RoundUp(m, to) \in Nat /\ m <= RoundUp(m, to)
        BY <3>1, RoundUpBounds, Z3
      <3> QED
        BY <3>2 DEF to
    <2> QED
      BY <1>1, <1>2, <1>5, <2>1, <2>2 DEF Fits, After
  <1> QED
    BY <1>1, <1>3, <1>4, <1>5

-----------------------------------------------------------------------------
(* Each step preserves the invariant.                                      *)

LEMMA InitInv == Init => LoadInv
  <1> SUFFICES ASSUME Init PROVE LoadInv
    OBVIOUS
  <1> USE DEF Init
  <1>1. TypeOK
    <2>1. Len(Parts) \in Nat
      BY PartsFit DEF Parts
    <2>2. kernel.pagesz \in {4096, 8192}
      BY KernelFields
    <2>3. refused \in BOOLEAN
      OBVIOUS
    <2>4. bufstart \in buf .. buf + kernel.pagesz
      BY <2>2
    <2>5. kVec \in [start : Nat, entry : Int, nsym : Nat, sym : Nat, end : Nat]
      BY DEF NoMarks
    <2>6. tables \in [TableTypes -> Nat]
      BY DEF NoTables
    <2>7. part \in 0 .. Len(Parts) /\ boots \in 0 .. MaxBoots /\ blockLen \in 0 .. MaxMem
      BY <2>1, BoundsAssumption
    <2>8. counted \in Seq(Nat)
      OBVIOUS
    <2> QED
      BY <2>3, <2>4, <2>5, <2>6, <2>7, <2>8 DEF TypeOK
  <1>2. PassInv /\ CountInv /\ WriteInv /\ SegmentInv /\ NothingOverwritten
    BY DEF PassInv, CountInv, WriteInv, SegmentInv, NothingOverwritten
  <1>3. MarksInv /\ BlockInv /\ BufferLayout /\ LowestInv
    BY DEF MarksInv, BlockInv, BufferLayout, LowestInv
  <1> QED
    BY <1>1, <1>2, <1>3 DEF LoadInv

LEMMA BootInv == LoadInv /\ Boot => LoadInv'
  <1> SUFFICES ASSUME LoadInv, Boot PROVE LoadInv'
    OBVIOUS
  <1>1. TypeOK'
    <2>1. Len(Parts)' \in Nat
      BY PartsFit DEF Parts, Boot
    <2>2. kernel'.pagesz \in {4096, 8192} /\ (kernel'.fmt = "elf" => FirstOffset(kernel') \in Nat)
      BY KernelFields DEF Boot
    <2>3. NoAddress \in Nat
      BY SMT DEF NoAddress
    <2>4. refused' \in BOOLEAN
      BY DEF Boot
    <2>5. bufstart' \in buf' .. buf' + kernel'.pagesz
      BY <2>2 DEF LoadInv, PassInv, Boot, bufVars
    <2>6. tables' \in [TableTypes -> Nat]
      BY DEF NoTables, Boot, StartPass
    <2>7. part' \in 0 .. Len(Parts)' /\ boots' \in 0 .. MaxBoots /\ blockLen' \in 0 .. MaxMem
      BY <2>1, BoundsAssumption DEF LoadInv, TypeOK, Boot, StartPass
    <2>8. counted' \in Seq(Nat)
      BY DEF Boot
    <2>9. /\ kernel' \in Kernels /\ written' = {}
          /\ kVec' \in [start : Nat, entry : Int, nsym : Nat, sym : Nat, end : Nat]
          /\ symspace' \in Nat /\ strings' \in Nat
          /\ phase' = "parse" /\ pass' = "count"
      BY DEF LoadInv, TypeOK, Boot, StartPass
    <2>10. minp' \in Nat /\ maxp' \in Nat /\ symp' \in Nat /\ off' \in Nat
      BY <2>2, <2>3 DEF Boot, StartPass
    <2>11. buf' \in Blocks \cup {0} /\ len' \in Int /\ harry' \in Int /\ boot_entry' \in Int
      BY DEF LoadInv, TypeOK, Boot, bufVars
    <2> QED
      BY <2>4, <2>5, <2>6, <2>7, <2>8, <2>9, <2>10, <2>11 DEF TypeOK
  <1>2. PassInv'
    BY DEF LoadInv, PassInv, Boot, StartPass, bufVars
  <1>3. CountInv'
    BY DEF CountInv, CountedAt, At, Boot, StartPass
  <1>4. WriteInv' /\ SegmentInv' /\ NothingOverwritten'
    BY DEF WriteInv, SegmentInv, NothingOverwritten, HasBuffer, Boot, StartPass
  <1>5. MarksInv' /\ BlockInv' /\ BufferLayout' /\ LowestInv'
    BY DEF MarksInv, BlockInv, BufferLayout, LowestInv, Boot, StartPass
  <1> QED
    BY <1>1, <1>2, <1>3, <1>4, <1>5 DEF LoadInv

(* Every way a boot ends.                                                  *)
LEMMA EndInv == LoadInv /\ (ParseFails \/ Stop \/ Refuse) => LoadInv'
  <1> SUFFICES ASSUME LoadInv, ParseFails \/ Stop \/ Refuse PROVE LoadInv'
    OBVIOUS
  <1>1. /\ phase' = "idle" /\ pass' = "none" /\ buf' = 0 /\ bufstart' = 0
        /\ UNCHANGED <<kernel, boots, counted, written, blockLen, symspace, strings>>
    BY DEF ParseFails, Stop, Refuse, EndBoot, NoPass, NoBuffer, histVars
  <1>2. TypeOK'
    <2>1. Len(Parts)' \in Nat
      BY PartsFit DEF Parts, LoadInv, TypeOK, ParseFails, Stop, Refuse
    <2>2. kernel.pagesz \in {4096, 8192}
      BY KernelFields DEF LoadInv, TypeOK
    <2>3. kVec' \in [start : Nat, entry : Int, nsym : Nat, sym : Nat, end : Nat]
      <3>1. kVec \in [start : Nat, entry : Int, nsym : Nat, sym : Nat, end : Nat]
        BY DEF LoadInv, TypeOK
      <3>2. \/ kVec' = kVec
            \/ kVec' = [kVec EXCEPT !.entry = @ - kVec.start]
        BY DEF ParseFails, Stop, Refuse
      <3> QED
        BY <3>1, <3>2
    <2>4. refused' \in BOOLEAN
      BY DEF LoadInv, TypeOK, ParseFails, Stop, Refuse, histVars
    <2>5. /\ part' = 0 /\ minp' = 0 /\ maxp' = 0 /\ symp' = 0 /\ tables' = NoTables /\ off' = 0
          /\ len' = 0 /\ harry' = 0 /\ boot_entry' = 0
      BY DEF ParseFails, Stop, Refuse, EndBoot, NoPass, NoBuffer
    <2>6. bufstart' \in buf' .. buf' + kernel'.pagesz
      BY <1>1, <2>2
    <2>7. tables' \in [TableTypes -> Nat]
      BY <2>5 DEF NoTables
    <2>8. part' \in 0 .. Len(Parts)'
      BY <2>1, <2>5
    <2>9. /\ kernel' \in Kernels /\ symspace' \in Nat /\ strings' \in Nat
          /\ boots' \in 0 .. MaxBoots /\ counted' \in Seq(Nat) /\ blockLen' \in 0 .. MaxMem
          /\ \A w \in written' : w.what \in Names /\ w.from \in Nat /\ w.to \in Nat
      BY <1>1 DEF LoadInv, TypeOK
    <2>10. minp' \in Nat /\ maxp' \in Nat /\ symp' \in Nat /\ off' \in Nat
           /\ len' \in Int /\ harry' \in Int /\ boot_entry' \in Int
      BY <2>5
    <2> QED
      BY <1>1, <2>3, <2>4, <2>6, <2>7, <2>8, <2>9, <2>10 DEF TypeOK
  <1>3. PassInv' /\ CountInv' /\ WriteInv' /\ SegmentInv'
    BY <1>1 DEF PassInv, CountInv, WriteInv, SegmentInv
  <1>4. NothingOverwritten'
    BY <1>1 DEF LoadInv, NothingOverwritten
  <1>5. MarksInv' /\ BlockInv' /\ BufferLayout' /\ LowestInv'
    BY <1>1 DEF MarksInv, BlockInv, BufferLayout, LowestInv
  <1> QED
    BY <1>2, <1>3, <1>4, <1>5 DEF LoadInv

(* The kernel is entered, or nothing happens.                              *)
LEMMA EnterInv == LoadInv /\ (EnterKernel \/ UNCHANGED vars) => LoadInv'
  <1> SUFFICES ASSUME LoadInv, EnterKernel \/ UNCHANGED vars PROVE LoadInv'
    OBVIOUS
  <1>1. /\ phase' = phase \/ (phase = "ready" /\ phase' = "kernel")
        /\ UNCHANGED <<kernel, kVec, symspace, strings, boots, passVars, bufVars, histVars>>
    BY DEF EnterKernel, vars, passVars, bufVars, histVars
  <1> USE <1>1 DEF passVars, bufVars, histVars, Parts
  <1>2. TypeOK' /\ PassInv'
    BY DEF LoadInv, TypeOK, PassInv
  <1>3. CountInv'
    BY DEF LoadInv, CountInv, CountedAt, At
  <1>4. WriteInv' /\ SegmentInv' /\ NothingOverwritten'
    BY DEF LoadInv, WriteInv, SegmentInv, NothingOverwritten, HasBuffer, CountedAt, At
  <1>5. MarksInv' /\ BlockInv' /\ BufferLayout' /\ LowestInv'
    BY DEF LoadInv, MarksInv, BlockInv, BufferLayout, LowestInv, Total, CountedAt, At
  <1> QED
    BY <1>2, <1>3, <1>4, <1>5 DEF LoadInv

(* The marks of a pass, and the addresses they are made of.                *)
LEMMA MarksType ==
    ASSUME TypeOK
    PROVE  /\ Marks \in [start : Nat, entry : Int, nsym : Nat, sym : Nat, end : Nat]
           /\ Marks.end = kVec.start + maxp /\ Marks.start = kVec.start + minp
           /\ Marks.entry = (kVec.start + kernel.entry) - (kVec.start + minp)
           /\ kVec.start \in Nat /\ kVec.end \in Nat
           /\ buf \in Nat /\ bufstart \in Nat
           /\ kernel.pagesz \in {4096, 8192} /\ kernel.entry \in Nat
  <1>1. kVec.start \in Nat /\ kVec.end \in Nat
    BY DEF TypeOK
  <1>2. /\ kernel.pagesz \in {4096, 8192} /\ kernel.entry \in Nat
        /\ kernel.fmt = "aout" => kernel.syms \in Nat
    BY KernelFields DEF TypeOK
  <1>3. buf \in Nat /\ bufstart \in Nat
    BY <1>2, BlocksAssumption DEF TypeOK
  <1>4. minp \in Nat /\ maxp \in Nat /\ symp \in Nat
    BY DEF TypeOK
  <1> QED
    BY <1>1, <1>2, <1>3, <1>4 DEF Marks

(* The first pass ends: the marks cover what it counted.                   *)
LEMMA CountDoneInv == LoadInv /\ CountDone => LoadInv'
  <1> SUFFICES ASSUME LoadInv, CountDone PROVE LoadInv'
    OBVIOUS
  <1>1. /\ phase = "parse" /\ pass = "count" /\ part = Len(Parts)
        /\ kVec' = Marks /\ phase' = "counted" /\ pass' = "none" /\ part' = 0
        /\ minp' = 0 /\ maxp' = 0 /\ symp' = 0 /\ tables' = NoTables /\ off' = 0
        /\ UNCHANGED <<kernel, symspace, strings, boots, buf, bufstart, len, harry,
                       boot_entry, counted, written, blockLen, refused>>
    BY DEF CountDone, NoPass, bufVars, histVars
  <1>2. Parts' = Parts /\ kernel \in Kernels /\ Len(Parts) \in Nat
    BY <1>1, PartsFit DEF Parts, LoadInv, TypeOK
  <1>3. Marks \in [start : Nat, entry : Int, nsym : Nat, sym : Nat, end : Nat]
        /\ Marks.end = kVec.start + maxp
    BY <1>2, MarksType DEF LoadInv
  <1>4. TypeOK'
    BY <1>1, <1>2, <1>3 DEF LoadInv, TypeOK, NoTables
  <1>5. PassInv' /\ CountInv'
    BY <1>1, <1>2 DEF LoadInv, PassInv, CountInv, CountedAt, At
  <1>6. WriteInv' /\ SegmentInv' /\ NothingOverwritten'
    BY <1>1, <1>2 DEF LoadInv, WriteInv, SegmentInv, NothingOverwritten, HasBuffer
  <1>7. maxp = Total /\ maxp \in Nat /\ kVec.start \in Nat
    BY <1>1 DEF LoadInv, CountInv, Total, TypeOK
  <1>8. MarksInv'
    BY <1>1, <1>2, <1>3, <1>7 DEF MarksInv, Total, CountedAt, At
  <1>9. BlockInv' /\ BufferLayout' /\ LowestInv'
    BY <1>1 DEF BlockInv, BufferLayout, LowestInv
  <1> QED
    BY <1>4, <1>5, <1>6, <1>8, <1>9 DEF LoadInv

(* The second pass ends: at the size the first one counted.                *)
LEMMA LoadDoneInv == LoadInv /\ LoadDone => LoadInv'
  <1> SUFFICES ASSUME LoadInv, LoadDone PROVE LoadInv'
    OBVIOUS
  <1>1. /\ phase = "parse" /\ pass = "load" /\ part = Len(Parts)
        /\ kVec' = Marks /\ phase' = "loaded" /\ pass' = "none" /\ part' = 0
        /\ minp' = 0 /\ maxp' = 0 /\ symp' = 0 /\ tables' = NoTables /\ off' = 0
        /\ UNCHANGED <<kernel, boots, buf, bufstart, len, harry,
                       boot_entry, counted, written, blockLen, refused>>
    BY DEF LoadDone, NoPass, bufVars, histVars
  <1>2. Parts' = Parts /\ kernel \in Kernels /\ Len(Parts) \in Nat
    BY <1>1, PartsFit DEF Parts, LoadInv, TypeOK
  <1>3. Marks \in [start : Nat, entry : Int, nsym : Nat, sym : Nat, end : Nat]
        /\ Marks.end = kVec.start + maxp /\ Marks.start = kVec.start + minp
        /\ Marks.entry = (kVec.start + kernel.entry) - (kVec.start + minp)
    BY <1>2, MarksType DEF LoadInv
  <1>4. symspace' \in Nat /\ strings' \in Nat
    <2>1. kVec'.sym \in Nat /\ kVec'.nsym \in Nat
      BY <1>1, <1>3
    <2>2. \A what \in TableTypes, n \in Nat : Pointer(what, n) \in Nat
      BY <2>1 DEF Pointer, LoadInv, TypeOK
    <2>3. "SYMTAB" \in TableTypes /\ "STRTAB" \in TableTypes
      BY DEF TableTypes
    <2>4. symspace \in Nat /\ strings \in Nat
      BY DEF LoadInv, TypeOK
    <2>5. CASE kernel.fmt = "elf"
      BY <2>2, <2>3, <2>4, <2>5 DEF LoadDone
    <2>6. CASE kernel.fmt # "elf"
      BY <2>1, <2>6 DEF LoadDone
    <2> QED
      BY <2>5, <2>6
  <1>5. TypeOK'
    BY <1>1, <1>2, <1>3, <1>4 DEF LoadInv, TypeOK, NoTables
  <1>6. PassInv' /\ CountInv'
    BY <1>1, <1>2 DEF LoadInv, PassInv, CountInv, CountedAt, At
  <1>7. WriteInv' /\ SegmentInv' /\ NothingOverwritten'
    BY <1>1, <1>2 DEF LoadInv, WriteInv, SegmentInv, NothingOverwritten, HasBuffer, CountedAt, At
  <1>8. /\ maxp = Total /\ maxp \in Nat /\ minp \in Nat
        /\ kVec.start = bufstart /\ bufstart \in Nat
    <2>1. bufstart \in Nat
      BY MarksType DEF LoadInv
    <2> QED
      BY <1>1, <2>1 DEF LoadInv, CountInv, Total, TypeOK, MarksInv
  <1>9. MarksInv'
    BY <1>1, <1>2, <1>3, <1>8 DEF MarksInv, Total, CountedAt, At
  <1>10. BlockInv' /\ BufferLayout'
    BY <1>1, <1>2 DEF LoadInv, BlockInv, BufferLayout, Total, CountedAt, At
  <1>11. LowestInv'
    <2> SUFFICES ASSUME LinkedAtZero(kernel)
                 PROVE  Marks.start = bufstart /\ Marks.entry = kernel.entry
      BY <1>1 DEF LowestInv
    <2>1. minp = 0
      <3>1. CASE kernel.fmt = "aout"
        BY <1>1, <3>1 DEF LoadInv, LowestInv
      <3>2. CASE kernel.fmt = "elf"
        <4>1. PICK i \in 1 .. Len(kernel.segments) :
                 LET s == kernel.segments[i] IN s.load /\ (s.text \/ s.data) /\ s.vaddr = 0
          BY <3>2 DEF LinkedAtZero
        <4>2. kernel \in ElfKernel /\ Parts = ElfParts(kernel)
          BY <1>2, <3>2, KernelFields DEF Parts, PartsOf
        <4>3. Parts[i] = SegmentPart(kernel.segments[i]) /\ i \in 1 .. Len(Parts)
          BY <4>1, <4>2, <1>2, ElfPartsFit
        <4>4. Parts[i].kind = "placed" /\ Loaded(Parts[i]) /\ Parts[i].at = 0
          BY <4>1, <4>3 DEF SegmentPart, Loaded, Flags
        <4>5. minp <= Parts[i].at
          BY <1>1, <4>3, <4>4 DEF LoadInv, LowestInv
        <4> QED
          BY <4>4, <4>5, <1>8
      <3> QED
        BY <3>1, <3>2, <1>2, KernelFields
    <2>2. kernel.entry \in Nat
      BY <1>2, KernelFields
    <2> QED
      BY <2>1, <2>2, <1>3, <1>8
  <1> QED
    BY <1>5, <1>6, <1>7, <1>9, <1>10, <1>11 DEF LoadInv

(* The block is allocated and aligned, and the second pass starts.         *)
LEMMA AllocateInv == LoadInv /\ Allocate => LoadInv'
  <1> SUFFICES ASSUME LoadInv, Allocate PROVE LoadInv'
    OBVIOUS
  <1>1. PICK b \in Blocks :
          /\ buf' = b /\ bufstart' = Aligned(b)
          /\ len' = Needed - (Aligned(b) - b)
          /\ kVec' = [kVec EXCEPT !.start = Aligned(b)]
    BY DEF Allocate
  <1>2. /\ phase = "counted" /\ Needed <= MaxMem /\ blockLen' = Needed
        /\ pass' = "load" /\ part' = 0 /\ maxp' = 0 /\ symp' = 0 /\ tables' = NoTables
        /\ phase' = "parse"
        /\ minp' = IF kernel.fmt = "elf" THEN NoAddress ELSE 0
        /\ off' = IF kernel.fmt = "elf" THEN FirstOffset(kernel) ELSE 0
        /\ UNCHANGED <<kernel, symspace, strings, boots, harry, boot_entry,
                       counted, written, refused>>
    BY DEF Allocate, StartPass
  <1>3. Parts' = Parts /\ kernel \in Kernels /\ Len(Parts) \in Nat /\ 0 < Len(Parts)
    BY <1>2, PartsFit DEF Parts, LoadInv, TypeOK
  <1>4. /\ kernel.pagesz = 4096 \/ kernel.pagesz = 8192
        /\ kernel.pagesz \in Nat /\ b \in Nat
    BY <1>3, KernelFields, BlocksAssumption
  <1>5. /\ Aligned(b) \in Nat /\ b <= Aligned(b) /\ Aligned(b) < b + kernel.pagesz
    <2> DEFINE to == kernel.pagesz
    <2> HIDE DEF to
    <2>1. RoundUp(b, to) \in Nat /\ b <= RoundUp(b, to) /\ RoundUp(b, to) < b + to
      BY <1>4, RoundUpBounds, Z3 DEF to
    <2> QED
      BY <2>1 DEF Aligned, to
  <1>6. BufferRoom \in Nat
    BY SMT DEF BufferRoom
  <1>7. Needed \in Nat /\ kVec.end \in Nat /\ Needed = kVec.end + BufferRoom
    BY <1>6 DEF LoadInv, TypeOK, Needed
  <1>8. pass = "none" /\ written = {}
    BY <1>2 DEF LoadInv, PassInv, WriteInv, HasBuffer
  <1>9. TypeOK'
    <2>1. kVec' \in [start : Nat, entry : Int, nsym : Nat, sym : Nat, end : Nat]
      BY <1>1, <1>5 DEF LoadInv, TypeOK
    <2>2. bufstart' \in buf' .. buf' + kernel'.pagesz
      BY <1>1, <1>2, <1>4, <1>5
    <2>3. tables' \in [TableTypes -> Nat]
      BY <1>2 DEF NoTables
    <2>4. blockLen' \in 0 .. MaxMem
      BY <1>2, <1>7, BoundsAssumption
    <2>5. NoAddress \in Nat
      BY SMT DEF NoAddress
    <2>6. minp' \in Nat /\ maxp' \in Nat /\ symp' \in Nat /\ off' \in Nat
      BY <1>2, <1>3, <2>5, KernelFields
    <2>7. part' \in 0 .. Len(Parts)'
      BY <1>2, <1>3
    <2>8. len' \in Int
      BY <1>1, <1>4, <1>5, <1>7
    <2>9. /\ kernel' \in Kernels /\ symspace' \in Nat /\ strings' \in Nat
          /\ boots' \in 0 .. MaxBoots /\ counted' \in Seq(Nat) /\ refused' \in BOOLEAN
          /\ harry' \in Int /\ boot_entry' \in Int
          /\ \A w \in written' : w.what \in Names /\ w.from \in Nat /\ w.to \in Nat
      BY <1>2 DEF LoadInv, TypeOK
    <2> QED
      BY <1>1, <1>2, <2>1, <2>2, <2>3, <2>4, <2>6, <2>7, <2>8, <2>9 DEF TypeOK
  <1>10. PassInv'
    BY <1>2 DEF PassInv
  <1>11. CountInv'
    BY <1>2, <1>3, <1>8 DEF LoadInv, CountInv, CountedAt, At
  <1>12. WriteInv' /\ SegmentInv' /\ NothingOverwritten'
    BY <1>2, <1>8 DEF WriteInv, SegmentInv, NothingOverwritten, HasBuffer
  <1>13. MarksInv'
    BY <1>1, <1>2 DEF LoadInv, TypeOK, MarksInv
  <1>14. BlockInv'
    <2>1. Total' = Total
      BY <1>2, <1>3 DEF Total, CountedAt, At
    <2>2. Total <= kVec.end
      BY <1>2 DEF LoadInv, MarksInv
    <2>3. Total \in Nat
      BY <1>2, <1>3, <1>8 DEF LoadInv, CountInv, TypeOK, Total, CountedAt, At
    <2>4. Total + BufferRoom <= Needed
      BY <1>6, <1>7, <2>2, <2>3
    <2> QED
      BY <1>1, <1>2, <1>4, <1>5, <2>1, <2>4 DEF BlockInv
  <1>15. BufferLayout' /\ LowestInv'
    BY <1>2, <1>3 DEF BufferLayout, LowestInv
  <1> QED
    BY <1>9, <1>10, <1>11, <1>12, <1>13, <1>14, <1>15 DEF LoadInv

(* The copying code is placed: below it the environment fits.              *)
LEMMA PatchInv == LoadInv /\ Patch => LoadInv'
  <1> SUFFICES ASSUME LoadInv, Patch PROVE LoadInv'
    OBVIOUS
  <1>1. /\ phase = "loaded" /\ phase' = "ready"
        /\ len' = ((len - kernel.pagesz) \div kernel.pagesz) * kernel.pagesz
        /\ harry' = bufstart + len' - CodeRoom
        /\ boot_entry' = kVec.entry
        /\ UNCHANGED <<kernel, kVec, symspace, strings, boots, passVars, buf, bufstart, histVars>>
    BY DEF Patch
  <1> USE DEF passVars, histVars
  <1>2. Parts' = Parts /\ Total' = Total
    BY <1>1 DEF Parts, Total, CountedAt, At
  <1>3. /\ kernel.pagesz = 4096 \/ kernel.pagesz = 8192
        /\ buf \in Nat /\ bufstart \in Nat /\ len \in Int /\ blockLen \in Nat
        /\ kVec.entry \in Int
    BY MarksType, BoundsAssumption DEF LoadInv, TypeOK
  <1>4. Total \in Nat
    <2>1. pass = "none" /\ kernel \in Kernels /\ counted \in Seq(Nat)
      BY <1>1 DEF LoadInv, PassInv, TypeOK
    <2>2. Len(counted) = Len(Parts) /\ Len(Parts) \in Nat /\ Len(Parts) > 0
      BY <1>1, <2>1, PartsFit DEF LoadInv, CountInv, Parts
    <2> QED
      BY <2>1, <2>2 DEF Total, CountedAt, At
  <1>5. len' \in Int /\ len' <= len - kernel.pagesz /\ len - 2 * kernel.pagesz < len'
    BY <1>1, <1>3, Z3
  <1>6. TypeOK'
    <2>1. harry' \in Int
      BY <1>1, <1>3, <1>5 DEF CodeRoom
    <2> QED
      BY <1>1, <1>2, <1>3, <1>5, <2>1 DEF LoadInv, TypeOK
  <1>7. PassInv' /\ CountInv'
    BY <1>1, <1>2 DEF LoadInv, PassInv, CountInv, CountedAt, At
  <1>8. WriteInv' /\ SegmentInv' /\ NothingOverwritten'
    BY <1>1, <1>2 DEF LoadInv, WriteInv, SegmentInv, NothingOverwritten, HasBuffer, CountedAt, At
  <1>9. MarksInv' /\ BlockInv' /\ LowestInv'
    <2>1. pass' = "none"
      BY <1>1 DEF LoadInv, PassInv
    <2>2. MarksInv' /\ BlockInv'
      BY <1>1, <1>2, <2>1 DEF LoadInv, MarksInv, BlockInv
    <2>3. LinkedAtZero(kernel) => kVec.start = bufstart /\ kVec.entry = kernel.entry
      BY <1>1 DEF LoadInv, LowestInv
    <2>4. LowestInv'
      BY <1>1, <2>1, <2>3 DEF LowestInv
    <2> QED
      BY <2>2, <2>4
  <1>10. BufferLayout'
    <2>1. /\ len = blockLen - (bufstart - buf) /\ bufstart < buf + kernel.pagesz
          /\ Total + BufferRoom <= blockLen
          /\ kVec.end = bufstart + Total
      BY <1>1 DEF LoadInv, BlockInv, MarksInv
    <2>2. kVec.end + EnvSize <= harry'
      BY <1>1, <1>3, <1>4, <1>5, <2>1, SMT DEF BufferRoom, EnvSize, CodeRoom
    <2>3. harry' + CodeRoom <= buf + blockLen
      BY <1>1, <1>3, <1>5, <2>1, SMT DEF CodeRoom
    <2>4. \A w \in written : w.to <= kVec.end
      BY <1>1, <2>1 DEF LoadInv, PassInv, WriteInv, Total
    <2> QED
      BY <1>1, <2>2, <2>3, <2>4 DEF BufferLayout
  <1> QED
    BY <1>6, <1>7, <1>8, <1>9, <1>10 DEF LoadInv

(* One part: both passes move maxp alike, the second one writes in         *)
(* between.                                                                *)
LEMMA PartInv == LoadInv /\ ParsePart => LoadInv'
  <1> SUFFICES ASSUME LoadInv, ParsePart PROVE LoadInv'
    OBVIOUS
  <1> DEFINE p == Parts[part + 1]
             from == kVec.start + Start(p)
             to == from + p.size + p.zero
             x == [what |-> p.what, from |-> from, to |-> to]
  <1>1. /\ phase = "parse" /\ part < Len(Parts) /\ part' = part + 1
        /\ maxp' = IF Tested(p) THEN Reach(p) ELSE maxp
        /\ minp' = IF Tested(p) /\ p.kind = "placed" THEN LowerOf(minp, p.at) ELSE minp
        /\ UNCHANGED <<kernel, kVec, symspace, strings, phase, boots, pass, buf, bufstart,
                       len, harry, boot_entry, blockLen, refused>>
    BY DEF ParsePart, bufVars
  <1>2. Parts' = Parts /\ kernel \in Kernels
    BY <1>1 DEF Parts, LoadInv, TypeOK
  <1>3. /\ Len(Parts) \in Nat /\ part \in Nat /\ part + 1 \in 1 .. Len(Parts)
        /\ p \in FitPart
        /\ \A i, j \in 1 .. Len(Parts) :
              i <= j /\ Parts[j].kind = "placed" => Parts[i].kind = "placed"
    <2>1. /\ Len(Parts) \in Nat
          /\ \A i \in 1 .. Len(Parts) : Parts[i] \in FitPart
          /\ \A i, j \in 1 .. Len(Parts) :
                i <= j /\ Parts[j].kind = "placed" => Parts[i].kind = "placed"
      BY <1>2, PartsFit DEF Parts
    <2>2. part \in Nat /\ part + 1 \in 1 .. Len(Parts)
      BY <2>1, <1>1 DEF LoadInv, TypeOK
    <2> QED
      BY <2>1, <2>2
  <1>4. pass = "count" \/ pass = "load"
    BY <1>1 DEF LoadInv, PassInv, TypeOK
  <1>5. /\ maxp \in Nat /\ minp \in Nat /\ kVec.start \in Nat /\ bufstart \in Nat
        /\ counted \in Seq(Nat) /\ symp \in Nat /\ off \in Nat
    BY MarksType DEF LoadInv, TypeOK
  <1>9. /\ pass = "count" => counted' = Append(counted, maxp') /\ written' = written
        /\ pass = "load" => /\ counted' = counted
                            /\ \/ written' = written
                               \/ Tested(p) /\ written' = written \cup {x}
    BY <1>4 DEF ParsePart
  <1>s. symp' = maxp \/ symp' = maxp' \/ symp' = symp
    BY DEF ParsePart
  <1>t. \/ tables' = tables /\ off' = off
        \/ tables' = [tables EXCEPT ![p.what] = off] /\ off' = off + p.room
    BY DEF ParsePart
  <1> HIDE DEF p
  <1>6. Tested(p) <=> Loaded(p)
    BY DEF Tested, Loaded, LOAD_KERNEL, COUNT_KERNEL
  <1>7. maxp' = After(p, maxp)
    <2>1. p.kind \in {"placed", "tail", "pad"}
      BY <1>3 DEF FitPart, Part
    <2>2. CASE p.kind = "placed"
      BY <1>1, <1>6, <2>2 DEF After, Reach
    <2>3. CASE p.kind = "tail"
      BY <1>1, <1>6, <2>3 DEF After, Reach
    <2>4. CASE p.kind = "pad"
      BY <1>1, <1>6, <2>4 DEF After, Reach
    <2> QED
      BY <2>1, <2>2, <2>3, <2>4
  <1>8. /\ maxp' \in Nat /\ maxp <= maxp'
        /\ Loaded(p) => (IF p.kind = "placed" THEN p.at ELSE maxp) + p.size + p.zero <= maxp'
        /\ p.at \in Nat /\ p.size \in Nat /\ p.zero \in Nat /\ p.room \in Nat
        /\ p.what \in Names /\ ((p.what = "segment") <=> (p.kind = "placed"))
    BY <1>3, <1>5, <1>7, AfterBounds
  <1>10. /\ Start(p) \in Nat /\ from \in Nat /\ to \in Nat
         /\ Loaded(p) => to <= kVec.start + maxp'
         /\ p.kind # "placed" => from = kVec.start + maxp
    <2>1. Start(p) = IF p.kind = "placed" THEN p.at ELSE maxp
      BY DEF Start
    <2> DEFINE s == Start(p)
    <2>2. s \in Nat /\ (Loaded(p) => s + p.size + p.zero <= maxp')
      BY <2>1, <1>5, <1>8
    <2> HIDE DEF s
    <2>3. from = kVec.start + s /\ to = from + p.size + p.zero
      BY DEF s
    <2> HIDE DEF from, to
    <2>4. from \in Nat /\ to \in Nat /\ (Loaded(p) => to <= kVec.start + maxp')
      <3> DEFINE n == p.size + p.zero
      <3>1. n \in Nat /\ maxp' \in Nat /\ s \in Nat /\ kVec.start \in Nat
        BY <2>2, <1>5, <1>8
      <3>2. to = (kVec.start + s) + n /\ (Loaded(p) => s + n <= maxp')
        BY <2>2, <2>3, <1>5, <1>8
      <3> HIDE DEF n
      <3> QED
        BY <3>1, <3>2, <2>3
    <2> QED
      BY <2>1, <2>2, <2>3, <2>4 DEF s
  <1>x. x.what = p.what /\ x.from = from /\ x.to = to
    OBVIOUS
  <1> HIDE DEF from, to, x
  <1>11. counted' \in Seq(Nat)
    BY ZenonT(40), <1>4, <1>5, <1>8, <1>9, AppendProperties
  <1>12. TypeOK'
    <2>1. symp' \in Nat
      BY <1>s, <1>5, <1>8
    <2>2. tables' \in [TableTypes -> Nat] /\ off' \in Nat
      <3>1. tables \in [TableTypes -> Nat] /\ off + p.room \in Nat
        <4>1. tables \in [TableTypes -> Nat]
          BY DEF LoadInv, TypeOK
        <4> QED
          BY <4>1, <1>5, <1>8
      <3> QED
        BY <3>1, <1>t, <1>5
    <2>3. \A w \in written' : w.what \in Names /\ w.from \in Nat /\ w.to \in Nat
      BY <1>4, <1>8, <1>9, <1>10, <1>x DEF LoadInv, TypeOK
    <2>4. minp' \in Nat
      BY <1>1, <1>5, <1>8 DEF LowerOf, p
    <2>5. part' \in 0 .. Len(Parts)'
      BY <1>1, <1>2, <1>3
    <2> QED
      BY <1>1, <1>8, <1>11, <2>1, <2>2, <2>3, <2>4, <2>5 DEF LoadInv, TypeOK
  <1>13. PassInv'
    BY <1>1 DEF LoadInv, PassInv
  <1>14. CountInv'
    <2>1. /\ Len(counted) = IF pass = "count" THEN part ELSE Len(Parts)
          /\ \A i \in 1 .. Len(counted) : counted[i] = After(Parts[i], CountedAt(i - 1))
          /\ \A i, j \in 0 .. Len(counted) : i <= j => CountedAt(i) <= CountedAt(j)
          /\ maxp = CountedAt(part)
      BY <1>1, <1>4 DEF LoadInv, CountInv
    <2>2. CASE pass = "load"
      <3>1. counted[part + 1] = After(p, CountedAt(part))
        <4>1. part + 1 \in 1 .. Len(counted) /\ (part + 1) - 1 = part
          BY <2>1, <2>2, <1>3
        <4> QED
          BY <4>1, <2>1 DEF p
      <3>2. maxp' = CountedAt(part + 1)
        BY <3>1, <2>1, <1>3, <1>7 DEF CountedAt, At
      <3> QED
        BY <1>1, <1>2, <1>9, <2>1, <2>2, <3>2 DEF CountInv, CountedAt, At
    <2>3. CASE pass = "count"
      <3>1. /\ Len(counted) = part /\ Len(counted') = part + 1
            /\ counted'[part + 1] = maxp'
            /\ \A i \in 1 .. part : counted'[i] = counted[i]
        <4>1. counted' = Append(counted, maxp') /\ Len(counted) = part
          BY <2>1, <2>3, <1>9
        <4> QED
          BY <4>1, <1>3, <1>5, <1>8, AppendProperties
      <3>2. \A i \in 0 .. part : At(counted', i) = CountedAt(i)
        BY <3>1, <1>3 DEF CountedAt, At
      <3>3. At(counted', part + 1) = maxp'
        BY <3>1, <1>3 DEF At
      <3>4. \A i \in 1 .. Len(counted') : counted'[i] = After(Parts[i], At(counted', i - 1))
        <4> TAKE i \in 1 .. Len(counted')
        <4>1. i - 1 \in 0 .. part
          BY <3>1, <1>3
        <4>2. CASE i = part + 1
          BY <4>1, <4>2, <3>1, <3>2, <2>1, <1>3, <1>7 DEF p
        <4>3. CASE i # part + 1
          <5>1. i \in 1 .. part
            BY <4>3, <3>1, <1>3
          <5> QED
            BY <5>1, <4>1, <3>1, <3>2, <2>1
        <4> QED
          BY <4>2, <4>3
      <3>5. \A i, j \in 0 .. Len(counted') : i <= j => At(counted', i) <= At(counted', j)
        <4>1. \A i \in 0 .. part : At(counted', i) <= maxp /\ CountedAt(i) \in Nat
          <5>1. \A i \in 0 .. part : CountedAt(i) <= CountedAt(part)
            BY <2>1, <3>1, <1>3
          <5>2. \A i \in 0 .. part : CountedAt(i) \in Nat
            BY <3>1, <1>3, <1>5 DEF CountedAt, At
          <5> QED
            BY <5>1, <5>2, <3>2, <2>1
        <4> TAKE i, j \in 0 .. Len(counted')
        <4> SUFFICES ASSUME i <= j PROVE At(counted', i) <= At(counted', j)
          OBVIOUS
        <4>2. CASE j = part + 1 /\ i = part + 1
          BY <4>2, <3>3, <1>8
        <4>3. CASE j = part + 1 /\ i \in 0 .. part
          BY <4>1, <4>3, <3>2, <3>3, <1>5, <1>8
        <4>4. CASE i \in 0 .. part /\ j \in 0 .. part
          BY <4>4, <3>1, <3>2, <2>1
        <4> QED
          BY <4>2, <4>3, <4>4, <3>1, <1>3
      <3> QED
        BY <1>1, <1>2, <2>3, <3>1, <3>3, <3>4, <3>5 DEF CountInv, CountedAt
    <2> QED
      BY <1>4, <2>2, <2>3
  <1>15. CASE pass = "count"
    <2>1. WriteInv' /\ SegmentInv' /\ NothingOverwritten'
      BY <1>1, <1>9, <1>15 DEF LoadInv, WriteInv, SegmentInv, NothingOverwritten, HasBuffer
    <2>2. MarksInv' /\ BlockInv' /\ BufferLayout' /\ LowestInv'
      BY <1>1, <1>15 DEF MarksInv, BlockInv, BufferLayout, LowestInv
    <2> QED
      BY <1>12, <1>13, <1>14, <2>1, <2>2 DEF LoadInv
  <1>16. CASE pass = "load"
    <2>1. /\ counted' = counted
          /\ \A w \in written' : w \in written \/ (Loaded(p) /\ w = x)
      BY <1>6, <1>9, <1>16
    <2>2. maxp = CountedAt(part) /\ maxp' = CountedAt(part)'
      BY <1>1, <1>14, <1>16 DEF LoadInv, CountInv
    <2>3. kVec.start = bufstart
      BY <1>16 DEF LoadInv, MarksInv
    <2>4. \A w \in written : /\ w.from \in Nat /\ w.to \in Nat /\ bufstart <= w.from
                             /\ w.to <= bufstart + maxp
      BY <1>1, <1>16, <2>2 DEF LoadInv, TypeOK, WriteInv
    <2>5. x.what = p.what /\ x.from = from /\ x.to = to
      BY <1>x
    <2>6. WriteInv'
      <3>1. ASSUME NEW w \in written'
            PROVE  bufstart <= w.from /\ w.to <= bufstart + maxp'
        <4>1. CASE w \in written
          BY <4>1, <2>4, <1>5, <1>8
        <4>2. CASE Loaded(p) /\ w = x
          <5>1. bufstart <= from
            BY <1>5, <1>10, <2>3 DEF from
          <5>2. to <= bufstart + maxp'
            BY <4>2, <1>10, <2>3
          <5> QED
            BY <4>2, <5>1, <5>2, <2>5
        <4> QED
          BY <4>1, <4>2, <2>1
      <3> QED
        BY <1>1, <1>16, <2>2, <3>1 DEF WriteInv, HasBuffer
    <2>7. SegmentInv'
      <3> SUFFICES ASSUME NEW i \in part' + 1 .. Len(Parts), Parts[i].kind = "placed",
                          NEW w \in written'
                   PROVE  w.what = "segment"
        BY <1>2, <1>16 DEF SegmentInv
      <3>1. i \in 1 .. Len(Parts) /\ i \in part + 1 .. Len(Parts) /\ part + 1 <= i
        BY <1>1, <1>3
      <3>2. p.kind = "placed"
        BY <3>1, <1>3 DEF p
      <3>3. CASE w \in written
        BY <3>1, <3>3, <1>16 DEF LoadInv, SegmentInv
      <3>4. CASE w = x
        BY <3>2, <3>4, <2>5, <1>8
      <3> QED
        BY <3>3, <3>4, <2>1
    <2>8. NothingOverwritten'
      <3> SUFFICES ASSUME NEW v \in written', NEW w \in written', v # w, v.what # "segment"
                   PROVE  v.to <= w.from \/ w.to <= v.from
        BY DEF NothingOverwritten
      <3>1. CASE v \in written /\ w \in written
        BY <3>1 DEF LoadInv, NothingOverwritten
      <3>2. CASE v = x /\ w \in written
        <4>1. from = bufstart + maxp
          BY <3>2, <2>3, <2>5, <1>8, <1>10
        <4> QED
          BY <3>2, <4>1, <2>4, <2>5
      <3>3. CASE v \in written /\ w = x
        <4>1. p.kind # "placed"
          <5>1. part + 1 \in part + 1 .. Len(Parts)
            BY <1>3
          <5> QED
            BY <3>3, <5>1, <1>16 DEF LoadInv, SegmentInv, p
        <4>2. from = bufstart + maxp
          BY <4>1, <2>3, <1>10
        <4> QED
          BY <3>3, <4>2, <2>4, <2>5
      <3> QED
        BY <3>1, <3>2, <3>3, <2>1
    <2>9. MarksInv' /\ BufferLayout'
      BY <1>1, <1>16, <2>3 DEF MarksInv, BufferLayout
    <2>10. BlockInv'
      BY <1>1, <1>2, <1>16, <2>1 DEF LoadInv, BlockInv, Total, CountedAt, At
    <2>11. LowestInv'
      <3>1. /\ kernel.fmt = "aout" => minp = 0
            /\ \A i \in 1 .. part : Parts[i].kind = "placed" /\ Loaded(Parts[i])
                                       => minp <= Parts[i].at
        BY <1>16 DEF LoadInv, LowestInv
      <3>2. minp' <= minp /\ (Loaded(p) /\ p.kind = "placed" => minp' <= p.at)
        BY SMTT(30), <1>1, <1>5, <1>6, <1>8 DEF LowerOf
      <3>3. kernel.fmt = "aout" => minp' = 0
        <4>1. minp' \in Nat
          BY <1>12 DEF TypeOK
        <4> QED
          BY <3>1, <3>2, <4>1, <1>5
      <3>4. \A i \in 1 .. part' : Parts[i].kind = "placed" /\ Loaded(Parts[i])
                                     => minp' <= Parts[i].at
        <4> SUFFICES ASSUME NEW i \in 1 .. part', Parts[i].kind = "placed", Loaded(Parts[i])
                     PROVE  minp' <= Parts[i].at
          OBVIOUS
        <4>1. CASE i = part + 1
          BY <4>1, <3>2 DEF p
        <4>2. CASE i # part + 1
          <5>1. i \in 1 .. part /\ i \in 1 .. Len(Parts)
            BY <4>2, <1>1, <1>3
          <5>2. minp <= Parts[i].at
            BY <5>1, <3>1
          <5>3. Parts[i].at \in Nat
            <6>1. Parts[i] \in FitPart
              BY <5>1, <1>2, PartsFit DEF Parts
            <6> QED
              BY <6>1 DEF FitPart, Part
          <5>4. minp' \in Nat
            BY <1>12 DEF TypeOK
          <5> QED
            BY <5>2, <5>3, <5>4, <3>2, <1>5
        <4> QED
          BY <4>1, <4>2
      <3> QED
        BY <1>1, <1>2, <3>3, <3>4 DEF LowestInv
    <2> QED
      BY <1>12, <1>13, <1>14, <2>6, <2>7, <2>8, <2>9, <2>10, <2>11 DEF LoadInv
  <1> QED
    BY <1>4, <1>15, <1>16

LEMMA StepInv == LoadInv /\ [Next]_vars => LoadInv'
  <1> SUFFICES ASSUME LoadInv, [Next]_vars PROVE LoadInv'
    OBVIOUS
  <1> QED
    BY BootInv, PartInv, CountDoneInv, LoadDoneInv, EndInv, AllocateInv, PatchInv, EnterInv
    DEF Next, Done

LEMMA InvHolds == Spec => []LoadInv
  BY InitInv, StepInv, PTL DEF Spec

-----------------------------------------------------------------------------
(* Every variable keeps its type, whatever kernels are booted, and however *)
(* often (the whole of KernelLoad).                                        *)
THEOREM TypeCorrect == Spec => []TypeOK
  <1>1. LoadInv => TypeOK
    BY DEF LoadInv
  <1> QED
    BY <1>1, InvHolds, PTL

(* The second pass stays inside what the first one counted (elf_exec and   *)
(* aout_exec, run with the two sets of flags).                             *)
THEOREM LoadFitsCorrect == Spec => []LoadFits
  <1>1. LoadInv => LoadFits
    <2> SUFFICES ASSUME LoadInv, phase # "idle", NEW w \in written
                 PROVE  bufstart <= w.from /\ w.to <= bufstart + counted[Len(counted)]
      BY DEF LoadFits
    <2>1. /\ kernel \in Kernels /\ Len(Parts) \in Nat /\ Len(Parts) > 0
          /\ part \in 0 .. Len(Parts)
          /\ w.to \in Nat /\ bufstart \in Nat /\ counted \in Seq(Nat)
      BY PartsFit, MarksType DEF LoadInv, TypeOK, Parts
    <2>2. HasBuffer
      BY DEF LoadInv, WriteInv
    <2>3. Len(counted) = Len(Parts)
      BY <2>2 DEF LoadInv, CountInv, PassInv, HasBuffer
    <2>4. CountedAt(part) <= Total /\ Total = counted[Len(counted)]
      BY <2>1, <2>3 DEF LoadInv, CountInv, Total, CountedAt, At
    <2>5. CountedAt(part) \in Nat /\ Total \in Nat
      BY <2>1, <2>3 DEF Total, CountedAt, At
    <2> QED
      BY SMTT(30), <2>1, <2>4, <2>5 DEF LoadInv, WriteInv, Total
  <1> QED
    BY <1>1, InvHolds, PTL

(* The environment and the copying code fit the buffer, behind the kernel  *)
(* (copyunix lines 325-490).                                               *)
THEOREM LayoutCorrect == Spec => []BufferLayout
  <1>1. LoadInv => BufferLayout
    BY DEF LoadInv
  <1> QED
    BY <1>1, InvHolds, PTL

(* No header, symbol or string overwrites another part (the two places of  *)
(* loadfile.c where maxp is advanced).                                     *)
THEOREM OverwriteCorrect == Spec => []NothingOverwritten
  <1>1. LoadInv => NothingOverwritten
    BY DEF LoadInv
  <1> QED
    BY <1>1, InvHolds, PTL

(* A kernel linked at 0 is entered where its header says (kernel_parse     *)
(* line 159).                                                              *)
THEOREM EntryCorrect == Spec => []EntryRight
  <1>1. LoadInv => EntryRight
    BY DEF LoadInv, LowestInv, EntryRight
  <1> QED
    BY <1>1, InvHolds, PTL
-----------------------------------------------------------------------------
(* Where the tables of a kernel are among its parts.                       *)

LEMMA ConcatAt ==
    ASSUME NEW X, NEW a \in Seq(X), NEW b \in Seq(X)
    PROVE  /\ a \o b \in Seq(X) /\ Len(a \o b) = Len(a) + Len(b)
           /\ \A i \in 1 .. Len(a) : (a \o b)[i] = a[i]
           /\ \A i \in 1 .. Len(b) : (a \o b)[Len(a) + i] = b[i]
  <1> DEFINE m == Len(a)  n == Len(b)
  <1>1. m \in Nat /\ n \in Nat
    BY LenProperties
  <1>2. /\ a \o b \in Seq(X) /\ Len(a \o b) = m + n
        /\ \A i \in 1 .. m + n : (a \o b)[i] = IF i <= m THEN a[i] ELSE b[i - m]
    BY ConcatProperties
  <1> HIDE DEF m, n
  <1>3. \A i \in 1 .. m : i \in 1 .. m + n /\ i <= m
    BY <1>1
  <1>4. \A i \in 1 .. n : m + i \in 1 .. m + n /\ ~(m + i <= m) /\ (m + i) - m = i
    BY <1>1
  <1>5. \A i \in 1 .. m : (a \o b)[i] = a[i]
    BY <1>2, <1>3
  <1>6. \A i \in 1 .. n : (a \o b)[m + i] = b[i]
    BY <1>2, <1>4
  <1> QED
    BY <1>2, <1>5, <1>6 DEF m, n

(* An ELF kernel: the headers follow the segments, the tables follow the   *)
(* headers in the order of their sections.                                 *)
HeaderPart(k) == Appended("ehdr", "HDR", SizeofEhdr, 0, SizeofEhdr)
SectionsPart(k) == Appended("shdrs", "SYM", Len(k.sections) * SizeofShdr, 0,
                            RoundUp(Len(k.sections) * SizeofShdr, SizeofLong))
LEMMA ElfLayout ==
    ASSUME NEW k \in ElfKernel
    PROVE  LET n == Len(k.segments)  m == Len(k.sections)
           IN  /\ n \in Nat /\ m \in Nat /\ Len(ElfParts(k)) = n + 3 + m
               /\ \A i \in 1 .. n : ElfParts(k)[i] = SegmentPart(k.segments[i])
               /\ ElfParts(k)[n + 1] = Pad("ALWAYS", SizeofLong)
               /\ ElfParts(k)[n + 2] = HeaderPart(k)
               /\ ElfParts(k)[n + 3] = SectionsPart(k)
               /\ \A i \in 1 .. m : ElfParts(k)[n + 3 + i] = SectionPart(k, i)
  <1> DEFINE n == Len(k.segments)
             m == Len(k.sections)
             A == [i \in 1 .. n |-> SegmentPart(k.segments[i])]
             H == << Pad("ALWAYS", SizeofLong), HeaderPart(k), SectionsPart(k) >>
             S == [i \in 1 .. m |-> SectionPart(k, i)]
             X == {SegmentPart(k.segments[i]) : i \in 1 .. n}
                  \cup {Pad("ALWAYS", SizeofLong), HeaderPart(k), SectionsPart(k)}
                  \cup {SectionPart(k, i) : i \in 1 .. m}
  <1>1. n \in Nat /\ m \in Nat
    BY LenProperties DEF ElfKernel
  <1>2. A \in Seq(X) /\ Len(A) = n /\ \A i \in 1 .. n : A[i] = SegmentPart(k.segments[i])
    <2>1. \A i \in 1 .. n : SegmentPart(k.segments[i]) \in X
      OBVIOUS
    <2> HIDE DEF X, n
    <2> QED
      BY <2>1, <1>1, IsASeq, LenProperties
  <1>3. S \in Seq(X) /\ Len(S) = m /\ \A i \in 1 .. m : S[i] = SectionPart(k, i)
    <2>1. \A i \in 1 .. m : SectionPart(k, i) \in X
      OBVIOUS
    <2> HIDE DEF X, m
    <2> QED
      BY <2>1, <1>1, IsASeq, LenProperties
  <1>4. /\ H \in Seq(X) /\ Len(H) = 3
        /\ H[1] = Pad("ALWAYS", SizeofLong) /\ H[2] = HeaderPart(k) /\ H[3] = SectionsPart(k)
    <2>1. /\ Pad("ALWAYS", SizeofLong) \in X /\ HeaderPart(k) \in X
          /\ SectionsPart(k) \in X
      OBVIOUS
    <2> HIDE DEF X
    <2> QED
      BY <2>1
  <1>5. ElfParts(k) = (A \o H) \o S
    BY DEF ElfParts, HeaderPart, SectionsPart
  <1> DEFINE P == A \o H
             Q == P \o S
             h == n + 3
  <1> HIDE DEF A, H, S, X, n, m
  <1>6. /\ P \in Seq(X) /\ Len(P) = h /\ h \in Nat
        /\ \A i \in 1 .. n : P[i] = A[i]
        /\ \A i \in 1 .. 3 : P[n + i] = H[i]
    <2>1. /\ A \o H \in Seq(X) /\ Len(A \o H) = Len(A) + Len(H)
          /\ \A i \in 1 .. Len(A) : (A \o H)[i] = A[i]
          /\ \A i \in 1 .. Len(H) : (A \o H)[Len(A) + i] = H[i]
      <3>1. A \in Seq(X) /\ H \in Seq(X)
        BY <1>2, <1>4
      <3> QED
        BY <3>1, ConcatAt
    <2>2. Len(A) = n /\ Len(H) = 3
      BY <1>2, <1>4
    <2> QED
      BY <1>1, <2>1, <2>2
  <1> HIDE DEF P, h
  <1>7. /\ Len(Q) = h + m
        /\ \A i \in 1 .. h : Q[i] = P[i]
        /\ \A i \in 1 .. m : Q[h + i] = S[i]
    <2>1. /\ Len(P \o S) = Len(P) + Len(S)
          /\ \A i \in 1 .. Len(P) : (P \o S)[i] = P[i]
          /\ \A i \in 1 .. Len(S) : (P \o S)[Len(P) + i] = S[i]
      <3>1. P \in Seq(X) /\ S \in Seq(X)
        BY <1>3, <1>6
      <3> QED
        BY <3>1, ConcatAt
    <2>2. Len(P) = h /\ Len(S) = m
      BY <1>3, <1>6
    <2> QED
      BY <2>1, <2>2
  <1>8. ElfParts(k) = Q
    BY <1>5 DEF P
  <1> HIDE DEF Q
  <1>h. h = n + 3
    BY DEF h
  <1>9. \A i \in 1 .. n : Q[i] = SegmentPart(k.segments[i])
    <2> TAKE i \in 1 .. n
    <2>1. i \in 1 .. h
      BY <1>1, <1>h
    <2> QED
      BY <2>1, <1>2, <1>6, <1>7
  <1>10. Q[n + 1] = H[1] /\ Q[n + 2] = H[2] /\ Q[n + 3] = H[3]
    <2>1. n + 1 \in 1 .. h /\ n + 2 \in 1 .. h /\ n + 3 \in 1 .. h
      BY <1>1, <1>h
    <2>2. Q[n + 1] = P[n + 1] /\ Q[n + 2] = P[n + 2] /\ Q[n + 3] = P[n + 3]
      BY <2>1, <1>7
    <2>3. P[n + 1] = H[1] /\ P[n + 2] = H[2] /\ P[n + 3] = H[3]
      BY <1>6
    <2> QED
      BY <2>2, <2>3
  <1>11. \A i \in 1 .. m : Q[n + 3 + i] = SectionPart(k, i)
    BY <1>3, <1>7, <1>h
  <1>12. Len(Q) = n + 3 + m
    BY <1>7, <1>h
  <1> QED
    BY <1>1, <1>4, <1>8, <1>9, <1>10, <1>11, <1>12 DEF n, m

(* An a.out kernel with symbols: its size word, the symbols, the names.    *)
SizePart(k) == IF k.magic \in {"ZMAGIC", "NMAGIC"} THEN 6 ELSE 5
LEMMA AoutLayout ==
    ASSUME NEW k \in AoutKernel, k.syms # 0
    PROVE  LET s == SizePart(k)
           IN  /\ Len(AoutParts(k)) = s + 2
               /\ AoutParts(k)[s] = Appended("symsize", "SYM", SizeofLong, 0, SizeofLong)
               /\ AoutParts(k)[s + 1] = Appended("SYMTAB", "SYM", k.syms, 0, k.syms)
               /\ AoutParts(k)[s + 2] = Appended("STRTAB", "SYM", k.strs, 0, k.strs)
  <1> DEFINE sub == IF k.magic \in {"OMAGIC", "NMAGIC"} THEN 0 ELSE SizeofExec
             head == Appended("exec", "HDR", sub, 0, sub)
             text == Appended("text", "TEXT", k.text - sub, 0, k.text - sub)
             pad  == Pad("TEXTA", k.pagesz)
             data == Appended("data", "DATA", k.data, 0, k.data)
             bss  == Appended("bss", "BSS", 0, k.bss, k.bss)
             size == Appended("symsize", "SYM", SizeofLong, 0, SizeofLong)
             sym  == Appended("SYMTAB", "SYM", k.syms, 0, k.syms)
             str  == Appended("STRTAB", "SYM", k.strs, 0, k.strs)
             X == {head, text, pad, data, bss, size, sym, str}
             A == <<head, text>>
             B == IF k.magic \in {"ZMAGIC", "NMAGIC"} THEN <<pad>> ELSE <<>>
             C == <<data, bss, size>>
             D == <<sym, str>>
             s == SizePart(k)
  <1>1. AoutParts(k) = ((A \o B) \o C) \o D
    BY DEF AoutParts
  <1> HIDE DEF head, text, pad, data, bss, size, sym, str
  <1>3. A \in Seq(X) /\ Len(A) = 2 /\ A[1] = head /\ A[2] = text
    OBVIOUS
  <1>4. B \in Seq(X) /\ Len(B) = s - 5
    <2>1. CASE k.magic \in {"ZMAGIC", "NMAGIC"}
      BY <2>1 DEF SizePart
    <2>2. CASE k.magic \notin {"ZMAGIC", "NMAGIC"}
      BY <2>2 DEF SizePart
    <2> QED
      BY <2>1, <2>2
  <1>5. C \in Seq(X) /\ Len(C) = 3 /\ C[1] = data /\ C[2] = bss /\ C[3] = size
    OBVIOUS
  <1>6. D \in Seq(X) /\ Len(D) = 2 /\ D[1] = sym /\ D[2] = str
    OBVIOUS
  <1>s. s \in {5, 6}
    BY DEF SizePart
  <1> DEFINE P == A \o B
             Q == P \o C
             R == Q \o D
  <1> HIDE DEF A, B, C, D, X, s
  <1>7. P \in Seq(X) /\ Len(P) = s - 3
    <2>1. A \o B \in Seq(X) /\ Len(A \o B) = Len(A) + Len(B)
      BY <1>3, <1>4, ConcatAt, Zenon
    <2> QED
      BY <1>3, <1>4, <1>s, <2>1
  <1> HIDE DEF P
  <1>8. Q \in Seq(X) /\ Len(Q) = s /\ Q[s] = size
    <2>1. /\ P \o C \in Seq(X) /\ Len(P \o C) = Len(P) + Len(C)
          /\ \A i \in 1 .. Len(C) : (P \o C)[Len(P) + i] = C[i]
      <3>1. P \in Seq(X) /\ C \in Seq(X)
        BY <1>5, <1>7
      <3> QED
        BY <3>1, ConcatAt
    <2>2. Len(P) + 3 = s /\ 3 \in 1 .. Len(C)
      BY <1>5, <1>7, <1>s
    <2>3. (P \o C)[Len(P) + 3] = C[3]
      BY <2>1, <2>2
    <2> QED
      BY <1>5, <2>1, <2>2, <2>3
  <1> HIDE DEF Q
  <1>9. /\ Len(R) = s + 2 /\ R[s] = size /\ R[s + 1] = sym /\ R[s + 2] = str
    <2>1. /\ Len(Q \o D) = Len(Q) + Len(D)
          /\ \A i \in 1 .. Len(Q) : (Q \o D)[i] = Q[i]
          /\ \A i \in 1 .. Len(D) : (Q \o D)[Len(Q) + i] = D[i]
      <3>1. Q \in Seq(X) /\ D \in Seq(X)
        BY <1>6, <1>8
      <3> QED
        BY <3>1, ConcatAt
    <2>2. s \in 1 .. Len(Q) /\ 1 \in 1 .. Len(D) /\ 2 \in 1 .. Len(D)
      BY <1>6, <1>8, <1>s
    <2>3. (Q \o D)[Len(Q) + 1] = D[1] /\ (Q \o D)[Len(Q) + 2] = D[2] /\ (Q \o D)[s] = Q[s]
      BY <2>1, <2>2
    <2> QED
      BY <1>6, <1>8, <2>1, <2>3
  <1>10. AoutParts(k) = R
    BY <1>1 DEF P, Q
  <1> QED
    BY <1>9, <1>10 DEF s, size, sym, str
-----------------------------------------------------------------------------
(* The symbols.                                                            *)

(* The part after an ELF kernel's headers.                                 *)
Base == Len(kernel.segments) + 3
WrittenAt(what, at) == \E w \in written : w.what = what /\ w.from = at

(* symp is where the header went, off how far from it the next table will  *)
(* go, and every table read so far is where its entry in tables says.      *)
HeaderInv ==
    /\ off > 0
    /\ part < Base => off = FirstOffset(kernel) /\ tables = NoTables
    /\ part = Base - 1 => maxp = symp + SizeofEhdr
    /\ part >= Base => maxp = symp + off
FoundInv ==
    \A t \in {"SYMTAB", "STRTAB"} :
        /\ tables[t] # 0 => WrittenAt(t, kVec.start + symp + tables[t])
        /\ \A i \in 1 .. Len(kernel.sections) :
              kernel.sections[i].type = t /\ part >= Base + i => tables[t] # 0

(* In an a.out file the symbols and the names follow one another.          *)
AoutInv ==
    /\ part = SizePart(kernel) => maxp = symp
    /\ part = SizePart(kernel) + 1 => maxp = symp + kernel.syms
    /\ part > SizePart(kernel) => WrittenAt("SYMTAB", kVec.start + symp)
    /\ part > SizePart(kernel) + 1 => WrittenAt("STRTAB", kVec.start + symp + kernel.syms)

TablesInv ==
    pass = "load" /\ HasSymbols(kernel) =>
        /\ kernel.fmt = "elf" => HeaderInv /\ FoundInv
        /\ kernel.fmt = "aout" => AoutInv
SymbolsInv == TablesInv /\ SymbolsFound

(* The header and the section headers together take the room before the    *)
(* first table.                                                            *)
LEMMA FirstOffsetIs ==
    ASSUME NEW k \in ElfKernel
    PROVE  /\ FirstOffset(k) \in Nat /\ FirstOffset(k) > 0
           /\ SectionsPart(k).room \in Nat
           /\ FirstOffset(k) = SizeofEhdr + SectionsPart(k).room
  <1> DEFINE n == Len(k.sections)
  <1>1. n \in Nat
    BY LenProperties DEF ElfKernel
  <1>2. /\ FirstOffset(k) = RoundUp(SizeofEhdr + n * SizeofShdr, SizeofLong)
        /\ SectionsPart(k).room = RoundUp(n * SizeofShdr, SizeofLong)
    BY DEF FirstOffset, SectionsPart, Appended
  <1> HIDE DEF n
  <1>3. \A m \in Nat : /\ (52 + m * 40 + 4 - 1) \div 4 = 13 + m * 10
                       /\ (m * 40 + 4 - 1) \div 4 = m * 10
    BY Z3
  <1>4. /\ RoundUp(52 + n * 40, 4) = (13 + n * 10) * 4
        /\ RoundUp(n * 40, 4) = (n * 10) * 4
    BY <1>1, <1>3 DEF RoundUp
  <1> QED
    BY <1>1, <1>2, <1>4 DEF SizeofEhdr, SizeofShdr, SizeofLong

(* A boot that begins, or a second pass, has read no tables yet.           *)
LEMMA SymbolsFirst ==
    LoadInv /\ SymbolsInv /\ (Boot \/ Allocate) => SymbolsInv'
  <1> SUFFICES ASSUME LoadInv, SymbolsInv, Boot \/ Allocate
               PROVE  SymbolsInv'
    OBVIOUS
  <1>1. phase' = "parse" /\ part' = 0
    BY DEF Boot, Allocate, StartPass
  <1>2. SymbolsFound'
    BY <1>1 DEF SymbolsFound
  <1>3. CASE Boot
    BY <1>2, <1>3 DEF SymbolsInv, TablesInv, Boot, StartPass
  <1>4. CASE Allocate
    <2>1. kernel' = kernel /\ kernel \in Kernels
      BY <1>4 DEF Allocate, LoadInv, TypeOK
    <2>2. CASE kernel.fmt = "elf"
      <3>1. kernel \in ElfKernel
        BY <2>1, <2>2, KernelFields
      <3>2. tables' = NoTables /\ off' = FirstOffset(kernel)
        BY <1>4, <2>2 DEF Allocate, StartPass
      <3>3. /\ Len(kernel.segments) \in Nat /\ FirstOffset(kernel) > 0
            /\ Len(kernel.sections) \in Nat
        BY <3>1, FirstOffsetIs, ElfLayout
      <3>4. HeaderInv'
        BY <1>1, <2>1, <3>2, <3>3 DEF HeaderInv, Base
      <3>5. FoundInv'
        BY <1>1, <2>1, <3>2, <3>3 DEF FoundInv, Base, NoTables, TableTypes
      <3> QED
        BY <1>2, <2>1, <2>2, <3>4, <3>5 DEF SymbolsInv, TablesInv
    <2>3. CASE kernel.fmt = "aout"
      <3>1. AoutInv'
        BY <1>1, <2>1 DEF AoutInv, SizePart
      <3> QED
        BY <1>2, <2>1, <2>3, <3>1 DEF SymbolsInv, TablesInv
    <2> QED
      BY <2>1, <2>2, <2>3, KernelFields
  <1> QED
    BY <1>3, <1>4

(* Steps that end a boot, or leave the kernel and what was read alone.     *)
LEMMA SymbolsKept ==
    LoadInv /\ SymbolsInv
        /\ (CountDone \/ ParseFails \/ Stop \/ Refuse \/ Patch \/ EnterKernel \/ UNCHANGED vars)
        => SymbolsInv'
  <1> SUFFICES ASSUME LoadInv, SymbolsInv,
                      CountDone \/ ParseFails \/ Stop \/ Refuse \/ Patch \/ EnterKernel
                          \/ UNCHANGED vars
               PROVE  SymbolsInv'
    OBVIOUS
  <1>1. CASE CountDone \/ ParseFails \/ Stop \/ Refuse
    <2>1. pass' = "none" /\ phase' \in {"idle", "counted"}
      BY <1>1 DEF CountDone, ParseFails, Stop, Refuse, EndBoot, NoPass
    <2> QED
      BY <2>1 DEF SymbolsInv, TablesInv, SymbolsFound
  <1>2. CASE Patch \/ EnterKernel
    <2>1. /\ pass' = pass /\ pass = "none" /\ phase \in {"loaded", "ready"}
          /\ UNCHANGED <<kernel, written, symspace, strings>>
      BY <1>2 DEF Patch, EnterKernel, passVars, histVars, LoadInv, PassInv
    <2> QED
      BY <2>1 DEF SymbolsInv, TablesInv, SymbolsFound
  <1>3. CASE UNCHANGED vars
    <2>1. UNCHANGED <<kernel, kVec, written, symspace, strings, phase, pass, part, maxp, symp,
                      tables, off>>
      BY <1>3 DEF vars, passVars, histVars
    <2> QED
      BY <2>1 DEF SymbolsInv, TablesInv, SymbolsFound, HeaderInv, FoundInv, AoutInv, WrittenAt,
                  Base
  <1> QED
    BY <1>1, <1>2, <1>3

(* The last part done, both tables are found through what the loader left. *)
LEMMA SymbolsLoaded == LoadInv /\ SymbolsInv /\ LoadDone => SymbolsInv'
  <1> SUFFICES ASSUME LoadInv, SymbolsInv, LoadDone PROVE SymbolsInv'
    OBVIOUS
  <1>1. /\ pass = "load" /\ part = Len(Parts) /\ phase' = "loaded" /\ pass' = "none"
        /\ kernel' = kernel /\ written' = written /\ kVec' = Marks
    BY DEF LoadDone, NoPass, histVars
  <1>2. kVec'.sym = kVec.start + symp /\ (kernel.fmt = "aout" => kVec'.nsym = kernel.syms)
    BY <1>1 DEF Marks
  <1>3. /\ kernel \in Kernels /\ symp \in Nat /\ kVec.start \in Nat
        /\ tables \in [TableTypes -> Nat]
    BY DEF LoadInv, TypeOK
  <1>4. TablesInv'
    BY <1>1 DEF TablesInv
  <1>5. CASE HasSymbols(kernel) /\ kernel.fmt = "elf"
    <2>1. kernel \in ElfKernel /\ FoundInv /\ Parts = ElfParts(kernel)
      BY <1>1, <1>3, <1>5, KernelFields DEF SymbolsInv, TablesInv, Parts, PartsOf
    <2>2. \A t \in {"SYMTAB", "STRTAB"} : tables[t] # 0
      <3> TAKE t \in {"SYMTAB", "STRTAB"}
      <3>1. PICK i \in 1 .. Len(kernel.sections) : kernel.sections[i].type = t
        BY <1>5 DEF HasSymbols
      <3>2. /\ Len(kernel.segments) \in Nat /\ Len(kernel.sections) \in Nat
            /\ part = Len(kernel.segments) + 3 + Len(kernel.sections)
        BY <1>1, <2>1, ElfLayout
      <3>3. part >= Base + i
        BY <3>2 DEF Base
      <3> QED
        BY <2>1, <3>1, <3>3 DEF FoundInv
    <2>3. symspace' = kVec'.sym + tables["SYMTAB"] /\ strings' = kVec'.sym + tables["STRTAB"]
      BY <1>5, <2>2 DEF LoadDone, Pointer
    <2>4. /\ WrittenAt("SYMTAB", kVec.start + symp + tables["SYMTAB"])
          /\ WrittenAt("STRTAB", kVec.start + symp + tables["STRTAB"])
      BY <2>1, <2>2 DEF FoundInv
    <2>5. SymbolsFound'
      BY <1>1, <1>2, <2>3, <2>4 DEF SymbolsFound, WrittenAt
    <2> QED
      BY <1>4, <2>5 DEF SymbolsInv
  <1>6. CASE HasSymbols(kernel) /\ kernel.fmt = "aout"
    <2>1. kernel \in AoutKernel /\ kernel.syms # 0 /\ Parts = AoutParts(kernel) /\ AoutInv
      <3>1. kernel \in AoutKernel
        BY <1>3, <1>6, KernelsAssumption DEF ElfKernel
      <3>2. kernel.syms # 0
        BY <1>6, <3>1 DEF HasSymbols, AoutKernel
      <3> QED
        BY <1>1, <1>6, <3>1, <3>2 DEF SymbolsInv, TablesInv, Parts, PartsOf
    <2>2. part > SizePart(kernel) /\ part > SizePart(kernel) + 1
      <3>1. part = SizePart(kernel) + 2
        BY <1>1, <2>1, AoutLayout
      <3> QED
        BY <3>1 DEF SizePart
    <2>3. /\ WrittenAt("SYMTAB", kVec.start + symp)
          /\ WrittenAt("STRTAB", kVec.start + symp + kernel.syms)
      BY <2>1, <2>2 DEF AoutInv
    <2>4. symspace' = kVec'.sym /\ strings' = kVec'.sym + kVec'.nsym
      BY <1>6 DEF LoadDone
    <2>5. SymbolsFound'
      BY <1>1, <1>2, <1>6, <2>3, <2>4 DEF SymbolsFound, WrittenAt
    <2> QED
      BY <1>4, <2>5 DEF SymbolsInv
  <1>7. CASE ~HasSymbols(kernel)
    BY <1>1, <1>4, <1>7 DEF SymbolsInv, SymbolsFound
  <1> QED
    BY <1>3, <1>5, <1>6, <1>7, KernelFields

(* A part of an ELF kernel is read.                                        *)
LEMMA ElfTablesKept ==
    ASSUME LoadInv, SymbolsInv, ParsePart, pass = "load", HasSymbols(kernel),
           kernel.fmt = "elf"
    PROVE  HeaderInv' /\ FoundInv'
  <1> DEFINE p    == Parts[part + 1]
             from == kVec.start + Start(p)
             n    == Len(kernel.segments)
             m    == Len(kernel.sections)
  <1>1. /\ kernel \in ElfKernel /\ Parts = ElfParts(kernel)
        /\ HeaderInv /\ FoundInv
    BY KernelFields DEF LoadInv, TypeOK, SymbolsInv, TablesInv, Parts, PartsOf
  <1>2. /\ part' = part + 1 /\ kernel' = kernel /\ kVec' = kVec /\ part < Len(Parts)
        /\ maxp' = IF Tested(p) THEN Reach(p) ELSE maxp
        /\ symp' = CASE Tested(p) /\ p.what = "ehdr"    -> maxp
                     [] Tested(p) /\ p.what = "symsize" -> maxp'
                     [] OTHER -> symp
    BY DEF ParsePart
  <1>3. /\ Tested(p) /\ p.what \in TableTypes =>
              tables' = [tables EXCEPT ![p.what] = off] /\ off' = off + p.room
        /\ ~(Tested(p) /\ p.what \in TableTypes) => tables' = tables /\ off' = off
    BY DEF ParsePart
  <1>4. /\ \A w \in written : w \in written'
        /\ Tested(p) /\ from < from + p.size + p.zero =>
              \E w \in written' : w.what = p.what /\ w.from = from
    <2>1. written' = IF Tested(p) /\ from < from + p.size + p.zero
                     THEN written \cup {[what |-> p.what, from |-> from,
                                         to |-> from + p.size + p.zero]}
                     ELSE written
      BY DEF ParsePart
    <2> DEFINE x == [what |-> p.what, from |-> from, to |-> from + p.size + p.zero]
    <2>x. x.what = p.what /\ x.from = from
      OBVIOUS
    <2> HIDE DEF p, from, x
    <2>2. \A w \in written : w \in written'
      BY <2>1
    <2>3. Tested(p) /\ from < from + p.size + p.zero => x \in written'
      BY <2>1 DEF x
    <2> QED
      BY <2>2, <2>3, <2>x
  <1>5. /\ n \in Nat /\ m \in Nat /\ Len(Parts) = n + 3 + m
        /\ \A i \in 1 .. n : Parts[i] = SegmentPart(kernel.segments[i])
        /\ Parts[n + 1] = Pad("ALWAYS", SizeofLong)
        /\ Parts[n + 2] = HeaderPart(kernel) /\ Parts[n + 3] = SectionsPart(kernel)
        /\ \A i \in 1 .. m : Parts[n + 3 + i] = SectionPart(kernel, i)
    BY <1>1, ElfLayout
  <1>6. /\ part \in Nat /\ maxp \in Nat /\ symp \in Nat /\ off \in Nat /\ kVec.start \in Nat
        /\ tables \in [TableTypes -> Nat]
    BY PartsFit DEF LoadInv, TypeOK, Parts
  <1>7. /\ FirstOffset(kernel) > 0 /\ FirstOffset(kernel) \in Nat
        /\ SectionsPart(kernel).room \in Nat
        /\ FirstOffset(kernel) = SizeofEhdr + SectionsPart(kernel).room
    BY <1>1, FirstOffsetIs
  <1>8. CASE part < n + 3
    <2>1. p.what \notin TableTypes
      <3> HIDE DEF p
      <3>1. CASE part < n
        <4>1. part + 1 \in 1 .. n
          BY <3>1, <1>5, <1>6
        <4>2. p = SegmentPart(kernel.segments[part + 1])
          BY <4>1, <1>5 DEF p
        <4> QED
          BY <4>2 DEF SegmentPart, TableTypes
      <3>2. CASE part = n
        <4>1. p = Pad("ALWAYS", SizeofLong)
          BY <3>2, <1>5 DEF p
        <4> QED
          BY <4>1 DEF Pad, Appended, TableTypes
      <3>3. CASE part = n + 1
        <4>1. part + 1 = n + 2
          BY <3>3, <1>5
        <4>2. p = HeaderPart(kernel)
          BY <4>1, <1>5 DEF p
        <4> QED
          BY <4>2 DEF HeaderPart, Appended, TableTypes
      <3>4. CASE part = n + 2
        <4>1. part + 1 = n + 3
          BY <3>4, <1>5
        <4>2. p = SectionsPart(kernel)
          BY <4>1, <1>5 DEF p
        <4> QED
          BY <4>2 DEF SectionsPart, Appended, TableTypes
      <3> QED
        BY <3>1, <3>2, <3>3, <3>4, <1>5, <1>6, <1>8
    <2>2. /\ off' = off /\ tables' = tables /\ off = FirstOffset(kernel) /\ tables = NoTables
      BY <2>1, <1>1, <1>3, <1>8 DEF HeaderInv, Base
    <2>b. Base' = n + 3 /\ part' = part + 1
      BY <1>2 DEF Base
    <2>3. part' = Base' - 1 => maxp' = symp' + SizeofEhdr
      <3> SUFFICES ASSUME part = n + 1 PROVE maxp' = symp' + SizeofEhdr
        BY <2>b, <1>5, <1>6
      <3>0. part + 1 = n + 2
        BY <1>5
      <3>1. p = HeaderPart(kernel)
        BY <3>0, <1>5
      <3> HIDE DEF p
      <3>2. Tested(p) /\ p.what = "ehdr" /\ p.kind = "tail" /\ p.room = SizeofEhdr
        BY <3>1 DEF HeaderPart, Appended, Tested, LOAD_KERNEL, COUNT_KERNEL, Flags
      <3> QED
        BY <3>2, <1>2 DEF Reach
    <2>4. part' >= Base' => maxp' = symp' + off'
      <3> SUFFICES ASSUME part = n + 2 PROVE maxp' = symp' + off'
        BY <2>b, <1>5, <1>6, <1>8
      <3>0. part + 1 = n + 3
        BY <1>5
      <3>1. p = SectionsPart(kernel)
        BY <3>0, <1>5
      <3>2. maxp = symp + SizeofEhdr
        BY <1>1, <1>5 DEF HeaderInv, Base
      <3> HIDE DEF p
      <3>3. Tested(p) /\ p.what = "shdrs" /\ p.kind = "tail"
        BY <3>1 DEF SectionsPart, Appended, Tested, LOAD_KERNEL, COUNT_KERNEL, Flags
      <3>4. maxp' = maxp + SectionsPart(kernel).room /\ symp' = symp
        BY <3>1, <3>3, <1>2 DEF Reach
      <3>5. \A a, r \in Nat : a + SizeofEhdr + r = a + (SizeofEhdr + r)
        BY DEF SizeofEhdr
      <3>6. maxp' = symp + (SizeofEhdr + SectionsPart(kernel).room)
        BY <3>2, <3>4, <3>5, <1>6, <1>7
      <3> QED
        BY <2>2, <3>4, <3>6, <1>7
    <2>5. HeaderInv'
      BY <2>2, <2>3, <2>4, <1>2, <1>7 DEF HeaderInv
    <2>6. FoundInv'
      <3>1. \A i \in 1 .. m : ~(part + 1 >= n + 3 + i)
        BY <1>5, <1>6, <1>8
      <3>2. \A t \in {"SYMTAB", "STRTAB"} : tables'[t] = 0
        BY <2>2 DEF NoTables, TableTypes
      <3> QED
        BY <3>1, <3>2, <1>2 DEF FoundInv, Base
    <2> QED
      BY <2>5, <2>6
  <1>9. CASE part >= n + 3
    <2> DEFINE i == part - n - 2
               s == kernel.sections[i]
    <2>0. part < n + 3 + m
      BY <1>2, <1>5
    <2>1. i \in 1 .. m /\ part + 1 = n + 3 + i
      <3> HIDE DEF n, m, p
      <3>1. n \in Nat /\ m \in Nat
        BY <1>5
      <3> QED
        BY <2>0, <3>1, <1>6, <1>9
    <2>2. p = SectionPart(kernel, i)
      BY <2>1, <1>5
    <2>3. s.type \in {"SYMTAB", "STRTAB", "SHSTRTAB", "OTHER"} /\ s.size \in Nat
      <3>1. kernel.sections \in Seq(Section)
        BY <1>1 DEF ElfKernel
      <3>2. s \in Section
        BY <2>1, <3>1, ElementOfSeq
      <3> QED
        BY <3>2 DEF Section
    <2>4. maxp = symp + off /\ off > 0
      BY <1>1, <1>5, <1>6, <1>9 DEF HeaderInv, Base
    <2>5. part' >= Base' /\ part >= Base
      BY <1>2, <1>5, <1>6, <1>9 DEF Base
    <2>6. CASE s.type \notin TableTypes
      <3>1. p.flag = "NONE" /\ p.what = s.type
        BY <2>2, <2>6 DEF SectionPart, IsTable, Appended
      <3>2. ~Tested(p)
        BY <3>1 DEF Tested, LOAD_KERNEL, COUNT_KERNEL, Flags
      <3> HIDE DEF p, i, s
      <3>3. maxp' = maxp /\ symp' = symp /\ off' = off /\ tables' = tables
        BY <3>2, <1>2, <1>3
      <3>4. HeaderInv'
        BY <3>3, <2>4, <2>5, <1>2, <1>5, <1>6 DEF HeaderInv, Base
      <3>5. \A t \in {"SYMTAB", "STRTAB"} :
               tables'[t] # 0 => WrittenAt(t, kVec.start + symp + tables[t])'
        BY <3>3, <1>1, <1>2, <1>4 DEF FoundInv, WrittenAt
      <3>6. \A t \in {"SYMTAB", "STRTAB"} : \A j \in 1 .. m :
               kernel.sections[j].type = t /\ part + 1 >= n + 3 + j => tables[t] # 0
        <4> TAKE t \in {"SYMTAB", "STRTAB"}
        <4> TAKE j \in 1 .. m
        <4> HAVE kernel.sections[j].type = t /\ part + 1 >= n + 3 + j
        <4>1. j # i
          BY <2>6 DEF s, TableTypes
        <4>2. part >= n + 3 + j
          BY SMTT(30), <4>1, <2>1, <1>5, <1>6 DEF i
        <4> QED
          BY <4>2, <1>1 DEF FoundInv, Base
      <3>7. FoundInv'
        BY <3>3, <3>5, <3>6, <1>2 DEF FoundInv, Base
      <3> QED
        BY <3>4, <3>7
    <2>7. CASE s.type \in TableTypes
      <3>1. \E j \in 1 .. Len(kernel.sections) : kernel.sections[j].type = "SYMTAB"
        BY DEF HasSymbols
      <3>2. s.size > 0
        BY <2>1, <2>7 DEF HasSymbols, IsTable
      <3>3. p = Appended(s.type, "SYM", s.size, 0, RoundUp(s.size, SizeofLong))
        BY <2>2, <2>7, <3>1 DEF SectionPart, IsTable
      <3>4. RoundUp(s.size, SizeofLong) \in Nat
        BY <2>3, RoundUpLong
      <3> HIDE DEF p, i, s
      <3>5. /\ p.what = s.type /\ p.kind = "tail" /\ p.size = s.size /\ p.zero = 0
            /\ p.room \in Nat /\ p.flag = "SYM"
        BY <3>3, <3>4 DEF Appended
      <3>6. Tested(p)
        BY <3>5 DEF Tested, LOAD_KERNEL, COUNT_KERNEL, Flags
      <3>7. /\ maxp' = maxp + p.room /\ symp' = symp
            /\ off' = off + p.room /\ tables' = [tables EXCEPT ![s.type] = off]
        <4>1. p.what # "ehdr" /\ p.what # "symsize"
          BY <3>5, <2>7 DEF TableTypes
        <4> QED
          BY <4>1, <3>5, <3>6, <2>7, <1>2, <1>3 DEF Reach
      <3>8. \E w \in written' : w.what = s.type /\ w.from = kVec.start + symp + off
        <4>1. from = kVec.start + maxp /\ from < from + p.size + p.zero
          BY <3>2, <3>5, <2>3, <1>6 DEF Start
        <4>2. from = kVec.start + symp + off
          BY <4>1, <2>4, <1>6
        <4> HIDE DEF from
        <4>3. \E w \in written' : w.what = p.what /\ w.from = from
          BY <3>6, <4>1, <1>4
        <4> QED
          BY <4>2, <4>3, <3>5
      <3>9. HeaderInv'
        <4>1. off' > 0 /\ maxp' = symp' + off'
          BY <3>5, <3>7, <2>4, <1>6
        <4> QED
          BY <4>1, <2>5, <1>2, <1>5, <1>6 DEF HeaderInv, Base
      <3>10. ASSUME NEW t \in {"SYMTAB", "STRTAB"}, tables'[t] # 0
             PROVE  WrittenAt(t, kVec.start + symp + tables[t])'
        <4>1. CASE t = s.type
          <5>1. tables'[t] = off
            BY <4>1, <3>7, <2>7, <1>6
          <5> QED
            BY <4>1, <5>1, <3>7, <3>8, <1>2 DEF WrittenAt
        <4>2. CASE t # s.type
          <5>1. tables'[t] = tables[t]
            BY <4>2, <3>7, <1>6 DEF TableTypes
          <5>2. WrittenAt(t, kVec.start + symp + tables[t])
            BY <5>1, <3>10, <1>1 DEF FoundInv
          <5> QED
            BY <5>1, <5>2, <3>7, <1>2, <1>4 DEF WrittenAt
        <4> QED
          BY <4>1, <4>2
      <3>11. ASSUME NEW t \in {"SYMTAB", "STRTAB"}, NEW j \in 1 .. m,
                    kernel.sections[j].type = t, part + 1 >= n + 3 + j
             PROVE  tables'[t] # 0
        <4>1. CASE t = s.type
          <5>1. tables'[t] = off
            BY <4>1, <3>7, <2>7, <1>6
          <5> QED
            BY <5>1, <2>4, <1>6
        <4>2. CASE t # s.type
          <5>1. tables'[t] = tables[t]
            BY <4>2, <3>7, <1>6 DEF TableTypes
          <5>2. j # i
            BY <4>2, <3>11 DEF s
          <5>3. part >= n + 3 + j
            BY SMTT(30), <5>2, <3>11, <2>1, <1>5, <1>6 DEF i
          <5> QED
            BY <5>1, <5>3, <3>11, <1>1 DEF FoundInv, Base
        <4> QED
          BY <4>1, <4>2
      <3>12. FoundInv'
        BY <3>10, <3>11, <1>2 DEF FoundInv, Base
      <3> QED
        BY <3>9, <3>12
    <2> QED
      BY <2>6, <2>7
  <1> QED
    BY <1>5, <1>6, <1>8, <1>9

(* A part of an a.out kernel is read.                                      *)
LEMMA AoutTablesKept ==
    ASSUME LoadInv, SymbolsInv, ParsePart, pass = "load", HasSymbols(kernel),
           kernel.fmt = "aout"
    PROVE  AoutInv'
  <1> DEFINE p    == Parts[part + 1]
             from == kVec.start + Start(p)
             s    == SizePart(kernel)
  <1>1. /\ kernel \in AoutKernel /\ kernel \in Kernels /\ Parts = AoutParts(kernel)
        /\ AoutInv /\ kernel.syms \in Nat /\ kernel.syms > 0
        /\ kernel.strs \in Nat /\ kernel.strs > 0
    <2>1. kernel \in Kernels /\ kernel \in AoutKernel
      BY KernelsAssumption DEF LoadInv, TypeOK, ElfKernel
    <2>2. kernel.syms \in Nat /\ kernel.strs \in Nat
      BY <2>1 DEF AoutKernel
    <2> QED
      BY <2>1, <2>2, TextAssumption
      DEF SymbolsInv, TablesInv, Parts, PartsOf, HasSymbols, SizeofLong
  <1>2. /\ part' = part + 1 /\ kernel' = kernel /\ kVec' = kVec /\ part < Len(Parts)
        /\ maxp' = IF Tested(p) THEN Reach(p) ELSE maxp
        /\ symp' = CASE Tested(p) /\ p.what = "ehdr"    -> maxp
                     [] Tested(p) /\ p.what = "symsize" -> maxp'
                     [] OTHER -> symp
    BY DEF ParsePart
  <1>3. /\ \A w \in written : w \in written'
        /\ Tested(p) /\ from < from + p.size + p.zero =>
              \E w \in written' : w.what = p.what /\ w.from = from
    <2>1. written' = IF Tested(p) /\ from < from + p.size + p.zero
                     THEN written \cup {[what |-> p.what, from |-> from,
                                         to |-> from + p.size + p.zero]}
                     ELSE written
      BY DEF ParsePart
    <2> DEFINE x == [what |-> p.what, from |-> from, to |-> from + p.size + p.zero]
    <2>x. x.what = p.what /\ x.from = from
      OBVIOUS
    <2> HIDE DEF p, from, x
    <2>2. \A w \in written : w \in written'
      BY <2>1
    <2>3. Tested(p) /\ from < from + p.size + p.zero => x \in written'
      BY <2>1 DEF x
    <2> QED
      BY <2>2, <2>3, <2>x
  <1>4. /\ Len(Parts) = s + 2
        /\ Parts[s] = Appended("symsize", "SYM", SizeofLong, 0, SizeofLong)
        /\ Parts[s + 1] = Appended("SYMTAB", "SYM", kernel.syms, 0, kernel.syms)
        /\ Parts[s + 2] = Appended("STRTAB", "SYM", kernel.strs, 0, kernel.strs)
    BY <1>1, AoutLayout
  <1>5. /\ part \in Nat /\ maxp \in Nat /\ symp \in Nat /\ kVec.start \in Nat
        /\ s \in {5, 6} /\ SizePart(kernel)' = s
    BY <1>2, PartsFit DEF LoadInv, TypeOK, Parts, SizePart
  <1>a. /\ part = s => maxp = symp
        /\ part = s + 1 => maxp = symp + kernel.syms
        /\ part > s => WrittenAt("SYMTAB", kVec.start + symp)
        /\ part > s + 1 => WrittenAt("STRTAB", kVec.start + symp + kernel.syms)
    BY <1>1 DEF AoutInv
  <1>6. CASE part < s - 1
    <2> HIDE DEF s
    <2>1. ~(part + 1 = s) /\ ~(part + 1 = s + 1) /\ ~(part + 1 > s) /\ ~(part + 1 > s + 1)
      BY <1>5, <1>6
    <2> QED
      BY <2>1, <1>2, <1>5 DEF AoutInv
  <1>7. CASE part = s - 1
    <2>1. p = Appended("symsize", "SYM", SizeofLong, 0, SizeofLong)
      <3> HIDE DEF s
      <3>1. part + 1 = s
        BY <1>5, <1>7
      <3> QED
        BY <3>1, <1>4
    <2> HIDE DEF p, from
    <2>2. Tested(p) /\ p.what = "symsize"
      BY <2>1 DEF Appended, Tested, LOAD_KERNEL, COUNT_KERNEL, Flags
    <2>3. symp' = maxp'
      BY <2>2, <1>2
    <2> HIDE DEF s
    <2>4. ~(part + 1 = s + 1) /\ ~(part + 1 > s) /\ ~(part + 1 > s + 1)
      BY <1>5, <1>7
    <2> QED
      BY <2>3, <2>4, <1>2, <1>5 DEF AoutInv
  <1>8. CASE part = s
    <2>1. p = Appended("SYMTAB", "SYM", kernel.syms, 0, kernel.syms)
      BY <1>4, <1>8
    <2>2. maxp = symp
      BY <1>8, <1>a
    <2>3. /\ Tested(p) /\ p.what = "SYMTAB" /\ p.kind = "tail"
          /\ p.size = kernel.syms /\ p.zero = 0 /\ p.room = kernel.syms
      <3> HIDE DEF p
      <3> QED
        BY <2>1 DEF Appended, Tested, LOAD_KERNEL, COUNT_KERNEL, Flags
    <2>4. from = kVec.start + symp
      <3> HIDE DEF p
      <3> QED
        BY <2>2, <2>3 DEF Start
    <2> HIDE DEF p, from, s
    <2>5. symp' = symp /\ maxp' = symp + kernel.syms
      BY <2>2, <2>3, <1>2 DEF Reach
    <2>6. from < from + p.size + p.zero
      BY <2>3, <2>4, <1>1, <1>5
    <2>7. \E w \in written' : w.what = "SYMTAB" /\ w.from = kVec.start + symp
      BY <2>3, <2>4, <2>6, <1>3
    <2>8. ~(part + 1 = s) /\ ~(part + 1 > s + 1)
      BY <1>5, <1>8
    <2>9. WrittenAt("SYMTAB", kVec.start + symp)'
      BY <2>5, <2>7, <1>2 DEF WrittenAt
    <2> QED
      BY <2>5, <2>8, <2>9, <1>2, <1>5 DEF AoutInv
  <1>9. CASE part = s + 1
    <2>1. p = Appended("STRTAB", "SYM", kernel.strs, 0, kernel.strs)
      <3> HIDE DEF s
      <3>1. part + 1 = s + 2
        BY <1>5, <1>9
      <3> QED
        BY <3>1, <1>4
    <2>2. maxp = symp + kernel.syms /\ WrittenAt("SYMTAB", kVec.start + symp)
      <3> HIDE DEF s
      <3>1. part > s
        BY <1>5, <1>9
      <3> QED
        BY <3>1, <1>9, <1>a
    <2>3. /\ Tested(p) /\ p.what = "STRTAB" /\ p.kind = "tail"
          /\ p.size = kernel.strs /\ p.zero = 0
      <3> HIDE DEF p
      <3> QED
        BY <2>1 DEF Appended, Tested, LOAD_KERNEL, COUNT_KERNEL, Flags
    <2>4. from = kVec.start + symp + kernel.syms
      <3> HIDE DEF p
      <3>1. from = kVec.start + maxp
        BY <2>3 DEF Start
      <3> HIDE DEF from
      <3> QED
        BY <2>2, <3>1, <1>1, <1>5
    <2> HIDE DEF p, from, s
    <2>5. symp' = symp
      BY <2>3, <1>2
    <2>6. from < from + p.size + p.zero
      BY <2>3, <2>4, <1>1, <1>5
    <2>7. \E w \in written' : w.what = "STRTAB" /\ w.from = kVec.start + symp + kernel.syms
      BY <2>3, <2>4, <2>6, <1>3
    <2>8. ~(part + 1 = s) /\ ~(part + 1 = s + 1)
      BY <1>5, <1>9
    <2>9. WrittenAt("SYMTAB", kVec.start + symp)'
      BY <2>2, <2>5, <1>2, <1>3 DEF WrittenAt
    <2>10. WrittenAt("STRTAB", kVec.start + symp + kernel.syms)'
      BY <2>5, <2>7, <1>2 DEF WrittenAt
    <2> QED
      BY <2>8, <2>9, <2>10, <1>2, <1>5 DEF AoutInv
  <1> QED
    <2> HIDE DEF s
    <2>1. part < s - 1 \/ part = s - 1 \/ part = s \/ part = s + 1
      BY SMTT(30), <1>2, <1>4, <1>5
    <2> QED
      BY <2>1, <1>6, <1>7, <1>8, <1>9

LEMMA SymbolsRead == LoadInv /\ SymbolsInv /\ ParsePart => SymbolsInv'
  <1> SUFFICES ASSUME LoadInv, SymbolsInv, ParsePart PROVE SymbolsInv'
    OBVIOUS
  <1>1. phase' = "parse" /\ kernel' = kernel /\ pass' = pass
    BY DEF ParsePart
  <1>2. SymbolsFound'
    BY <1>1 DEF SymbolsFound
  <1>3. HasSymbols(kernel)' <=> HasSymbols(kernel)
    BY <1>1 DEF HasSymbols
  <1>4. TablesInv'
    BY <1>1, <1>3, ElfTablesKept, AoutTablesKept DEF TablesInv
  <1> QED
    BY <1>2, <1>4 DEF SymbolsInv

(* The pointers copyunix looks symbols up with are where the tables were   *)
(* loaded, whatever sections a kernel has and in what order (elf_exec and  *)
(* getElfSptrs, aout_exec).                                                *)
THEOREM SymbolsCorrect == Spec => []SymbolsFound
  <1>1. Init => SymbolsInv
    BY DEF Init, SymbolsInv, TablesInv, SymbolsFound
  <1>2. LoadInv /\ SymbolsInv /\ [Next]_vars => SymbolsInv'
    BY SymbolsFirst, SymbolsKept, SymbolsLoaded, SymbolsRead DEF Next, Done
  <1>3. SymbolsInv => SymbolsFound
    BY DEF SymbolsInv
  <1> QED
    BY <1>1, <1>2, <1>3, InvHolds, PTL DEF Spec
=============================================================================
