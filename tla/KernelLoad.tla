----------------------------- MODULE KernelLoad -----------------------------
(***************************************************************************)
(* Loading a kernel: kernel_parse makes one pass over the file to count    *)
(* the memory it needs, copyunix allocates that much, a second pass loads  *)
(* it, and copyunix then places its environment and the copying code in    *)
(* the space it left.  kVec and the symbol pointers are globals: the boots *)
(* of one session find what the one before left in them.                   *)
(*                                                                         *)
(* Both passes are elf_exec or aout_exec of loadfile.c, whose straight     *)
(* line of "read this, advance maxp" steps is here a sequence of parts, a  *)
(* part a step.  Any step may be the last of its boot: a read fails, or an *)
(* EVENT_CHECK finds that the boot was stopped.                            *)
(***************************************************************************)
EXTENDS Integers, Sequences

CONSTANTS
    Kernels,            \* the kernel files a session can meet
    Blocks,             \* addresses the Memory Manager may return
    MaxMem,             \* the largest free block, in bytes
    MaxBoots            \* bound: boots in a session

SizeofEhdr == 52
SizeofShdr == 40
SizeofExec == 32
SizeofLong == 4
NoAddress  == 2147483647    \* ~0, larger than any address in a kernel
BufferRoom == 262144        \* envbuf, unused space, copy of copycode ()
CodeRoom   == 1024          \* where copycode () is copied to
EnvSize    == 2048          \* what SetupEnv can write

(* A program header, and a section header.                                 *)
Segment == [load : BOOLEAN, text : BOOLEAN, data : BOOLEAN,
            vaddr : Nat, filesz : Nat, memsz : Nat]
Section == [type : {"SYMTAB", "STRTAB", "SHSTRTAB", "OTHER"}, size : Nat]

ElfKernel  == [fmt : {"elf"}, entry : Nat, pagesz : {8192},
               segments : Seq(Segment), sections : Seq(Section)]
AoutKernel == [fmt : {"aout"}, entry : Nat, pagesz : {4096, 8192},
               magic : {"OMAGIC", "NMAGIC", "ZMAGIC", "QMAGIC"},
               text : Nat, data : Nat, bss : Nat, syms : Nat, strs : Nat]

ASSUME KernelsAssumption == Kernels \subseteq ElfKernel \cup AoutKernel
ASSUME TextAssumption == \A k \in Kernels :
                             k.fmt = "aout" => k.text >= SizeofExec /\ k.strs > SizeofLong
ASSUME BlocksAssumption  == Blocks \subseteq Nat \ {0}
ASSUME BoundsAssumption  == MaxMem \in Nat /\ MaxBoots \in Nat

VARIABLES
    kernel,             \* the file this boot reads
    kVec,               \* the marks
    symspace, strings,  \* where the symbols and their names are
    phase, boots,       \* where copyunix is
    pass, part,         \* COUNT_KERNEL or LOAD_KERNEL, and parts done
    minp, maxp, symp,   \* loadfile.c's locals; symp is elfp or aoutp
    tables,             \* new offset of the last table of each type, or 0
    off,                \* the offset the next table will get
    buf, bufstart, len, \* copyunix's buffer, its aligned part and its length
    harry,              \* where copycode () is copied to
    boot_entry,         \* the address it will jump to
    counted,            \* history: maxp after each part of the first pass
    written,            \* history: what the second pass wrote, and where
    blockLen,           \* history: the size of the block at buf
    refused             \* history: the boot ended for lack of memory

passVars == <<pass, part, minp, maxp, symp, tables, off>>
bufVars  == <<buf, bufstart, len, harry, boot_entry>>
histVars == <<counted, written, blockLen, refused>>
vars == <<kernel, kVec, symspace, strings, phase, boots, passVars, bufVars, histVars>>

RoundUp(n, to) == ((n + to - 1) \div to) * to
LowerOf(a, b)  == IF a < b THEN a ELSE b
UpperOf(a, b)  == IF a < b THEN b ELSE a
-----------------------------------------------------------------------------
(* The parts of a kernel.  A "placed" part has an address of its own, a    *)
(* "tail" part goes to maxp and takes `room' there, a "pad" part rounds    *)
(* maxp up to a multiple of `room'.  `flag' names the LOAD_ and COUNT_     *)
(* flag loadfile.c tests for it; size + zero bytes are written.            *)
Flags == {"TEXT", "TEXTA", "DATA", "BSS", "SYM", "HDR"}
Names == {"segment", "pad", "ehdr", "shdrs", "SYMTAB", "STRTAB", "SHSTRTAB", "OTHER",
          "exec", "text", "data", "bss", "symsize"}
Part  == [what : Names, kind : {"placed", "tail", "pad"}, flag : Flags \cup {"ALWAYS", "NONE"},
          at : Nat, size : Nat, zero : Nat, room : Nat]

Appended(what, flag, size, zero, room) ==
    [what |-> what, kind |-> "tail", flag |-> flag,
     at |-> 0, size |-> size, zero |-> zero, room |-> room]
Pad(flag, to) == [Appended("pad", flag, 0, 0, to) EXCEPT !.kind = "pad"]

(* A segment that is not loadable, or neither text nor data, is skipped.   *)
SegmentPart(s) ==
    [what |-> "segment", kind |-> "placed", at |-> s.vaddr,
     flag |-> IF s.load /\ (s.text \/ s.data) THEN "TEXT" ELSE "NONE",
     size |-> s.filesz, zero |-> UpperOf(s.memsz, s.filesz) - s.filesz, room |-> 0]

TableTypes == {"SYMTAB", "STRTAB", "SHSTRTAB"}
IsTable(s) == s.type \in TableTypes
(* String tables are counted, but not read, when there are no symbols.     *)
SectionPart(k, i) ==
    LET s == k.sections[i]
        havesyms == \E j \in 1 .. Len(k.sections) : k.sections[j].type = "SYMTAB"
    IN  IF IsTable(s)
        THEN Appended(s.type, "SYM", IF havesyms THEN s.size ELSE 0, 0, RoundUp(s.size, SizeofLong))
        ELSE Appended(s.type, "NONE", 0, 0, 0)

ElfParts(k) ==
    LET sz == Len(k.sections) * SizeofShdr
    IN  [i \in 1 .. Len(k.segments) |-> SegmentPart(k.segments[i])]
        \o << Pad("ALWAYS", SizeofLong),
              Appended("ehdr", "HDR", SizeofEhdr, 0, SizeofEhdr),
              Appended("shdrs", "SYM", sz, 0, RoundUp(sz, SizeofLong)) >>
        \o [i \in 1 .. Len(k.sections) |-> SectionPart(k, i)]

(* In OMAGIC and NMAGIC the header is no part of the text, and it does not *)
(* fit below address 0 either.                                             *)
AoutParts(k) ==
    LET sub == IF k.magic \in {"OMAGIC", "NMAGIC"} THEN 0 ELSE SizeofExec
    IN  << Appended("exec", "HDR", sub, 0, sub),
           Appended("text", "TEXT", k.text - sub, 0, k.text - sub) >>
        \o (IF k.magic \in {"ZMAGIC", "NMAGIC"} THEN <<Pad("TEXTA", k.pagesz)>> ELSE <<>>)
        \o << Appended("data", "DATA", k.data, 0, k.data),
              Appended("bss", "BSS", 0, k.bss, k.bss),
              Appended("symsize", "SYM", SizeofLong, 0, SizeofLong) >>
        \o (IF k.syms = 0 THEN <<>>
            ELSE << Appended("SYMTAB", "SYM", k.syms, 0, k.syms),
                    Appended("STRTAB", "SYM", k.strs, 0, k.strs) >>)

HasSymbols(k) ==        \* both tables, none of them empty
    IF k.fmt = "aout" THEN k.syms > 0
    ELSE /\ \A t \in {"SYMTAB", "STRTAB"} :
               \E i \in 1 .. Len(k.sections) : k.sections[i].type = t
         /\ \A i \in 1 .. Len(k.sections) : IsTable(k.sections[i]) => k.sections[i].size > 0
LinkedAtZero(k) ==
    k.fmt = "elf" => \E i \in 1 .. Len(k.segments) :
        LET s == k.segments[i] IN s.load /\ (s.text \/ s.data) /\ s.vaddr = 0

PartsOf(k) == IF k.fmt = "elf" THEN ElfParts(k) ELSE AoutParts(k)
Parts == PartsOf(kernel)

LOAD_KERNEL == Flags
\* Defect: the pass that counts leaves the headers out.
COUNT_KERNELNoHeaders == Flags \ {"HDR"}
COUNT_KERNEL == Flags
Tested(p) == \/ p.flag = "ALWAYS"
             \/ p.flag \in IF pass = "load" THEN LOAD_KERNEL ELSE COUNT_KERNEL

(* Where a part begins, and where maxp is after it.                        *)
Start(p) == IF p.kind = "placed" THEN p.at ELSE maxp
\* Defect: the ELF header's size is not added to maxp.
ReachNoEhdr(p) == CASE p.kind = "placed" -> UpperOf(maxp, p.at + p.size + p.zero)
                    [] p.kind = "tail"   -> maxp + (IF p.what = "ehdr" THEN 0 ELSE p.room)
                    [] p.kind = "pad"    -> RoundUp(maxp, p.room)
Reach(p) == CASE p.kind = "placed" -> UpperOf(maxp, p.at + p.size + p.zero)
              [] p.kind = "tail"   -> maxp + p.room
              [] p.kind = "pad"    -> RoundUp(maxp, p.room)
-----------------------------------------------------------------------------
(* copyunix starts, and makes its first pass.                              *)

NoMarks == [start |-> 0, entry |-> 0, nsym |-> 0, sym |-> 0, end |-> 0]
NoTables == [what \in TableTypes |-> 0]
NoPass  == /\ pass' = "none" /\ part' = 0 /\ minp' = 0 /\ maxp' = 0 /\ symp' = 0
           /\ tables' = NoTables /\ off' = 0
NoBuffer == buf' = 0 /\ bufstart' = 0 /\ len' = 0 /\ harry' = 0 /\ boot_entry' = 0

\* Defect: the offsets of the tables leave out the ELF header.
FirstOffsetNoEhdr(k) == RoundUp(Len(k.sections) * SizeofShdr, SizeofLong)
FirstOffset(k) == RoundUp(SizeofEhdr + Len(k.sections) * SizeofShdr, SizeofLong)

StartPass(which, k) ==
    /\ pass' = which /\ part' = 0
    /\ minp' = IF k.fmt = "elf" THEN NoAddress ELSE 0
    /\ maxp' = 0 /\ symp' = 0 /\ tables' = NoTables
    /\ off' = IF k.fmt = "elf" THEN FirstOffset(k) ELSE 0
    /\ phase' = "parse"

Init ==
    /\ kernel \in Kernels
    /\ kVec = NoMarks /\ symspace = 0 /\ strings = 0
    /\ phase = "idle" /\ boots = 0
    /\ pass = "none" /\ part = 0 /\ minp = 0 /\ maxp = 0 /\ symp = 0
    /\ tables = NoTables /\ off = 0
    /\ buf = 0 /\ bufstart = 0 /\ len = 0 /\ harry = 0 /\ boot_entry = 0
    /\ counted = <<>> /\ written = {} /\ blockLen = 0 /\ refused = FALSE

Boot ==
    /\ phase = "idle" /\ boots < MaxBoots
    /\ kernel' \in Kernels
    /\ boots' = boots + 1
    /\ StartPass("count", kernel')
    /\ counted' = <<>> /\ written' = {} /\ blockLen' = 0 /\ refused' = FALSE
    /\ UNCHANGED <<kVec, symspace, strings, bufVars>>

(* One part: the first pass counts its room, the second reads it as well,  *)
(* all relative to the start mark the pass began with.                     *)
ParsePart ==
    /\ phase = "parse" /\ part < Len(Parts)
    /\ part' = part + 1
    /\ LET p    == Parts[part + 1]
           from == kVec.start + Start(p)
           to   == from + p.size + p.zero
           does == Tested(p)
       IN  /\ maxp' = IF does THEN Reach(p) ELSE maxp
           /\ minp' = IF does /\ p.kind = "placed" THEN LowerOf(minp, p.at) ELSE minp
           /\ symp' = CASE does /\ p.what = "ehdr"    -> maxp
                        [] does /\ p.what = "symsize" -> maxp'
                        [] OTHER -> symp
           /\ IF does /\ kernel.fmt = "elf" /\ p.what \in TableTypes
              THEN /\ tables' = [tables EXCEPT ![p.what] = off]
                   /\ off' = off + p.room
              ELSE UNCHANGED <<tables, off>>
           /\ IF pass = "count"
              THEN counted' = Append(counted, maxp') /\ UNCHANGED written
              ELSE /\ written' = IF does /\ from < to
                                 THEN written \cup {[what |-> p.what, from |-> from, to |-> to]}
                                 ELSE written
                   /\ UNCHANGED counted
    /\ UNCHANGED <<kernel, kVec, symspace, strings, phase, boots, pass, bufVars,
                   blockLen, refused>>

\* Defect: the entry stays an absolute address.
MarksAbsoluteEntry == [start |-> kVec.start + minp, entry |-> kVec.start + kernel.entry,
                       nsym |-> IF kernel.fmt = "aout" THEN kernel.syms ELSE 1,
                       sym |-> kVec.start + symp, end |-> kVec.start + maxp]
(* The entry is made relative to the start mark.                           *)
Marks == [start |-> kVec.start + minp,
          entry |-> (kVec.start + kernel.entry) - (kVec.start + minp),
          nsym |-> IF kernel.fmt = "aout" THEN kernel.syms ELSE 1,
          sym |-> kVec.start + symp, end |-> kVec.start + maxp]

CountDone ==
    /\ phase = "parse" /\ pass = "count" /\ part = Len(Parts)
    /\ kVec' = Marks
    /\ phase' = "counted"
    /\ NoPass
    /\ UNCHANGED <<kernel, symspace, strings, boots, bufVars, histVars>>

(* getElfSptrs takes the last table of a type; a type the kernel does not  *)
(* have leaves the pointer as it was.                                      *)
Pointer(what, before) ==
    IF tables[what] = 0 THEN before ELSE kVec'.sym + tables[what]

LoadDone ==
    /\ phase = "parse" /\ pass = "load" /\ part = Len(Parts)
    /\ kVec' = Marks
    /\ IF kernel.fmt = "elf"
       THEN symspace' = Pointer("SYMTAB", symspace) /\ strings' = Pointer("STRTAB", strings)
       ELSE symspace' = kVec'.sym /\ strings' = kVec'.sym + kVec'.nsym
    /\ phase' = "loaded"
    /\ NoPass
    /\ UNCHANGED <<kernel, boots, bufVars, histVars>>

(* The boot ends: CLEANUP disposes the buffer, the globals stay.           *)
EndBoot == phase' = "idle" /\ NoPass /\ NoBuffer

(* A read fails.  The entry is made relative whatever the loader returned. *)
ParseFails ==
    /\ phase = "parse"
    /\ EndBoot
    /\ kVec' = IF part = 0 THEN kVec ELSE [kVec EXCEPT !.entry = @ - kVec.start]
    /\ UNCHANGED <<kernel, symspace, strings, boots, histVars>>

(* An EVENT_CHECK finds the boot stopped, memory cannot be locked, or the  *)
(* user cancels.                                                           *)
Stop ==
    /\ phase \notin {"idle", "kernel"}
    /\ EndBoot
    /\ UNCHANGED <<kernel, kVec, symspace, strings, boots, histVars>>
-----------------------------------------------------------------------------
(* Between and after the passes.                                           *)

\* Defect: only the kernel's own size is asked for.
NeededNoRoom == kVec.end
Needed == kVec.end + BufferRoom

Refuse ==
    /\ phase = "counted" /\ Needed > MaxMem
    /\ refused' = TRUE
    /\ EndBoot
    /\ UNCHANGED <<kernel, kVec, symspace, strings, boots, counted, written, blockLen>>

\* Defect: the buffer is aligned downwards.
AlignedDown(b) == (b \div kernel.pagesz) * kernel.pagesz
Aligned(b) == RoundUp(b, kernel.pagesz)

(* NewPtrClear, the page alignment, and the start of the second pass.      *)
Allocate ==
    /\ phase = "counted" /\ Needed <= MaxMem
    /\ \E b \in Blocks :
         /\ buf' = b /\ bufstart' = Aligned(b)
         /\ len' = Needed - (Aligned(b) - b)
         /\ kVec' = [kVec EXCEPT !.start = Aligned(b)]
    /\ blockLen' = Needed
    /\ StartPass("load", kernel)
    /\ UNCHANGED <<kernel, symspace, strings, boots, harry, boot_entry,
                   counted, written, refused>>

(* The copying code goes to the last 1 KB below a page boundary.           *)
Patch ==
    /\ phase = "loaded"
    /\ len' = ((len - kernel.pagesz) \div kernel.pagesz) * kernel.pagesz
    /\ harry' = bufstart + len' - CodeRoom
    /\ boot_entry' = kVec.entry
    /\ phase' = "ready"
    /\ UNCHANGED <<kernel, kVec, symspace, strings, boots, passVars, buf, bufstart, histVars>>

EnterKernel ==
    /\ phase = "ready"
    /\ phase' = "kernel"
    /\ UNCHANGED <<kernel, kVec, symspace, strings, boots, passVars, bufVars, histVars>>

Done == (phase = "kernel" \/ (phase = "idle" /\ boots = MaxBoots)) /\ UNCHANGED vars

Next == \/ Boot \/ ParsePart \/ CountDone \/ LoadDone \/ ParseFails \/ Stop
        \/ Refuse \/ Allocate \/ Patch \/ EnterKernel \/ Done
Spec == Init /\ [][Next]_vars
-----------------------------------------------------------------------------
(* Every variable has its type, the aligned buffer within its block.       *)
TypeOK ==
    /\ kernel \in Kernels
    /\ kVec \in [start : Nat, entry : Int, nsym : Nat, sym : Nat, end : Nat]
    /\ symspace \in Nat /\ strings \in Nat
    /\ phase \in {"idle", "parse", "counted", "loaded", "ready", "kernel"}
    /\ boots \in 0 .. MaxBoots
    /\ pass \in {"none", "count", "load"} /\ part \in 0 .. Len(Parts)
    /\ minp \in Nat /\ maxp \in Nat /\ symp \in Nat /\ off \in Nat
    /\ tables \in [TableTypes -> Nat]
    /\ buf \in Blocks \cup {0} /\ bufstart \in buf .. buf + kernel.pagesz
    /\ len \in Int /\ harry \in Int /\ boot_entry \in Int
    /\ counted \in Seq(Nat) /\ blockLen \in 0 .. MaxMem /\ refused \in BOOLEAN
    /\ \A w \in written : w.what \in Names /\ w.from \in Nat /\ w.to \in Nat

(* The second pass writes nothing below the aligned buffer, nor beyond     *)
(* what the first pass counted, whatever an earlier boot left in kVec      *)
(* (loadfile.c's two sets of flags).                                       *)
LoadFits ==
    phase # "idle" =>
        \A w \in written : /\ bufstart <= w.from
                           /\ w.to <= bufstart + counted[Len(counted)]

(* When the kernel is ready, its end, the environment that is written      *)
(* there and the copying code follow one another inside the block          *)
(* (copyunix lines 325-490).                                               *)
BufferLayout ==
    phase \in {"ready", "kernel"} =>
        /\ \A w \in written : w.to <= kVec.end
        /\ kVec.end + EnvSize <= harry
        /\ harry + CodeRoom <= buf + blockLen

(* Headers, symbols and names never overwrite one another or a segment     *)
(* (the two places maxp is advanced, for counting and for reading).        *)
NothingOverwritten ==
    \A v, w \in written :
        v # w /\ v.what # "segment" => v.to <= w.from \/ w.to <= v.from

(* The pointers copyunix looks symbols up with are where the loader put    *)
(* the tables: getElfSptrs adds the offsets elf_exec stored in the section *)
(* headers to the address of the header, for a kernel that has both.       *)
SymbolsFound ==
    phase \in {"loaded", "ready", "kernel"} /\ HasSymbols(kernel) =>
        /\ \E w \in written : w.what = "SYMTAB" /\ w.from = symspace
        /\ \E w \in written : w.what = "STRTAB" /\ w.from = strings

(* The kernel is entered where its header says, when it is linked at 0,    *)
(* and is copied from where it was loaded (kernel_parse line 159).         *)
EntryRight ==
    phase \in {"ready", "kernel"} /\ LinkedAtZero(kernel) =>
        boot_entry = kernel.entry /\ kVec.start = bufstart
-----------------------------------------------------------------------------
(* What a message says and the code does not keep.                         *)

(* copy_and_boot.c line 333: "Not enough free memory to load this kernel." *)
RefusedOnlyWhenShort ==
    refused => counted[Len(counted)] + BufferRoom > MaxMem
=============================================================================
