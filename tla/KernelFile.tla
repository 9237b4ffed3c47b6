------------------------------ MODULE KernelFile ------------------------------
(***************************************************************************)
(* The kernel as the loader sees it: gzip.c, which reads ahead in a file   *)
(* of one of the back ends, finds out whether it is compressed, and gives  *)
(* its contents, with seeks, through a slot of booter_files.               *)
(*                                                                         *)
(* A file is a sequence of units: bytes that gzip.c treats alike.  A step  *)
(* is one turn of gzboot_read's loop, between two of which a boot may be   *)
(* stopped if it reads a disk.  Reads that fail are not modelled.          *)
(***************************************************************************)
EXTENDS Integers, Sequences, SequencesExt, FiniteSetsExt

CONSTANTS
    Files,              \* the kernels, by name
    File,               \* [gz, size, rest]: compressed?, units, units after the end
    Places,             \* where a boot takes its kernel: <<back end, file>>
    Ratio,              \* units of the kernel that a compressed unit stands for
    Z_BUFSIZE, DUMMYBUFSIZE,
    MAX_BOOTER_FILES,
    Lengths, Offsets,   \* what the loader reads and seeks
    MaxBoots,           \* bound: opens in a session
    MaxCalls,           \* bound: calls of read and lseek in a boot
    MaxFailures         \* bound: slots that cannot be initialised

kFooFileID == 42        \* what bootp_open returns; ufs_open gives the first free

ASSUME FilesAssumption ==
    \A f \in Files : /\ File[f].gz \in BOOLEAN /\ {File[f].size, File[f].rest} \subseteq Nat
                     /\ File[f].size > 0 /\ (File[f].gz => File[f].size % Ratio = 0)
ASSUME PlacesAssumption == Places \subseteq {"disk", "net"} \X Files
ASSUME SizesAssumption  ==
    {Ratio, Z_BUFSIZE, DUMMYBUFSIZE, MAX_BOOTER_FILES} \subseteq Nat \ {0}
(* A compressed kernel on a disk fills the buffer: no byte of a shorter one *)
(* is ever used, and it is taken for plain.                                *)
ASSUME LongAssumption ==
    \A f \in Files : File[f].gz /\ <<"disk", f>> \in Places =>
        Z_BUFSIZE <= File[f].size \div Ratio + 4 + File[f].rest
ASSUME BoundsAssumption ==
    /\ {MaxBoots, MaxCalls, MaxFailures} \subseteq Nat
    /\ Lengths \subseteq Nat /\ Offsets \subseteq Int

VARIABLES
    booter_files,       \* the slots that were taken, in order: bf_used stays set
    place,              \* the back end and file of this boot
    at,                 \* the back end's position in the file
    fd, kern_fd,        \* this boot's descriptor, and what kernel_open returned last
    inuse,              \* descriptors the back ends have open
    pc,                 \* "idle", "header", "open", a "read", or a "skip" of a seek
    room,               \* avail_out: units wanted
    got,                \* units delivered by the read
    toskip, goal,       \* gzboot_lseek's: units to skip, position asked for
    result,             \* what the last call returned
    boots, calls, failures,
    call,               \* history: the last call, and where it began
    offset              \* history: where the loader is in the kernel, or -1

vars == <<booter_files, place, at, fd, kern_fd, inuse, pc, room, got, toskip, goal, result,
          boots, calls, failures, call, offset>>
fdVars   == <<fd, kern_fd, inuse>>
callVars == <<room, got, toskip, goal, result, calls, call, offset>>
-----------------------------------------------------------------------------
(* Units of the file, and what the back ends read of them.                 *)

Unit(kind, f, num) == [kind |-> kind, file |-> f, num |-> num]
Junk == Unit("junk", "none", 0)         \* whatever is in memory there
Kernel(f, i) == Unit("kernel", f, i)
EOF == Unit("eof", "none", 0)

(* Magic number, rest of the header, compressed kernel, checksum, size.    *)
Units(f) ==
    LET Padding == [i \in 1 .. File[f].rest |-> Unit("padding", f, 0)]
    IN  IF ~File[f].gz THEN [i \in 1 .. File[f].size |-> Kernel(f, i - 1)] \o Padding
        ELSE <<Unit("magic", f, 0), Unit("header", f, 0)>>
             \o [i \in 1 .. File[f].size \div Ratio |-> Unit("data", f, i - 1)]
             \o <<Unit("crc", f, 0), Unit("size", f, 0)>> \o Padding

file == place[2]
UnitAt(i) == IF i \in 1 .. Len(Units(file)) THEN Units(file)[i] ELSE Junk
(* ufs_read and macos_read stop at the end of the file, but bootp_read has *)
(* a buffer larger than the file, and always as much as is asked for.      *)
bootp_read(pos, len) == [i \in 1 .. len |-> UnitAt(pos + i)]
macos_read(pos, len) ==
    LET left == IF pos >= Len(Units(file)) THEN 0 ELSE Len(Units(file)) - pos
    IN  [i \in 1 .. Min({len, left}) |-> UnitAt(pos + i)]
boot_read(pos, len) ==
    IF place[1] = "net" THEN bootp_read(pos, len) ELSE macos_read(pos, len)

JunkOf(units) == [i \in DOMAIN units |-> Junk]
FirstOf(units, count) == SubSeq(units, 1, count)
AllButFirst(units, count) == SubSeq(units, count + 1, Len(units))
-----------------------------------------------------------------------------
(* A slot with its stream.  `ahead' are the avail_in units at next_in;     *)
(* `consumed' and `total_out' count units into and out of inflate.  `pos'  *)
(* is the back end's position while a call works on the slot.  `boot',     *)
(* `gz' and `ended' are history: which boot read a header with the slot,   *)
(* whether its file was compressed, whether the whole stream was checked.  *)

NewSlot(d) ==
    [consumed |-> 0, total_out |-> 0, ahead |-> <<>>, next_null |-> TRUE, live |-> TRUE,
     fd |-> d, z_err |-> "Z_OK", z_eof |-> FALSE, inbuf |-> TRUE, transparent |-> FALSE,
     pos |-> 0, boot |-> 0, gz |-> FALSE, ended |-> FALSE]

Filled(s, units) == [s EXCEPT !.pos = @ + Len(units), !.z_eof = Len(units) # Z_BUFSIZE]
(* With a short read, next_in is not where the bytes are.                  *)
FirstByte(s, units) ==
    IF s.z_eof THEN [slot |-> [s EXCEPT !.ahead = JunkOf(units)], c |-> EOF]
    ELSE [slot |-> [s EXCEPT !.ahead = Tail(units), !.next_null = FALSE], c |-> Head(units)]
FillAndGet(s, units) == FirstByte(Filled(s, units), units)
get_byte(s) ==
    IF s.z_eof THEN [slot |-> s, c |-> EOF]
    ELSE IF s.ahead # <<>>
    THEN [slot |-> [s EXCEPT !.ahead = Tail(@)], c |-> Head(s.ahead)]
    ELSE FillAndGet(s, boot_read(s.pos, Z_BUFSIZE))

(* Anything but the magic number is put back: the file is not compressed.  *)
NotCompressed(s, ahead) ==
    [s EXCEPT !.transparent = TRUE, !.ahead = ahead,
              !.z_err = IF ahead # <<>> THEN "Z_OK" ELSE "Z_STREAM_END"]
RestOfHeader(header) ==
    [header.slot EXCEPT !.transparent = FALSE,
        !.z_err = IF header.slot.z_eof \/ header.c.kind # "header" THEN "Z_DATA_ERROR" ELSE "Z_OK"]
Magic(magic) ==
    IF magic.c.kind = "magic" THEN RestOfHeader(get_byte(magic.slot))
    ELSE NotCompressed(magic.slot, (IF magic.c = EOF THEN <<>> ELSE <<magic.c>>) \o magic.slot.ahead)
check_header(s) == Magic(get_byte(s))

(* inflate decodes what it is given into its window, delivers what there   *)
(* is room for, and reports the end when all of the stream is delivered.   *)
inflate(s, space) ==
    LET data  == File[file].size \div Ratio
        next  == {k \in 0 .. Len(s.ahead) : \A i \in 1 .. k :
                     s.ahead[i] = Unit("data", file, s.consumed + i - 1)}
        taken == CHOOSE k \in next : \A j \in next : j <= k
        ready == (s.consumed + taken) * Ratio - s.total_out
        count == IF ready < space THEN ready ELSE space
        after == [s EXCEPT !.consumed = @ + taken, !.total_out = @ + count,
                           !.ahead = AllButFirst(@, taken)]
        Ends  == after.total_out = File[file].size
    IN  IF s.next_null \/ ~s.live
        THEN [slot |-> [s EXCEPT !.z_err = "Z_STREAM_ERROR"], out |-> <<>>]
        ELSE [slot |-> [after EXCEPT !.z_err =
                           IF Ends THEN "Z_STREAM_END"
                           ELSE IF taken < Len(s.ahead) /\ after.consumed < data
                           THEN "Z_DATA_ERROR"
                           ELSE IF taken = 0 /\ count = 0 THEN "Z_BUF_ERROR" ELSE "Z_OK"],
              out  |-> [i \in 1 .. count |-> Kernel(file, s.total_out + i - 1)]]

(* At the end of the stream: its checksum and size, which are those of     *)
(* what was delivered, and then the header of another stream.              *)
NextStream(s) == IF s.z_err = "Z_OK" THEN [s EXCEPT !.consumed = 0, !.total_out = 0] ELSE s
CheckSize(size) ==
    IF size.c.kind = "size" THEN NextStream(check_header([size.slot EXCEPT !.ended = TRUE]))
    ELSE [size.slot EXCEPT !.z_err = "Z_DATA_ERROR"]
CheckCrc(crc) ==
    IF crc.c.kind = "crc" THEN CheckSize(get_byte(crc.slot))
    ELSE [crc.slot EXCEPT !.z_err = "Z_DATA_ERROR"]
AtStreamEnd(s) == CheckCrc(get_byte(s))

(* More of the file, if nothing is left and it has not ended.              *)
Supplied(s, units) == [Filled(s, units) EXCEPT !.ahead = units, !.next_null = ~s.inbuf]
Refilled(s) ==
    IF s.ahead # <<>> \/ s.z_eof THEN s ELSE Supplied(s, boot_read(s.pos, Z_BUFSIZE))
-----------------------------------------------------------------------------
(* Open, and the slot of a descriptor.                                     *)

NoCall == [op |-> "none", from |-> 0, asked |-> 0]

Init ==
    /\ booter_files = <<>> /\ place \in Places /\ at = 0 /\ pc = "idle"
    /\ fd = -1 /\ kern_fd = -1 /\ inuse = {}
    /\ room = 0 /\ got = <<>> /\ toskip = 0 /\ goal = 0 /\ result = 0
    /\ boots = 0 /\ calls = 0 /\ failures = 0 /\ call = NoCall /\ offset = -1

Open ==
    /\ pc = "idle" /\ boots < MaxBoots
    /\ place' \in Places /\ at' = 0
    /\ fd' = IF place'[1] = "net" THEN kFooFileID ELSE Min((0 .. MaxBoots) \ inuse)
    /\ inuse' = inuse \cup {fd'}
    /\ boots' = boots + 1 /\ calls' = 0 /\ result' = 0
    /\ room' = 0 /\ got' = <<>> /\ toskip' = 0 /\ goal' = 0 /\ call' = NoCall /\ offset' = -1
    /\ \/ /\ Len(booter_files) = MAX_BOOTER_FILES
          /\ pc' = "open" /\ kern_fd' = fd' /\ UNCHANGED <<booter_files, failures>>
       \/ /\ Len(booter_files) < MAX_BOOTER_FILES
          /\ booter_files' = Append(booter_files, NewSlot(fd'))
          /\ pc' = "header" /\ UNCHANGED <<kern_fd, failures>>
       \/ /\ Len(booter_files) < MAX_BOOTER_FILES /\ failures < MaxFailures
          /\ \E live \in BOOLEAN :     \* inflateInit2, or the malloc after it
                booter_files' = Append(booter_files,
                                  [NewSlot(fd') EXCEPT !.inbuf = FALSE, !.live = live])
          /\ pc' = "idle" /\ kern_fd' = -1 /\ failures' = failures + 1

CheckHeader ==
    /\ pc = "header"
    /\ LET i == Len(booter_files)
           s == check_header(booter_files[i])
       IN  /\ booter_files' = [booter_files EXCEPT
                 ![i] = [s EXCEPT !.boot = boots, !.gz = File[file].gz]]
           /\ at' = s.pos
    /\ pc' = "open" /\ kern_fd' = fd
    /\ UNCHANGED <<place, fd, inuse, callVars, boots, failures>>

(* lookup_bf: the first slot that has the descriptor, which a slot keeps   *)
(* after its file is closed.                                               *)
Having(d) == {i \in DOMAIN booter_files : booter_files[i].fd = d}
Found == Having(fd) # {}
lookup_bf == Min(Having(fd))
bf == [booter_files[lookup_bf] EXCEPT !.pos = at]
Keep(s) == booter_files' = [booter_files EXCEPT ![lookup_bf] = s] /\ at' = s.pos
-----------------------------------------------------------------------------
(* gzboot_read, one turn of its loop at a time.                            *)

Chunk(left) == Min({left, DUMMYBUFSIZE})

(* The end of a gzboot_read: of the loader's, or of one that skips.        *)
Return(r, units) ==
    IF pc = "read"
    THEN /\ pc' = "open" /\ room' = 0 /\ result' = r
         /\ got' = units /\ offset' = IF r < 0 THEN -1 ELSE offset + r
         /\ UNCHANGED <<toskip, goal>>
    ELSE LET len  == Chunk(toskip)
             left == IF r = len THEN toskip - len ELSE 0
         IN  /\ toskip' = left /\ room' = Chunk(left) /\ got' = <<>>
             /\ pc' = IF left > 0 THEN "skip" ELSE "open"
             /\ result' = IF r # len THEN -1 ELSE IF left > 0 THEN result ELSE goal
             /\ offset' = IF r # len THEN -1 ELSE IF left > 0 THEN offset ELSE goal
             /\ UNCHANGED goal

StartRead ==
    /\ pc = "open" /\ calls < MaxCalls /\ offset # -1
    /\ \E len \in Lengths : room' = len /\ call' = [op |-> "read", from |-> offset, asked |-> len]
    /\ calls' = calls + 1 /\ pc' = "read" /\ got' = <<>>
    /\ UNCHANGED <<booter_files, place, fdVars, at, toskip, goal, result, boots, failures, offset>>

(* gzboot_read returns at once: no slot, an error before, or nothing to do. *)
ReadRefused ==
    /\ pc \in {"read", "skip"}
    /\ \/ ~Found /\ Return(-1, <<>>)
       \/ Found /\ bf.z_err = "Z_DATA_ERROR" /\ Return(-1, <<>>)
       \/ Found /\ bf.z_err = "Z_STREAM_END" /\ Return(0, <<>>)
       \/ Found /\ bf.z_err \notin {"Z_DATA_ERROR", "Z_STREAM_END"} /\ room = 0 /\ Return(0, <<>>)
    /\ UNCHANGED <<booter_files, place, fdVars, at, boots, calls, failures, call>>

MayTurn == Found /\ pc \in {"read", "skip"} /\ room > 0
           /\ bf.z_err \notin {"Z_DATA_ERROR", "Z_STREAM_END"}

(* Not compressed: first what was read ahead, then what the back end has.  *)
ReadTransparent ==
    /\ MayTurn /\ bf.transparent
    /\ LET n     == Min({Len(bf.ahead), room})
           units == boot_read(bf.pos, room - n)
           all   == got \o FirstOf(bf.ahead, n) \o units
       IN  /\ Keep([bf EXCEPT !.ahead = AllButFirst(@, n), !.pos = @ + Len(units)])
           /\ Return(Len(all), all)
    /\ UNCHANGED <<place, fdVars, boots, calls, failures, call>>

\* Defect: a read ends with the input buffer.
EndsReadEarly(s) == s.z_err # "Z_OK" \/ s.z_eof \/ s.ahead = <<>>
EndsRead(s) == s.z_err # "Z_OK" \/ s.z_eof

ReadCompressed ==
    /\ MayTurn /\ ~bf.transparent
    /\ \E i \in {inflate(Refilled(bf), room)} :
       \E s \in {IF i.slot.z_err = "Z_STREAM_END" THEN AtStreamEnd(i.slot) ELSE i.slot} :
         /\ Keep(s)
         /\ IF Len(i.out) = room \/ EndsRead(s)
            THEN Return(Len(got \o i.out), got \o i.out)
            ELSE /\ got' = got \o i.out /\ room' = room - Len(i.out)
                 /\ UNCHANGED <<pc, toskip, goal, result, offset>>
    /\ UNCHANGED <<place, fdVars, boots, calls, failures, call>>
-----------------------------------------------------------------------------
(* gzboot_lseek.  kernel_parse begins with a SEEK_SET, and the loader uses *)
(* SEEK_CUR but never SEEK_END.                                            *)

(* Back to the beginning of the file: a new stream, with the buffer there is. *)
Rewound(s) ==
    [s EXCEPT !.consumed = 0, !.total_out = 0, !.ahead = <<>>, !.next_null = ~s.inbuf,
              !.live = TRUE, !.z_err = "Z_OK", !.pos = 0]
\* Defect: the restart forgets that the input had ended.
RestartedKeepsEof(s) == check_header(Rewound(s))
Restarted(s) == check_header([Rewound(s) EXCEPT !.z_eof = FALSE])

\* Defect: a seek backwards is taken for one that has nothing to skip.
BackwardNever(to, s) == FALSE
Backward(to, s) == to < s.total_out

Seek ==
    /\ pc = "open" /\ calls < MaxCalls
    /\ calls' = calls + 1 /\ got' = <<>>
    /\ \E pos \in Offsets, cur \in BOOLEAN :
         /\ cur => offset # -1
         /\ LET wanted == IF cur THEN offset + pos ELSE pos
            IN  wanted >= 0 /\ call' = [op |-> "seek", from |-> offset, asked |-> wanted]
         /\ IF ~Found
            THEN /\ result' = -1 /\ offset' = -1
                 /\ UNCHANGED <<booter_files, at, pc, room, toskip, goal>>
            ELSE IF bf.transparent
            THEN LET new == IF cur THEN at + pos - Len(bf.ahead) ELSE pos
                 IN  /\ Keep([bf EXCEPT !.ahead = <<>>, !.pos = new])
                     /\ result' = new /\ offset' = new
                     /\ UNCHANGED <<pc, room, toskip, goal>>
            ELSE LET to == IF cur THEN pos + bf.total_out ELSE pos
                     s  == IF Backward(to, bf) THEN Restarted(bf) ELSE bf
                     more == to > s.total_out
                 IN  /\ Keep(s) /\ goal' = to
                     /\ toskip' = IF more THEN to - s.total_out ELSE 0
                     /\ room' = Chunk(toskip')
                     /\ pc' = IF more THEN "skip" ELSE "open"
                     /\ result' = IF more THEN result ELSE to
                     /\ offset' = IF more THEN offset ELSE to
    /\ UNCHANGED <<place, fdVars, boots, failures>>

(* gzboot_close, which does nothing for a descriptor that has no slot.     *)
gzboot_close(d) ==
    IF Having(d) = {} THEN UNCHANGED <<booter_files, inuse>>
    ELSE LET i == Min(Having(d))
         IN  /\ booter_files' = [booter_files EXCEPT ![i].inbuf = FALSE, ![i].live = FALSE,
                                                    ![i].ahead = JunkOf(@)]
             /\ inuse' = inuse \ {d}

Leave ==
    /\ pc' = "idle"
    /\ room' = 0 /\ got' = <<>> /\ toskip' = 0 /\ goal' = 0 /\ result' = 0
    /\ call' = NoCall /\ offset' = -1
    /\ UNCHANGED <<place, at, fd, kern_fd, boots, calls, failures>>

(* A stop, in copyunix or in a read of a disk: kern_fd is closed, which in *)
(* check_header is still that of the boot before.                          *)
StopBoot == /\ pc = "open" \/ (pc # "idle" /\ place[1] = "disk")
            /\ gzboot_close(kern_fd) /\ Leave
(* copyunix returns: StopRun takes descriptor 0 for none.                  *)
EndBoot  == /\ pc = "open" /\ Leave
            /\ IF kern_fd > 0 THEN gzboot_close(kern_fd) ELSE UNCHANGED <<booter_files, inuse>>

Done == pc = "idle" /\ boots = MaxBoots /\ UNCHANGED vars

Next == \/ Open \/ CheckHeader \/ StartRead \/ ReadRefused \/ ReadTransparent
        \/ ReadCompressed \/ Seek \/ StopBoot \/ EndBoot \/ Done
Spec == Init /\ [][Next]_vars
-----------------------------------------------------------------------------
Errors == {"Z_OK", "Z_STREAM_END", "Z_DATA_ERROR", "Z_STREAM_ERROR", "Z_BUF_ERROR"}

UnitType == [kind : {"junk", "kernel", "eof", "padding", "magic", "header", "data", "crc", "size"},
             file : Files \cup {"none"}, num : Nat]
Slot == [consumed : Nat, total_out : Nat, ahead : Seq(UnitType), next_null : BOOLEAN,
         live : BOOLEAN, fd : Int, z_err : Errors, z_eof : BOOLEAN, inbuf : BOOLEAN,
         transparent : BOOLEAN, pos : Int, boot : Nat, gz : BOOLEAN, ended : BOOLEAN]
TypeOK ==
    /\ booter_files \in Seq(Slot) /\ Len(booter_files) <= MAX_BOOTER_FILES
    /\ place \in Places /\ at \in Int /\ fd \in Int /\ kern_fd \in Int
    /\ inuse \subseteq 0 .. MaxBoots \cup {kFooFileID}
    /\ pc \in {"idle", "header", "open", "read", "skip"}
    /\ {room, toskip} \subseteq Nat /\ (pc = "skip" => room <= DUMMYBUFSIZE)
    /\ got \in Seq(UnitType) /\ {goal, result, offset} \subseteq Int
    /\ call \in [op : {"none", "read", "seek"}, from : Int, asked : Int]
    /\ boots \in 0 .. MaxBoots /\ calls \in 0 .. MaxCalls /\ failures \in 0 .. MaxFailures

(* What is promised of the boots whose slot is their own, or is that of an *)
(* uncompressed kernel before an uncompressed kernel, while no stream was  *)
(* read and checked to its end.                                            *)
Sound ==
    /\ pc = "open" /\ Found /\ ~bf.ended
    /\ bf.boot = boots \/ (bf.boot > 0 /\ ~bf.gz /\ ~File[file].gz)
Size == File[file].size

(* A read gives the kernel's bytes from where the loader is, as many as it *)
(* asked for if there are as many: after any seeks and reads, across the   *)
(* buffer, the end of the input and the end of the compressed stream.      *)
ReadRight ==
    (Sound /\ call.op = "read") =>
        /\ (call.from + call.asked <= Size /\ call.asked > 0) => result = call.asked
        /\ result >= 0 => /\ Len(got) = result
                          /\ \A i \in DOMAIN got : call.from + i <= Size
                                => got[i] = Kernel(file, call.from + i - 1)

(* A seek within the kernel gets there, also backwards over a stream that  *)
(* was read to its end and has reported an error since.                    *)
SeekRight ==
    (Sound /\ call.op = "seek" /\ call.asked <= Size) => result = call.asked

(* Where gzip.c is agrees with where the loader thinks it is.              *)
PositionRight ==
    (Sound /\ offset # -1) =>
        IF bf.transparent THEN at - Len(bf.ahead) = offset
        ELSE bf.total_out = offset
=============================================================================
