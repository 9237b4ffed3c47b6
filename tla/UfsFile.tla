------------------------------- MODULE UfsFile -------------------------------
(***************************************************************************)
(* Reading a kernel from a UFS partition: read_ufs.c, which finds the file *)
(* in the root directory and reads it through a cache of blocks and the    *)
(* sector of inodes read last.  Both outlive the boot that filled them.    *)
(*                                                                         *)
(* A step ends at an EVENT_CHECK, where a stop may longjmp out; the next   *)
(* boot may name another disk or partition.  A read of the disk that fails *)
(* goes unnoticed except for the superblock's; what it leaves in the buffer *)
(* is cached like anything else, and is taken to name no file and no block. *)
(***************************************************************************)
EXTENDS Partition, FiniteSets, FiniteSetsExt

CONSTANTS
    Disks,              \* the disks, by name
    Disk,               \* what is on each
    Targets,            \* <<disk, partition>> as the user may type them
    FileName,           \* the kernel's name
    CACHE_SIZE, NDADDR, \* blocks in the cache, and addresses in an inode
    IndSpan,            \* entries of fdtable's `ind' between indirect blocks
    NumFds,             \* size of fdtable
    Lengths, Positions, \* what the caller reads and seeks
    Junk,               \* sectors found in memory that was not filled
    MaxBoots,           \* bound: opens in a session
    MaxReads,           \* bound: calls of read and seek in a boot
    MaxFailures         \* bound: reads of a disk that fail

ROOTINO == 2
MAX_BOOTER_FILES == 2
InodesPerSector == 4
NoFile == [size |-> 0, db |-> <<>>, ib |-> <<>>]

(* A file system: `itable' is the sector of inode 0, relative to the       *)
(* partition; a block has entries of a directory, or addresses, or neither. *)
(* An address of zero ends a list, so lists are kept up to the first one.  *)
(* An entry of a directory names an inode, or none where it was removed.   *)
IsInode(inode) ==
    /\ inode.size \in Nat
    /\ inode.db \in Seq(Nat \ {0}) /\ Len(inode.db) <= NDADDR
    /\ inode.ib \in Seq(Nat \ {0}) /\ (inode.ib # <<>> => Len(inode.db) = NDADDR)
IsFileSystem(fs) ==
    /\ {fs.bsize, fs.nindir, fs.itable} \subseteq Nat \ {0}
    /\ ROOTINO \in DOMAIN fs.inode /\ DOMAIN fs.inode \subseteq Nat
    /\ \A i \in DOMAIN fs.inode : IsInode(fs.inode[i])
    /\ \A b \in DOMAIN fs.block :
         /\ fs.block[b].dir \in Seq([ino : Nat, name : Names])
         /\ \A ent \in ToSet(fs.block[b].dir) : ent.ino \in DOMAIN fs.inode \cup {0}
         /\ fs.block[b].addr \in Seq(Nat \ {0}) /\ Len(fs.block[b].addr) <= fs.nindir
IsDisk(d) ==
    /\ d.id \in Nat /\ d.formatted \in BOOLEAN /\ d.map \in Seq(Entry)
    /\ d.label \in Label /\ Len(d.label.offset) <= MAXPARTITIONS
    /\ \A start \in DOMAIN d.fs : IsFileSystem(d.fs[start])

ASSUME DisksAssumption  == \A d \in Disks : IsDisk(Disk[d])
ASSUME TargetsAssumption == Targets \subseteq Disks \X Names /\ FileName \in Names
ASSUME SizesAssumption  == {CACHE_SIZE, NDADDR, IndSpan, NumFds} \subseteq Nat \ {0}
ASSUME BoundsAssumption ==
    /\ {MaxBoots, MaxReads, MaxFailures} \subseteq Nat
    /\ Lengths \subseteq Nat /\ Positions \subseteq Int /\ Junk \subseteq Int

VARIABLES
    fdtable, numfd,     \* the descriptors, and how many were ever used
    cache, cache_id, n, \* read_bsd_block's statics
    last, dinode,       \* get_dinode's statics
    pc,                 \* where the open or read is
    target,             \* the disk of this boot, and the partition asked for
    fd,                 \* the descriptor being filled or used
    step,               \* entries, or indirect blocks, handled so far
    todo,               \* blocks load_bsd_file has yet to read, <<kind, block>>
    dir,                \* the entries of the root directory
    pos, len, got,      \* ufs_read's locals, and the bytes copied
    kern_fd, ready,     \* load_and_boot's descriptor; kernel_open has returned
    slots,              \* descriptors of booter_files, which gzboot_close looks up
    boots, reads, failures,
    interrupted,        \* history: a stop between ufs_open and kernel_open's return
    visited,            \* history: the <<disk, start>> pairs read from
    recent              \* history: the blocks read since the cache was emptied

vars == <<fdtable, numfd, cache, cache_id, n, last, dinode, pc, target, fd, step, todo,
          dir, pos, len, got, kern_fd, ready, slots, boots, reads, failures, interrupted,
          visited, recent>>
cacheVars == <<cache, cache_id, n, recent>>
inodeVars == <<last, dinode>>
dirVars   == <<todo, dir>>
readVars  == <<pos, len, got, reads>>
bootVars  == <<target, boots, visited>>
openVars  == <<kern_fd, ready, slots, interrupted>>
-----------------------------------------------------------------------------
(* What a read of the disk gives is named by where it was read.            *)

Garbage == [disk |-> "none", start |-> 0, at |-> "garbage", num |-> 0]
Block(d, start, block)   == [disk |-> d, start |-> start, at |-> "block", num |-> block]
Inodes(d, start, sector) == [disk |-> d, start |-> start, at |-> "inodes", num |-> sector]

NoContent == [dir |-> <<>>, addr |-> <<>>]
Content(data) ==
    IF data.at = "block" /\ data.start \in DOMAIN Disk[data.disk].fs
    THEN LET fs == Disk[data.disk].fs[data.start]
         IN  IF data.num \in DOMAIN fs.block THEN fs.block[data.num] ELSE NoContent
    ELSE NoContent

SectorOf(fs, inum) == fs.itable + inum \div InodesPerSector
(* Entry inum%4 of a sector of inodes.                                     *)
InodeIn(data, inum) ==
    IF data.at = "inodes"
    THEN LET fs == Disk[data.disk].fs[data.start]
             held == {i \in DOMAIN fs.inode : /\ SectorOf(fs, i) = data.num
                                              /\ i % InodesPerSector = inum % InodesPerSector}
         IN  IF held = {} THEN NoFile ELSE fs.inode[CHOOSE i \in held : TRUE]
    ELSE NoFile

(* read_disk, whose result the caller ignores.                             *)
read_disk(wanted, data) ==
    \/ data = wanted /\ UNCHANGED failures
    \/ data = Garbage /\ failures < MaxFailures /\ failures' = failures + 1

Unused == [block |-> -1, lru |-> 0, data |-> Garbage]
Slots  == 0 .. CACHE_SIZE - 1
Empty  == [cache |-> [i \in Slots |-> Unused], n |-> 0, recent |-> <<>>]

\* Defect: the cache survives a change of disk.
KeptNoFlush(id) == [cache |-> cache, n |-> n, recent |-> recent]
(* The cache as a disk finds it: emptied when the last one had another id. *)
Kept(id) == IF cache_id = id THEN [cache |-> cache, n |-> n, recent |-> recent] ELSE Empty

\* Defect: the slot used last is given up.
VictimNewest(c) == CHOOSE i \in Slots : \A j \in Slots : c[j].lru <= c[i].lru
(* The first unused slot, or the first of those used longest ago.          *)
Victim(c) ==
    LET free == {i \in Slots : c[i].block = -1}
    IN  IF free # {} THEN Min(free)
        ELSE Min({i \in Slots : \A j \in Slots : c[i].lru <= c[j].lru})

PutFirst(block, blocks) ==
    <<block>> \o IF block \in ToSet(blocks)
                 THEN RemoveAt(blocks, CHOOSE i \in DOMAIN blocks : blocks[i] = block)
                 ELSE blocks

dev == target[1]
read_bsd_block(start, block, data) ==
    LET kept == Kept(Disk[dev].id)
        hits == {i \in Slots : kept.cache[i].block = block}
    IN  /\ IF hits # {}
           THEN /\ data = kept.cache[Min(hits)].data
                /\ cache' = [kept.cache EXCEPT ![Min(hits)].lru = kept.n + 1]
                /\ UNCHANGED failures
           ELSE /\ read_disk(Block(dev, start, block), data)
                /\ cache' = [kept.cache EXCEPT ![Victim(kept.cache)] =
                                [block |-> block, lru |-> kept.n + 1, data |-> data]]
        /\ n' = kept.n + 1 /\ cache_id' = Disk[dev].id
        /\ recent' = PutFirst(block, kept.recent)

(* Data read_bsd_block or get_dinode may return.                           *)
Possible(wanted) == {wanted, Garbage, dinode} \cup {cache[i].data : i \in Slots}

get_dinode(start, sector, data) ==
    IF last = sector THEN data = dinode /\ UNCHANGED <<last, dinode, failures>>
    ELSE /\ read_disk(Inodes(dev, start, sector), data)
         /\ last' = sector /\ dinode' = data
-----------------------------------------------------------------------------
(* ufs_open.                                                               *)

NoFd == [used |-> FALSE, start |-> 0, dinode |-> NoFile, ind |-> <<>>, pos |-> 0]
file == fdtable[fd]
sb   == Disk[dev].fs[file.start]    \* once the superblock has been read

Init ==
    /\ fdtable = [i \in 0 .. NumFds - 1 |-> NoFd] /\ numfd = 0
    /\ cache = Empty.cache /\ cache_id = -1 /\ n = 0
    /\ last = -1 /\ dinode = Garbage
    /\ pc = "idle" /\ target \in Targets /\ fd = 0
    /\ step = 0 /\ todo = <<>> /\ dir = <<>>
    /\ pos = 0 /\ len = 0 /\ got = <<>>
    /\ kern_fd = -1 /\ ready = FALSE /\ slots = <<>> /\ interrupted = FALSE
    /\ boots = 0 /\ reads = 0 /\ failures = 0
    /\ visited = {} /\ recent = <<>>

Goto(phase) == pc' = phase /\ step' = 0
Proceed(phase) == Goto(phase) /\ UNCHANGED openVars
(* kernel_open returns -1, and StopRun (-1) closes nothing.                *)
Fail == Goto("idle") /\ kern_fd' = -1 /\ UNCHANGED <<ready, slots, interrupted>>

\* Defect: a descriptor is in use as soon as it is given out.
MarkedUsed == TRUE
Marked == FALSE         \* "Mark it as unused until it is ready"

Open ==
    /\ pc = "idle" /\ boots < MaxBoots
    /\ boots' = boots + 1 /\ reads' = 0 /\ got' = <<>>
    /\ target' \in Targets
    /\ LET free == {i \in 0 .. numfd - 1 : ~fdtable[i].used}
           i    == IF free = {} THEN numfd ELSE Min(free)
       IN  /\ numfd' = IF free = {} THEN numfd + 1 ELSE numfd
           /\ \/ numfd' > NumFds /\ Fail /\ UNCHANGED <<fdtable, fd>>
              \/ /\ numfd' <= NumFds /\ Proceed("part")
                 /\ fd' = i /\ fdtable' = [fdtable EXCEPT ![i].used = Marked]
    /\ UNCHANGED <<cacheVars, inodeVars, dirVars, pos, len, failures, visited>>

(* The partition's first sector.  Where the map cannot be read it ends.    *)
FindPart ==
    /\ pc = "part"
    /\ LET d   == Disk[dev]
           map == IF d.formatted THEN d.map ELSE <<>>
           Sectors(m, label, again) == get_part_sector(m, label, target[2], again, Junk)
           good == Sectors(map, d.label, TRUE)
           bad  == Sectors(map, Unsound, FALSE) \cup
                   UNION {Sectors(SubSeq(map, 1, i), d.label, TRUE) : i \in 0 .. Len(map)}
       IN  \E start \in good \cup bad :
             /\ \/ start \in good /\ UNCHANGED failures
                \/ start \in bad /\ failures < MaxFailures /\ failures' = failures + 1
             /\ IF start < 0
                THEN Fail /\ UNCHANGED fdtable
                ELSE Proceed("super") /\ fdtable' = [fdtable EXCEPT ![fd].start = start]
    /\ UNCHANGED <<numfd, cacheVars, inodeVars, bootVars, fd, dirVars, readVars>>

(* The superblock: the only read whose failure ends the open.              *)
ReadSuper ==
    /\ pc = "super"
    /\ IF file.start \in DOMAIN Disk[dev].fs
       THEN \/ /\ Proceed("root") /\ UNCHANGED failures
               /\ visited' = visited \cup {<<dev, file.start>>}
            \/ /\ failures < MaxFailures /\ failures' = failures + 1
               /\ Fail /\ UNCHANGED visited
       ELSE Fail /\ UNCHANGED <<failures, visited>>
    /\ UNCHANGED <<fdtable, numfd, cacheVars, inodeVars, target, boots, fd, dirVars, readVars>>

Tagged(kind, list) == [i \in DOMAIN list |-> <<kind, list[i]>>]

(* find_file: the root directory's inode, ...                              *)
RootInode ==
    /\ pc = "root"
    /\ \E data \in Possible(Inodes(dev, file.start, SectorOf(sb, ROOTINO))) :
         /\ get_dinode(file.start, SectorOf(sb, ROOTINO), data)
         /\ LET root == InodeIn(data, ROOTINO)
            IN  todo' = Tagged("data", root.db) \o Tagged("ind", root.ib)
    /\ Proceed("dir") /\ dir' = <<>>
    /\ UNCHANGED <<fdtable, numfd, cacheVars, bootVars, fd, readVars>>

(* ... its blocks, by load_bsd_file, to which an indirect block that is    *)
(* not full is the last, and any indirect block holds blocks of the file,  *)
LoadDir ==
    /\ pc = "dir"
    /\ IF todo # <<>>
       THEN \E data \in Possible(Block(dev, file.start, todo[1][2])) :
              /\ read_bsd_block(file.start, todo[1][2], data)
              /\ IF todo[1][1] = "data"
                 THEN todo' = Tail(todo) /\ dir' = dir \o Content(data).dir
                 ELSE LET list == Content(data).addr
                      IN  /\ todo' = Tagged("data", list)
                                     \o (IF Len(list) < sb.nindir THEN <<>> ELSE Tail(todo))
                          /\ UNCHANGED dir
              /\ UNCHANGED <<pc, step, openVars>>
       ELSE Proceed("scan") /\ UNCHANGED <<cacheVars, dirVars, failures>>
    /\ UNCHANGED <<fdtable, numfd, inodeVars, bootVars, fd, readVars>>

\* Defect: the entries of removed files are looked at.
InUseAlways(ent) == TRUE
InUse(ent) == ent.ino # 0

(* ... and the inode of every entry up to the one that has the name.       *)
ScanDir ==
    /\ pc = "scan"
    /\ IF step = Len(dir)
       THEN Fail /\ UNCHANGED <<fdtable, inodeVars, failures>>
       ELSE LET ent == dir[step + 1]
                sector == SectorOf(sb, ent.ino)
            IN  IF ~InUse(ent)
                THEN /\ step' = step + 1 /\ UNCHANGED <<pc, fdtable, inodeVars, openVars, failures>>
                ELSE \E data \in Possible(Inodes(dev, file.start, sector)) :
                       /\ get_dinode(file.start, sector, data)
                       /\ fdtable' = [fdtable EXCEPT ![fd].dinode = InodeIn(data, ent.ino)]
                       /\ IF ent.name = FileName THEN Proceed("indirect")
                          ELSE step' = step + 1 /\ UNCHANGED <<pc, openVars>>
    /\ UNCHANGED <<numfd, cacheVars, bootVars, fd, dirVars, readVars>>

(* The indirect blocks, and then the descriptor is ready.                  *)
LoadIndirect ==
    /\ pc = "indirect"
    /\ IF step < Len(file.dinode.ib)
       THEN /\ \E data \in Possible(Block(dev, file.start, file.dinode.ib[step + 1])) :
                 /\ read_bsd_block(file.start, file.dinode.ib[step + 1], data)
                 /\ fdtable' = [fdtable EXCEPT ![fd].ind = SubSeq(@, 1, step) \o <<data>>]
            /\ step' = step + 1 /\ UNCHANGED <<pc, slots>>
       ELSE /\ fdtable' = [fdtable EXCEPT ![fd].pos = 0, ![fd].used = TRUE]
            /\ slots' = IF Len(slots) < MAX_BOOTER_FILES THEN Append(slots, fd) ELSE slots
            /\ Goto("open") /\ UNCHANGED <<cacheVars, failures>>
    /\ UNCHANGED <<numfd, inodeVars, bootVars, kern_fd, ready, interrupted, fd, dirVars, readVars>>

(* gzboot_open reads some of the file before kernel_open returns; or it    *)
(* cannot, and returns -1 without closing the descriptor.                  *)
OpenReturns ==
    /\ pc = "open" /\ ~ready
    /\ \/ kern_fd' = fd /\ ready' = TRUE /\ UNCHANGED <<pc, step, failures, interrupted>>
       \/ /\ failures < MaxFailures /\ failures' = failures + 1
          /\ Goto("idle") /\ kern_fd' = -1 /\ interrupted' = TRUE /\ UNCHANGED ready
    /\ UNCHANGED <<fdtable, numfd, cacheVars, inodeVars, bootVars, slots, fd, dirVars, readVars>>
-----------------------------------------------------------------------------
(* ufs_lseek, ufs_read, ufs_close.                                         *)

Seek ==
    /\ pc = "open" /\ ready /\ reads < MaxReads
    /\ reads' = reads + 1 /\ got' = <<>>
    /\ \E where \in Positions, whence \in {0, file.pos, file.dinode.size} :
         fdtable' = [fdtable EXCEPT ![fd].pos = whence + where]
    /\ UNCHANGED <<numfd, cacheVars, inodeVars, bootVars, openVars, pc, fd, step, dirVars,
                   pos, len, failures>>

Clamped(p, size) == IF p < 0 THEN 0 ELSE IF p >= size THEN size ELSE p

StartRead ==
    /\ pc = "open" /\ reads < MaxReads /\ (ready \/ reads = 0)   \* check_header reads once
    /\ reads' = reads + 1 /\ got' = <<>>
    /\ pos' = Clamped(file.pos, file.dinode.size)
    /\ \E want \in Lengths :
         len' = IF pos' + want > file.dinode.size
                THEN IF file.dinode.size < pos' THEN 0 ELSE file.dinode.size - pos'
                ELSE want
    /\ Proceed("read")
    /\ UNCHANGED <<fdtable, numfd, cacheVars, inodeVars, bootVars, fd, dirVars, failures>>

(* read_file_block's address: the inode's, or entry i of `ind', where each *)
(* indirect block was read IndSpan entries after the one before it and may *)
(* reach over the next.  Past the end of a list the address is zero.       *)
Address(f, block) ==
    IF block < NDADDR
    THEN IF block < Len(f.dinode.db) THEN f.dinode.db[block + 1] ELSE 0
    ELSE LET i == block - NDADDR
             over == {k \in DOMAIN f.ind : /\ (k - 1) * IndSpan <= i
                                           /\ i < (k - 1) * IndSpan + sb.nindir}
             k    == CHOOSE x \in over : \A y \in over : y <= x
             list == Content(f.ind[k]).addr
             e    == i - (k - 1) * IndSpan
         IN  IF over # {} /\ e < Len(list) THEN list[e + 1] ELSE 0

\* Defect: a read that starts inside a block copies from its beginning.
OffsetInBlockZero(p) == 0
OffsetInBlock(p) == p % sb.bsize

(* One block, or the part of it that is asked for.                         *)
ReadFileBlock ==
    /\ pc = "read" /\ len > 0
    /\ LET address == Address(file, pos \div sb.bsize)
           from    == OffsetInBlock(pos)
           count   == IF sb.bsize - from < len THEN sb.bsize - from ELSE len
       IN  /\ \E data \in Possible(Block(dev, file.start, address)) :
                /\ read_bsd_block(file.start, address, data)
                /\ got' = got \o [i \in 1 .. count |-> <<data, from + i - 1>>]
           /\ pos' = pos + count /\ len' = len - count
    /\ UNCHANGED <<fdtable, numfd, inodeVars, bootVars, openVars, pc, fd, step, dirVars, reads>>

FinishRead ==
    /\ pc = "read" /\ len = 0
    /\ fdtable' = [fdtable EXCEPT ![fd].pos = pos]
    /\ Proceed("open")
    /\ UNCHANGED <<numfd, cacheVars, inodeVars, bootVars, fd, dirVars, readVars, failures>>

Locals == todo' = <<>> /\ dir' = <<>> /\ pos' = 0 /\ len' = 0 /\ got' = <<>>
(* gzboot_close, which has to find the slot of the descriptor.             *)
Closed(k) == IF k \in ToSet(slots) THEN [fdtable EXCEPT ![k].used = FALSE] ELSE fdtable

(* A stop at an EVENT_CHECK of read_ufs.c: load_and_boot closes kern_fd,   *)
(* which is still the one before if kernel_open has not returned.          *)
StopInUfs ==
    /\ pc # "idle"
    /\ Goto("idle") /\ Locals
    /\ fdtable' = Closed(kern_fd)
    /\ interrupted' = (interrupted \/ (pc \in {"open", "read"} /\ ~ready))
    /\ ready' = FALSE
    /\ UNCHANGED <<numfd, cacheVars, inodeVars, bootVars, kern_fd, slots, fd, reads, failures>>

(* copyunix has returned: StopRun closes its descriptor if it is above 0.  *)
EndBoot ==
    /\ pc = "open" /\ ready
    /\ Goto("idle") /\ Locals
    /\ fdtable' = IF kern_fd > 0 THEN Closed(kern_fd) ELSE fdtable
    /\ ready' = FALSE
    /\ UNCHANGED <<numfd, cacheVars, inodeVars, bootVars, kern_fd, slots, interrupted, fd,
                   reads, failures>>

Done == pc = "idle" /\ boots = MaxBoots /\ UNCHANGED vars

Next == \/ Open \/ FindPart \/ ReadSuper \/ RootInode \/ LoadDir \/ ScanDir \/ LoadIndirect
        \/ Seek \/ StartRead \/ ReadFileBlock \/ FinishRead \/ OpenReturns \/ StopInUfs \/ EndBoot \/ Done
Spec == Init /\ [][Next]_vars
-----------------------------------------------------------------------------
IdsDiffer == \A v \in visited : Disk[v[1]].id = Disk[dev].id => v = <<dev, file.start>>

TypeOK ==
    /\ \A i \in 0 .. NumFds - 1 :
         /\ fdtable[i].used \in BOOLEAN /\ fdtable[i].start \in Nat
         /\ IsInode(fdtable[i].dinode) /\ fdtable[i].pos \in Int
    /\ numfd \in 0 .. NumFds + 1 /\ fd \in 0 .. NumFds - 1
    /\ \A i \in Slots : cache[i].block \in Nat \cup {-1} /\ cache[i].lru \in 0 .. n
    /\ cache_id \in Int /\ n \in Nat /\ last \in Int
    /\ pc \in {"idle", "part", "super", "root", "dir", "scan", "indirect", "open", "read"}
    /\ target \in Targets /\ step \in Nat /\ todo \in Seq({"data", "ind"} \X Nat)
    /\ dir \in Seq([ino : Nat, name : Names])
    /\ kern_fd \in -1 .. NumFds - 1 /\ ready \in BOOLEAN /\ interrupted \in BOOLEAN
    /\ slots \in Seq(0 .. NumFds - 1) /\ Len(slots) <= MAX_BOOTER_FILES
    /\ pos \in Nat /\ len \in Nat /\ boots \in 0 .. MaxBoots
    /\ reads \in 0 .. MaxReads /\ failures \in 0 .. MaxFailures

(* A cached block is what its number says, of a partition that was read    *)
(* from the disk with the cache's id, unless a read failed: no stop and no *)
(* change of disk leaves a block of another disk behind.                   *)
CacheCoherent ==
    \A i \in Slots : cache[i].block # -1 =>
        \/ cache[i].data = Garbage /\ failures > 0
        \/ \E v \in visited : /\ Disk[v[1]].id = cache_id
                              /\ cache[i].data = Block(v[1], v[2], cache[i].block)

(* The cache holds each of the CACHE_SIZE blocks used last, once, and      *)
(* nothing else, whatever mix of opens, reads and stops used them.         *)
CacheIsLRU ==
    LET full == {i \in Slots : cache[i].block # -1}
        lately == {i \in DOMAIN recent : i <= CACHE_SIZE}
    IN  /\ {cache[i].block : i \in full} = {recent[i] : i \in lately}
        /\ Cardinality(full) = Cardinality(lately)

(* ufs_read copies the bytes of the file at the position it was given, of  *)
(* a file without holes and without double indirect blocks.  It needs the  *)
(* cache to itself: no other partition read in the session has the disk's  *)
(* id.                                                                     *)
Whole(inode) ==
    /\ Len(inode.ib) <= 1
    /\ \A p \in 0 .. inode.size - 1 :
         LET block == p \div sb.bsize
         IN  IF block < NDADDR THEN block < Len(inode.db)
             ELSE /\ inode.ib # <<>> /\ inode.ib[1] \in DOMAIN sb.block
                  /\ block - NDADDR < Len(sb.block[inode.ib[1]].addr)
TrueAddress(inode, block) ==
    IF block < NDADDR THEN inode.db[block + 1]
    ELSE sb.block[inode.ib[1]].addr[block - NDADDR + 1]
ReadRight ==
    (pc \in {"open", "read"} /\ failures = 0 /\ IdsDiffer /\ Whole(file.dinode))
    => \A i \in DOMAIN got :
         LET p == pos - Len(got) + i - 1
         IN  /\ p \in 0 .. file.dinode.size - 1
             /\ got[i] = <<Block(dev, file.start, TrueAddress(file.dinode, p \div sb.bsize)),
                           p % sb.bsize>>

(* The file that is open is the one the root directory names: an entry     *)
(* that was removed, and what other inodes and indirect blocks are read on *)
(* the way, change nothing.                                                *)
RootBlocks ==
    LET root == sb.inode[ROOTINO]
    IN  ToSet(root.db) \cup UNION {ToSet(sb.block[b].addr) : b \in ToSet(root.ib)}
Named(inode) ==
    \E b \in RootBlocks : \E ent \in ToSet(sb.block[b].dir) :
        ent.name = FileName /\ ent.ino # 0 /\ inode = sb.inode[ent.ino]
OpenRight ==
    (pc = "open" /\ failures = 0 /\ Cardinality(visited) = 1) => Named(file.dinode)

(* What get_dinode is said to do, "Given an inode number, returns the      *)
(* inode", and so the same for a session that reads several partitions.    *)
InodeRight == (pc = "open" /\ failures = 0) => Named(file.dinode)

(* What the comments of locate_partition go by: the entries up to the end  *)
(* of the map, those marked root and those with the name asked for.        *)
Map     == IF Disk[dev].formatted THEN Disk[dev].map ELSE <<>>
Seen    == {i \in DOMAIN Map : i <= LastPart /\ \A j \in 1 .. i : Map[j].valid}
Flagged == {i \in Seen : Map[i].rootfs}
Exact   == {i \in Seen : Map[i].name = target[2]}

(* The partition is one those comments allow: the first that is marked     *)
(* root or the first that has the name, both of which win "no matter       *)
(* what", so that they leave open which of the two; or else the first Unix *)
(* one with Root in its name, or else the first without Swap, or else a    *)
(* slice of the disk label.                                                *)
PartitionRight ==
    (pc = "super" /\ failures = 0) =>
    LET Unix  == {i \in Seen : Map[i].unix}
        Firsts(sets) == {Min(S) : S \in sets \ {{}}}
        Rule  == << Firsts({Flagged, Exact}),
                    Firsts({{i \in Unix : Map[i].name \in RootNames}}),
                    Firsts({{i \in Unix : Map[i].name \notin SwapNames}}) >>
        used  == {r \in 1 .. 3 : Rule[r] # {}}
        label == Disk[dev].label
        slice == SliceOf[target[2]] + 1
    IN  IF used # {} THEN \E i \in Rule[Min(used)] : file.start = Map[i].start
        ELSE IF label.found /\ slice \in DOMAIN label.offset
        THEN file.start = label.offset[slice]
        ELSE file.start \in Junk

(* When no boot runs no descriptor is in use but 0, which StopRun takes    *)
(* for none, and one that got no slot of booter_files: however opens fail  *)
(* and boots end or are stopped, unless the stop comes while gzboot_open   *)
(* reads the header, or gzboot_open itself fails.                          *)
DescriptorReleased ==
    (pc = "idle" /\ ~interrupted) =>
        \A i \in DOMAIN fdtable :
            fdtable[i].used => i = 0 \/ (Len(slots) = MAX_BOOTER_FILES /\ i \notin ToSet(slots))
=============================================================================
