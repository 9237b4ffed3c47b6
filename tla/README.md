# Verification of the BSD/Mac68k Booter

The Booter is a MacOS application that loads a NetBSD or OpenBSD kernel (from a
UFS partition, a MacOS file, or a TFTP server), changes the machine's state to
what the kernel expects, and jumps into it.  There is one thread.  What makes
it hard is that a boot, at every `EVENT_CHECK`, calls the event loop it was
started from, so that the user's actions, and even another boot, happen between
any two of its steps.

This directory holds TLA+ modules for its parts, TLC configurations that check
them on small instances, and TLAPS proofs.  `PROJECT.json` maps every definition
to the lines it models.

## Inventory

| component | state | operations | hard because | correct when |
|---|---|---|---|---|
| event loop and session: `main.c`, `event_check.h` | `running`, `startboot`, `time_boot_start`, `bootenv`, `kern_fd`, the C stack | `MainEvent`, menu commands, `load_and_boot`, `StopRun` | events in the middle of a boot; nested boots; `longjmp` | a stopped boot never enters the kernel; `bootenv` is valid; every ending restores what the boot took |
| `copyunix`: `copy_and_boot.c` | the kernel buffer and the globals derived from it | count, allocate, load, patch, monitor, video, confirm, hand over | a dozen early exits | the kernel entered is the one this boot loaded |
| loader: `kernel_parse.c`, `loadfile.c` | `kVec`, symbol and string tables | `kernel_parse(COUNT)`, `kernel_parse(LOAD)` | two passes that must agree; state of an earlier boot in `kVec` | what is loaded fits what was counted |
| compressed files: `gzip.c` | `booter_files`, stream, look-ahead | open, read, seek, close | seek backwards restarts; end of file inside a header | reads return the file's bytes at the position sought |
| file switch: `boot_vfs.c`, `read_macos.c`, `read_bootp.c` | MacOS file marks, `myBuffer`, `myOffset` | open, read, lseek, close | dispatched on the location configured *now* | a descriptor is used with the file it was opened for |
| UFS: `read_ufs.c` | `fdtable`, block cache, inode cache, superblock | open, read, lseek, close | caches that outlive a boot and a disk | a block read is the block on the disk it was asked of |
| partitions: `read_part.c` | none | name to sector | four rules of choice in one scan, disk labels | the partition the comment promises |
| disks: `read_disk.c` | none | SCSI and ATA reads | register-level transfers | |
| netboot: `netbootlib/` | UDP stream, port and block of the transfer | BOOTP, TFTP | lost, repeated and late datagrams | the buffer is a prefix of the file, in order; the open returns |
| monitors: `Monitors.c`, `RequestVideo.c` | saved depth and saved mode of a screen | save, search for a mode, set, confirm, restore | the mode found may be another screen's; a change can be made in part; restored by whichever boot ends | the main screen gets the size and depth asked for, and no other is touched; every screen gets its setting back |
| video cards: `videocard.c`, `videoaddr.c` | list of cards, screen's address and size | find the cards, tell the kernel, turn off interrupts | errors that only clear `running`, and end a walk half-way | the kernel is told what the screen shows and of every card |
| log: `Output.c` | `fileref` | open, close, write | closed by many paths | closed when idle and before the kernel is entered |
| dialogs: `Dialogs.c`, `Startup.c`, `Machine.c`, `Serial.c`, `Monitors.c` | five open dialogs, `currentConfiguration`, `RAMSize`, `debugLevel` | open, hit, OK, Cancel, take all | modeless: several at a time, also during a boot; some hits take effect at once; numbers are cut to a byte | what was shown is what is stored; derived values keep up |
| preferences: `Prefs.c` | the `SETU` resource | defaults, load, save | the old resource is removed before the new one is known to be written | a launch has the settings of the last good save |
| zlib: `zlib/` | window, bit buffer, modes of two nested machines, tables on the heap | `inflate`, `inflateEnd` | left and resumed at any byte; a fast path beside the slow one; gives bytes back | the output is what the stream means, however it is cut up; memory is freed |
| machine identification, process killer, window, resolver | | | input and output, assembly, third-party code | not modelled |


Interactions: `main.c` calls `copyunix`; `copyunix` reads through
`gzip.c` -> `boot_vfs.c` -> a back end; the UFS back end and `copyunix` both
call `MainEvent`; `MainEvent` may call `StopRun`, a dialog, or `load_and_boot`.
`copyunix` changes the screen between two event checks, and `StopRun` changes it back.

## Modules

### BootSession (core)

One session from `main` to the kernel or to Quit.  `frame[0]` is main's loop and
`frame[1..depth]` the `load_and_boot` calls on the C stack; a frame records its
phase (`pc`), where it is in an `EVENT_CHECK` (`st`), whose `CLEANUP` that check
was compiled with (`in`), its buffer and its descriptor.  Every menu command,
dialog hit, timer boot and null event is an action of `MainEvent`; every phase of
`copyunix`, with its success and each of its error exits, is an action of `Work`;
`Check` is the test of `running` after `MainEvent` returns, which passes, cleans
up (`copyunix`) or jumps (`read_ufs.c`).

| code | model |
|---|---|
| `running`, `startboot`, `time_boot_start`, `kern_fd` | `running`, `startboot`, `timer`, `kern_fd` |
| `currentConfiguration` | `cfg`, of the fields that steer a boot; `dialog` says that one is open and may change them |
| `setjmp(bootenv)` / `longjmp` | `bootenv` = depth of the frame that called `setjmp`; `CheckJumps` |
| `booter_files`, the back ends' open files | `booter_files`, `files` |
| the kernel buffer of each boot | `live`, `loaded`, `boot_buffer` |
| depth of the main screen | `hw`; `depths` of `machine` are those it can have |
| `savedDepth` and `currentDepth`; `gotVideoSetting` and `originalRec` | `saved`; `original`, of which only the main screen's depth matters (`NotMain`, `NotRead`) |
| log, vertical blanking | `log`, `vbl` |

`stopped` in a frame is a history field: `running` went false while that boot was
on the stack.  So is `lost`: a `MonitorChange` was made while an earlier one had not
been undone, or found a setting that it could not read.  What `MonitorChange` does to
the screen is left open here (any depth of the screen); `VideoBoot` has it in full.

### NetBoot and FileTransfer

`NetBoot` is `bootp_open`: the BOOTP exchange and the TFTP transfer of the client,
and, as external actions, a server that opens a port for every request it sees and
a network with the faults of one set chosen at the start.  `FileTransfer` is what
the caller relies on: the length only grows, and a success means the whole file
when the server can be trusted.  `Implements` is the refinement.

### KernelLoad

What `copyunix` does with a kernel file: a counting pass of `elf_exec` or
`aout_exec`, the allocation, a loading pass, and the placement of the environment
and the copying code.  The straight line of a pass is a sequence of *parts*
(`ElfParts`, `AoutParts`): a part has an address of its own (a segment), goes to
`maxp` (headers, tables, the sections of an a.out kernel) or rounds `maxp` up;
`ParsePart` does one of them, so that a failed read or a stop can come between any
two.  The marks and the symbol pointers are globals in the code, and `Boot` leaves
them as the boot before did.

| code | model |
|---|---|
| `kVec[MARK_*]`, `symspace`, `strings` | `kVec`, `symspace`, `strings` |
| `minp`, `maxp`, `elfp`/`aoutp`, `off` and the `sh_offset`s of `loadfile.c` | `minp`, `maxp`, `symp`, `off`, `tables` |
| `buf`, `bufstart`, `len`, `harry`, `boot_entry` of `copyunix` | the same |
| `COUNT_KERNEL`, `LOAD_KERNEL` | the flags `Tested` looks at |

`counted`, `written`, `blockLen` and `refused` are history.

### Partition and UfsFile

`Partition` holds the pure part: `locate_partition` as one scan of the map,
`get_disklabel_sector`, `get_part_sector`.  `UfsFile` is the reader.  A disk is a
constant record: its partition map or label, and for each first sector a file system
(inodes, and blocks of entries or of addresses).  What is read is named by where it
was read (`Block`, `Inodes`), so that a stale block and the right one differ even if
their bytes might be equal; content is looked up from that name.  A step ends where
the code has an `EVENT_CHECK`: `StopInUfs` may come at any of them, and `Open` may then
name another target.  A failed `read_disk` gives `Garbage`, which the callers cache.

| code | model |
|---|---|
| `fdtable`, `numfd` | `fdtable`, `numfd` |
| `cache`, `cache_block`, `lru` / `cache_id`, `n` | the records of `cache` / `cache_id`, `n` |
| `last`, `dinode` of `get_dinode` | `last`, `dinode` |
| `ind` of a descriptor, 3 x 1024 longs | `ind`, one read per indirect block, laid `IndSpan` apart by `Address` |
| the buffer of `load_bsd_file` | `dir`, filled from `todo` |
| the bytes `ufs_read` copied | `got`, each with the block it comes from |

`kern_fd`, `slots` and `ready` stand for what `load_and_boot` and `gzip.c` know of the
descriptor, because they decide whether a boot that ends (`EndBoot`) or is stopped
closes it: `StopRun` closes only descriptors above 0, the `longjmp` closes the
`kern_fd` of the last `kernel_open` that returned, and `gzboot_close` only a
descriptor that has one of its two slots.  `visited`, `recent` and `interrupted` are
history.  Block sizes and sectors are abstract numbers, a
directory is its list of entries, and the address of a block on the disk is the pair
of the partition's start and the block's number.  A boot inside a boot (see
`BootSession`) shares these statics; here boots follow one another.

### KernelFile

`gzip.c` between the loader and a back end.  A file is a sequence of *units*, bytes
that `gzip.c` treats alike: for a compressed kernel a magic number, the rest of the
header, data (each unit stands for `Ratio` units of the kernel), checksum, size, and
whatever follows.  A unit knows which it is, so that bytes delivered from the wrong
place are seen.  `ReadTransparent` and `ReadCompressed` are one turn of the loop of
`gzboot_read`; a seek forwards is `Seek` and then reads with `pc = "skip"`.  The loader
seeks before it first reads, as `kernel_parse` does, and never uses `SEEK_END`.

| code | model |
|---|---|
| `booter_files[]`, taken in order and never given back | `booter_files` |
| `stream.avail_in`, `next_in` | `ahead`; `next_null` where `next_in` is `NULL` |
| `stream.total_out`, the inflate state | `total_out`, `consumed`, `live` |
| position of the back end's file (`fdtable[].pos`, `myOffset`, the file mark) | `at` |
| `avail_out`, `toskip`, the value returned | `room`, `toskip`, `result` |

`call`, `offset` (where the loader is) and the fields `boot`, `gz`, `ended` are
history.  The promises are made for a slot that belongs to this boot, or to a plain
kernel before a plain one; after a compressed kernel the old slot is of no use (its
buffer is freed), and after a stream that was read and checked to its very end
`check_header` calls the file uncompressed.  A file descriptor is the first one free
(`ufs_open`) or 42 (`bootp_open`).

### Deflate, InflateTrees and Inflate

`Inflate` is zlib's decoder as `gzip.c` calls it: `inflate_blocks`, `inflate_codes`,
`inflate_fast`, `inflate_flush`, without zlib's own header.  A step is one turn of a
loop of the code: a byte into the bit buffer (`NextByte`), a mode, a symbol, a byte
copied.  `Leave` is the macro `LEAVE`: out of all of them, through `inflate_flush`.
`InflateTrees` is `huft_build` and its three callers, level by level as the code makes
the tables.  `Deflate` has the sizes of the format as constants and says what a stream
means, by definition: codes are compared bit by bit with the canonical code of their
lengths, and the output is a sequence that copies look back into.  It has no table,
window, buffer or call in it, and is what `Inflate` is checked against.

| code | model |
|---|---|
| `next_in`, `avail_in`, `inbuf`, `z_eof` of `gzip.c` | `z`; `begin` is where in the file `inbuf` starts |
| `bitb`, `bitk` | `bit` |
| `window`, `end`, `read`, `write` | `window`; memory never written is `Junk` |
| `mode`, `last`, the union `sub` of `inflate_blocks_state` | `mode`, `last`, `trees`, and `codes`, `coding` for `sub.decode` |
| `ZALLOC`, `ZFREE` | `mem`, the names of what is allocated; an allocation may fail |
| `inflate_huft` tables linked by `next` | a sequence of tables; an entry refers to one by its index |
| a read of memory that is not there | `call = "astray"`, after which nothing is promised |

Three things in the code lead astray.  A byte given back at the end of a stream may be
of a buffer that has been filled again (`doc_return`), and `UNGRAB` of `inflate_fast`
may do the same.  A set of lengths that are all zero gives a null table, and a stream
that then uses it looks a code up in it.  And a length code for which there is no
length (192 in `cplext`, which becomes a base when 16 + 64 is added and the sum cut to
a byte) makes `inflate_fast` copy zero bytes with a loop that copies at least one.
Distances that reach back before the output are not detected by this zlib either: the
copy takes what the window holds; `Meaning` calls such streams, and the ones before,
"any".  After a data error `inflateEnd` leaves the lengths and the tree of lengths of a
dynamic block allocated; so does an end in the middle of one with the tree.
`MemoryHeld` says exactly that much.

### VideoRequest, VideoCards and VideoBoot

`VideoRequest` and `VideoCards` are pure: `RequestVideo.c` with `FindBestMatch` over
the modes of every screen in turn, and the walk of `videocard.c` over the slots, given
a machine as a constant record.  `VideoBoot` puts them into a boot: `MonitorChange`,
`getVideoAddress`, `set_video_info`, `turn_off_interrupts`, with `StopRun` possible
between any two.  The Palette Manager and the Display Manager are external: a screen
switches to a mode that it has.

| code | model |
|---|---|
| `VideoRequestRec` | a record of the same fields; `notSafe` for `availFlags` |
| `savedDepth`, `currentDepth`, `currentModeGreys`, `gotVideoSetting`, `originalRec` | the same |
| what a screen shows (`gdMode`, `gdFlags`) | `screens` |
| `video_list`, the kernel's `_mac68k_vrsrc_cnt` and `_vec` | `cards` of a walk, `told` |
| interrupts of a card | `off` |

`user` and `sound` are history.  `sound` is false once a setting that could
not be read, or a device that is nil, was used: line 119 of `Monitors.c` has a block
where an `else` was meant, so that a search without a result is followed by setting
it.  `BootSession` has the depth of the main screen alone, as `SaveDepth` keeps it, and
shows what nested boots do to it.

### Settings

The options: five dialogs, `currentConfiguration`, and the preferences file, over
launches on machines that differ.  A dialog is what it shows; `Hit` is any click or
key, `TurnOnDepth`, `TurnOnSize`, `SetMacFile` and `SetLogFile` those that also change
the configuration at once, `PressOK` the `Get...` function of the dialog, and
`GetAllOptions` (Boot Now, Save Preferences) all five in the order of the code.
Numbers are cut to the width of their field.  Boxes and texts that are only copied are
alike, and one of each stands for those of a dialog.  A save returns at any of its
calls (`SaveResults`), and the file is then what that call leaves.

| code | model |
|---|---|
| `currentConfiguration`, `RAMSize`, `debugLevel` | `cfg`, `RAMSize`, `debugLevel` |
| `bootDia`, `startupDia`, `serialDia`, `monitorDia`, `machineDia` | `panel` |
| resource `SETU` 128 of the preferences file | `file`: none, of another size, or the configuration kept |

`kept`, `taken` and `fresh` are history.

## Runs

| run | question | bounds |
|---|---|---|
| `session_any` | safety of the session with everything free to change under a boot | 3 configurations that differ in location, monitor, log, `AbortNonFatal`, pause; 3 boots; stack of 3 |
| `session_mac` | resources come back, the main screen's depth is set back and boots end, however a boot ends | MacOS kernels, the monitor option on, with and without `AbortNonFatal`, so that a video error and an armed autoboot bring about a second `SaveDepth`; a screen of 8 bits that a boot may set to a mode `SaveDepth` does not know, one of millions on a machine whose `ShutDwnStart` returns, and one on a PowerPC; 3 boots, so that the slots of `gzip.c` run out; stack of 2 |
| `netboot` | the transfer under faults; refinement; termination | files of 1, 2 and 3 blocks, one with an empty last block and one of 510 bytes more than 2 blocks; 2 ports; 9 fault sets |
| `loader` | the two passes agree, the buffer holds everything, symbols and entry are found | 7 kernels: ELF with one and two segments, with symbols, with names only, stripped, not linked at 0; a.out of every magic number; 2 boots; a block on a page boundary and one off it; 4.2 MB, enough for one kernel and not for one counted from a stale mark |
| `doc_memory` (violation) | a second boot is refused although the kernel fits | one kernel, 2 boots |
| `ufs` | the right partition, inode and bytes; the cache is exact, least recently used, and never of another disk; a descriptor is released unless the code is known to keep it | a disk with a map of seven entries, and one with a label; five without a file system, on each of which another rule chooses the partition against those that would choose another: an entry marked root that comes before one with the name typed, and the other way round, both behind one named Root; the first of two that are not Swap, behind one that is and before an invalid entry; the label, of a map without such entries; and none; 3 file systems with block sizes 1 to 3, direct, single and double indirect blocks; a cache of 3 blocks for files and directories of up to 6, so that it turns over; 2 boots, so that the second meets what the first left; 3 reads or seeks each, enough to read, seek back and read again; one failed read, because a failure is only ever seen through what it left in a cache |
| `kernelfile` | reads and seeks give the right bytes and the right position | 6 kernels around an input buffer of 4 units: plain, plain and shorter than it, compressed with its end inside, at and beyond a buffer, and one followed by padding; all from disk, two from the net, where nothing ends; 3 calls, enough to seek, read and seek again; 2 boots; one slot that cannot be initialised |
| `doc_inode` (violation) | a boot from another disk gets inodes of the one before | two disks, 2 boots, no failures |
| `inflate` | the output and the end of a stream, however it is cut into calls; memory | a format of deflate's shape with 4-bit bytes, 2 literals, 3 lengths and distances; 7 good streams that have every kind of block, tables of two levels, repeats, a code of one symbol and one with no distances, copies that overlap and copies round the window; every stream that differs from a good one in one bit; a window of 11, an input buffer of 7 that begins anywhere, room of 1 or 8; one failed allocation |
| `doc_return` (violation) | a byte is returned to a buffer that has been filled again | the good streams of `inflate` |
| `video` | the size and depth asked for; every screen restored; the kernel told right | 9 machines: with Display Manager 0, 1 and 2, one screen, two, none, modes in orders that would mislead a search, a driver that does not know the Display Manager, screens that cannot be read; no card, some, six, one that cannot be read, one that refuses; every size, with greys or not, at the depth shown, black and white or millions; every setting the user may have had; two boots, each stopped at any step |
| `settings` | what is shown is stored; a launch restores; derived values agree | 2 machines, one with more memory than a byte can say; 5 hits, commands or saves, enough to open two dialogs, change one and take both, or to save, change and save again; typed numbers of -60, 5 and 300, below, within and beyond a byte |

Why the bounds are enough.  `StackDiscipline`, proved for every bound, says that
no more than two boots are ever on the stack, so a stack of two or three leaves
nothing out; three boots let one follow a nested pair, and exhaust the two slots
of `gzip.c`.  The streams of `inflate` are longer than its input buffer and the long
one goes round its window twice; with buffers and rooms this small every mode of the
decoder is left and resumed.  Two ports are enough for a repeated request to open a
second conversation, three blocks for a block to be first, middle and last.

## Fairness

`BootSession!FairSpec`: inside a boot, `WaitNextEvent` times out with a null event when the user does nothing, so `MainEvent` returns
(`WF(depth > 0 /\ SystemEvent)`; alert boxes are answered); a frame
that is back from it goes on (`WF(Check)`); a phase has finitely many
`EVENT_CHECK`s, so a boot that keeps getting control does its work
(`SF(Work)`); in an idle loop a null event comes eventually
(`WF(TimerBoot)`, `WF(StartBoot)`), because `WaitNextEvent` is called with a
time-out.  Nothing is assumed of the user.  `NetBoot!FairSpec`: `UDPRecv` has a
time-out, so the client goes on (`WF(Client)`); a network without faults and its
server answer.  With any fault no delivery is assumed.  `Inflate!Spec`: a call that has been
made goes on (`WF(Turns)`), as nothing in it waits; whether there is another call is
the caller's affair.

## Proofs

Every theorem holds for every value of the constants that satisfies the assumptions
its module names; `PROJECT.json` lists the theorems and the property each one states.
The invariants that carry them were checked with TLC on the component's run before
they were proved.

A loop whose result a property is about is a recursive function of the number of
turns made (`locate_partition`, `SearchModes`, `SearchAll`, `video_call`).  The proofs
about them rest on three lemmas: `Recursion`, that such a function exists and so is
what its definition says; `Induction`, that a set of numbers that has 0, and every number
up to N whose predecessor it has, has all of them; and `LeastOf`, that a set of numbers that is not empty has a
least, from the library's theorem that the order of finite sets is well-founded.

`BootSession_proofs` proves first the theorems `TypeCorrect`, `KernelEntryCorrect`,
`StopCorrect`, `StackCorrect` and `IdleCorrect`: the five invariants of
`session_any`.  None is inductive alone; the inductive invariant `SessionInv` is
the conjunction of

- `TypeInv`: `TypeOK`, and the boots made plus those owed to the timer or to
  `startboot` stay within `MaxBoots`;
- `RunningInv`: while `running` is set there is a boot on the stack, the top one has
  not been stopped, and no other is requested;
- `StoppedInv`: a boot on top that is not running has been stopped and is on its way
  out: back from `MainEvent`, or, after a video error, before one of the last two
  event checks;
- `PollInv`: `read_ufs.c` polls only while the kernel is read, and until the last
  phases `bootenv` is that of the boot on top;
- `NestingInv`: at most two boots, the timer spent, the outer one stopped and waiting
  in one of its last two event checks;
- `LogInv`: without `running` the log is open only between a video error and
  `CloseLogFile`, past which a running boot has none;
- `BufferInv`: the buffer of a running boot on top is allocated from `load` on, filled
  from `patch` on, and the one `shutdownProc` copies from `monitor` on;
- `KernelInv`: the kernel is entered by a running boot in its last phase.

The proof has lemmas for the kinds of step (a phase that moves the top frame, a
return, a boot that starts, a user's event), and one per group of actions; the
temporal steps combine
`Init => SessionInv` and `SessionInv /\ [Next]_vars => SessionInv'`.

On top of `SessionInv` it proves the resource invariants of `session_mac`, for any number of nested boots: `BuffersCorrect`, `FilesCorrect` and `MonitorCorrect`.
They need

- `NumbersInv`: the boots on the stack have different numbers and no buffer but their
  own, and none before it is allocated; `ConfigInv`: without a UFS configuration
  every event check is one of `copyunix`.  With them `BuffersOwned` is inductive: what
  a step does to the heap is told from what it does to the stack (`StackStep`);
- `SlotsInv`: without UFS the descriptors in a slot of `gzip.c` are above 0, so that
  `StopRun` closes them; `ReturnKinds` lists the ways the stack gets lower, and in each
  the file has been closed or never was opened;
- `ScreenInv`: a setting is kept only while a boot that may change the monitor, and is
  past the phase that does, is at the bottom of the stack (`BoundInv`); and what is
  kept, or else what the screen shows, is the user's depth, unless it is one
  `SaveDepth` mistakes or the setting was lost (`DepthInv`).  `RestoreStep` and
  `ChangeStep` say what the two procedures make of it, `ScreenKinds` what a step can
  do to the screen.

`KernelLoad_proofs` proves `TypeCorrect`, `LoadFitsCorrect`, `LayoutCorrect`,
`OverwriteCorrect`, `EntryCorrect` and `SymbolsCorrect`: all the invariants of
`loader`, for every set of ELF and a.out kernels, every block address and any number
of boots.  The assumptions are those of the module (`KernelsAssumption`,
`TextAssumption`, `BlocksAssumption`, `BoundsAssumption`).  It has three parts:

- lemmas about the parts, which hold for a kernel of any size: every part of every
  kernel takes at least the room of the bytes it writes (`AppendedFits`, `PadFits`,
  `SegmentFits`, `SectionFits`), the placed parts come first (`ElfPartsFit`,
  `AoutPartsFit`), and a part that is loaded never moves `maxp` down
  (`AfterBounds`);
- the inductive invariant `LoadInv`.  `LoadFits` alone is not inductive: it says
  nothing of where the second pass is.  `CountInv` records what the first pass did
  after each part, in a form (`After`) that does not mention the pass, so that the
  second pass is always where the first one was; `WriteInv` bounds what was written
  by that; `SegmentInv` says that while segments are left only segments have been
  written; `MarksInv`, `BlockInv` and `LowestInv` carry the sizes, the alignment and
  the lowest address to the steps that use them;
- for the symbols, where each table is among the parts (`ElfLayout`, `AoutLayout`)
  and the invariant `TablesInv`: after the headers `maxp` is always `off` beyond the
  header (`HeaderInv`, which needs that the section headers are a multiple of 4 bytes,
  `FirstOffsetIs`), so a table is read to where its offset will be taken to point
  (`FoundInv`); in an a.out file the names follow the symbols (`AoutInv`).

`NetBoot_proofs` proves `TypeCorrect`, `InOrderCorrect`, `OneConversationCorrect` and
`TransferImplemented` for files of any length, any ports and any fault sets.
`BootInv` adds to the properties what is in the network (`NetInv`: a data packet comes
from an opened port, is a block of the file, and not one its port has yet to send; an
error or an empty packet needs that fault) and that the client has a port as soon as it
has a block (`PortInv`).  `BlocksOfFile` relates blocks and bytes: every block but the
last is full, and the last one ends with the file.  The refinement
has one step per action: each is a step of `FileTransfer` or leaves its variables alone.

`Settings_proofs` proves `ShownIsStoredCorrect`, `RelaunchRestoresCorrect` and
`DerivedAgreeCorrect` for any dialogs, boxes and numbers: `FieldsAssumption` says
that no two dialogs have a field in common, `InputsAssumption` that numbers are
integers and a file is a name and a directory.  `SettingsInv` adds to the three
properties that every open dialog shows a value of each of its controls (`Typed`) and
that a save reported good is in the file until the resource is touched again
(`KeptInForce`).  The rest is algebra of the `Get...` functions: each is shown to
store its own fields and leave the others' alone, so that the order in which
`GetAllOptions` takes the dialogs loses nothing.

`UfsFile_proofs` proves `CacheIsLRUCorrect`, `CacheCoherentCorrect`,
`DescriptorReleasedCorrect`, `OpenRightCorrect`, `ReadRightCorrect` and
`PartitionRightCorrect`: all the invariants of `ufs`, for any disks, partition maps and
labels, any sizes of the cache, of blocks and of inodes, and any reads.
`DisksAssumption` says that what a disk holds is a file system: block sizes above 0,
and entries that name an inode or none.  `NamesAssumption` says that the names that
mean a root or swap are names, and which slice a name means.

- `Shape` is what each variable may be in each phase; its part `Lru` orders the cache:
  every block that was read has a counter of its own, the greater the later it was
  used.  `GreatestOf` and `ReadSound` turn that into what a hit or an eviction returns.
- `CacheCoherent` is inductive on `Shape`: no block of another disk survives a change
  of `cache_id`.
- `Released` says who has a descriptor in use: the boot that runs, or 0, or one
  without a slot; and that the boot that runs can close its own.
- `Traced` follows an open from the superblock to the inode: as long as no read failed
  and one partition was read, the root's blocks, entries and inodes on the way are the
  root directory's own (`OnTheWay`), and the sector `get_dinode` remembers is the one
  it read (`LastRead`).
- `Reading` says that each byte copied so far is the file's byte that many places
  before `pos`, and that the indirect blocks are those of the file.  `ReadRight` is for
  files whose blocks are all on the disk and within the first indirect block (`Whole`):
  a hole is read as block 0, and double indirect blocks are read as lists of blocks.
- For `PartitionRight`, `Scanned` says what `locate_partition` knows after `k` entries:
  its candidates are the least of the entries reached that are wanted, named root, and
  not swap.  `LookScanned` shows that one entry more keeps this, `LocateIs` what it
  gives for the whole map, `SectorRight` that the sector chosen from it, or from the
  label, is what the four rules give, and `RightAllowed` that this is one the comments of
  `read_part.c` allow: they let both a partition marked root and one with the name typed
  win "no matter what", and the scan takes whichever comes first.  `StartRight` carries that
  from the search to the superblock.

`KernelFile_proofs` proves `ReadRightCorrect`, `SeekRightCorrect` and
`PositionRightCorrect`: all the invariants of `kernelfile`, for any kernels, sizes of the
input buffer and of the buffer that skips, and any number of boots, reads and seeks.
`FilesAssumption` makes a compressed kernel a whole number of compressed units, and no
kernel empty, and `LongAssumption` gives one on a disk at least as many units as the input
buffer has: of a shorter one no byte is ever used (`gzip.c:98` takes the file for ended
when the read that got it was short), and `check_header` calls it plain.  Every
compressed kernel is longer than 4096 bytes.

- Lemmas about the operators say what each gives for any file: `UnitsAre` and
  `BootReadIs`, what is in a file and what a back end returns of it; `GetByteIs`, that
  a byte is the next one across the end of the input buffer, and which two cases are
  not; `CompressedHeader` and `PlainHeader`; `InflateIs`, that what is delivered are
  the kernel's units from `total_out` on, and that the stream ends when they are all
  delivered; `RestartedIs`, that after a restart the stream is as after the open.
- `Coding` and `Finished` describe the stream of a compressed kernel that was not read
  and checked to its end.  While it is `Coding` the units ahead are those that follow
  `consumed`, and the back end is right behind them (`AheadRight`).  It is `Finished` when
  all is delivered, or when the checksum could not be read.  `TurnIs` shows that a turn
  of the loop of `gzboot_read` keeps this.
- `IInv` is `TypeOK` and four parts.  `Opened` says that a boot holds one descriptor,
  so that one is free; `Slots`, that the slot of a plain kernel stays that of a plain
  kernel, and that this boot's is of its file's kind; `Starting`, that a header is read
  with a fresh slot.  `Attached` says where the slot in use is: at the loader's place
  between two calls (`PlainAt`, `OwnAt`), as many units on as `got` has in a read,
  and `toskip` before the goal in a seek.  The three properties speak only of a
  finished call and say nothing about one in progress, so none of them is inductive.

`VideoBoot_proofs` proves `MonitorCorrect`, `SizeCorrect` and `KernelToldCorrect`: all
the invariants of `video`, for any machines and settings.  `MachinesAssumption` says
that the main screen is one of the machine's, or nil, that modes have a timing and
a depth above 0, and that the slots are 9 to 14 and the ids of sResources numbers;
`ConfigsAssumption` that there is something to configure, and that a configuration has
a depth and one of the sizes, or none.  `MonitorCorrect` holds whatever the search of
`RequestVideo.c` returns.

- `Shows` says that a screen shows a timing and a depth it has; `DepthSet`, `ModeSet`,
  `ColourSet` and `RequestSet` say of each toolbox call which screens it changes, and
  when it gets what it was asked for.
- `ScreensInv` adds what a running boot needs to set the screens back: `Kept`, the
  depth of the main screen, and `Sized`, the setting of the one screen that may have
  changed its timing.  While a boot runs every other screen has the timing and the
  depth the user had (`DepthAside`), and one whose driver does not know the Display
  Manager has its timing.  `MonitorRestored` alone says nothing of a boot that runs.
- `BestOf` says that no mode searched so far is nearer than the one a request holds, and
  that it holds the exact one if there was one.  `MatchIs` gives the tests of
  `FindBestMatch` as distances; `ConsideredBest` carries `BestOf` over one mode,
  `ModesSearched` over a screen, `AllSearched` over all of them (`OfferedUpto`).
  `Holds` says that the request is for an offered mode of the screen it names.  When
  the main screen alone offers the size, the mode is therefore one of its modes of that
  size, and of the depth asked for if there is one (`MainFound`); `MainResized` follows
  it through setting, confirming and taking back, `MonitorAsAsked` through greys.
- `DecisiveIs` says which sResource decides about a slot.  `Listed` and `Silenced` say
  what a walk of the slots has done when it has come to a slot, for the list of cards
  and for the interrupts (`VisitListed`, `VisitSilenced`).
  `KernelToldRight` speaks only of the moment the kernel is entered; `Told` says of
  each phase before it what has been told or turned off by then.

`Inflate_proofs` proves `MemoryCorrect`: `MemoryHeld` for any format, any streams, good
or not, any sizes of the window, the buffer and the rooms, and any allocations that
fail.  `MemInv` is `MemoryHeld` with the mode and the tree of lengths as parameters
(`Owns`), and the fields of `trees`, without which what a step does to the tree of
lengths cannot be said.  There is one lemma per group of actions.  What bits are read
and what the tables hold is left open: the proof is about who frees what on which path.

Only model-checked:

- liveness (`BootEnds`, `AutobootDecided`, `BootpOpenReturns`, `ReliableDelivers`),
  which TLAPS cannot prove under fairness;
- `OutputRight` and `EndRight` of `Inflate`.  They compare what the tables and the bit
  reader deliver with `Meaning`, which looks codes up by their bits.  A proof would need
  that `huft_build` makes, of any lengths, tables in which every code is found: an
  induction over tables that refer to tables;
- that the three runs that expect a violation find one.

## What the documents say and the code does not do

Shown by a run:

- `copy_and_boot.c:333` refuses a kernel for lack of memory.  Nothing resets
  `kVec[MARK_START]` between boots: after a boot that was stopped it is the address
  that boot loaded at, and the next one asks for that much more (`doc_memory`).
- `read_ufs.c:140` remembers a sector of inodes by its number within the partition,
  for the life of the program: the boot after it, from another disk, reads inodes of
  the wrong disk (`doc_inode`).  The block cache is emptied on a change of disk
  (`CacheCoherent`), but not on a change of partition on the disk, nor between an ATA
  and a SCSI disk of one id; `ReadRight` has this as a precondition.
- `infblock.c:361` says that the byte the decoder gives back at the end of the last
  block "can always" be returned.  If the caller's room was full at that moment, the
  call has ended in between, `gzip.c:193` has filled `inbuf` anew because it was empty,
  and `p--` points before it: the checksum is then read from there (`doc_return`).

Read from the code while modelling it; the models behave so, and the properties
except it:

- `BOOTER.README.txt:20` promises that an aborted boot resets the monitor depth.
  Millions of colours are kept as thousands (`Monitors.c:48`), so a screen that showed
  millions does not get them back; a mode `SaveDepth` does not know is
  not set back either, unless the Display Manager does it.  And with `AbortNonFatal` a
  failed video call clears `running`; the check that notices it calls `MainEvent` first,
  where an armed autoboot starts another boot, whose `SaveDepth` forgets the user's
  setting.  `MonitorRestored`, of both modules, excepts these.
- `read_part.c:72` says that an exact match with the name typed is used, and anything
  else is a guess; an entry marked root that comes earlier wins.  The
  comments on the two rules claim "no matter what" for each, and `PartitionRight` allows
  either.
- `_Documentation/BooterManual.html:356` says that a size the Mac does not support
  changes nothing; the search takes the nearest size of any screen.
  `SizeAsAsked` is about sizes that the main screen alone offers.
- `copy_and_boot.c:270` has every early exit dispose the kernel buffer; a stop
  seen inside `read_ufs.c` jumps past it.
- `tftp.c:161` says that a wrong block is ignored; it aborts the transfer.
- `tftp.c:177` ends the transfer with a short block; the length compared includes
  the header, so one of 508 to 511 bytes is not its end.
- `videocard.c:304` says that only the first six cards are configured; with a card in
  all six slots the walk counts as failed and the kernel is told of none.
- `_Documentation/BooterManual.html:365` says that only the main screen is changed; a
  size that another screen offers too may be set on that one.  `:353` says that a depth
  that is not supported changes nothing; together with a size, the depth is that of the
  mode that is found.
- `kernel_parse.c:188` warns of a kernel without symbols; `lensyms` still has the value
  of the kernel before, so after one with symbols it does not, and the symbols looked up
  are those of a buffer that is gone.  `SymbolsFound` is about kernels that have both
  tables.
- `Machine.c:116`: a memory size of 0 with automatic sizing off is 0 for this
  session, and the machine's own from the next launch on.

## Plan

1. BootSession, with its proofs (done).
2. NetBoot and FileTransfer (done).
3. KernelLoad, with its proofs (done).
4. Partition and UfsFile, the choice of `read_part.c` against its comment and the
   caches of `read_ufs.c` against reading the disk (done).
5. Their proofs, for any disks and sizes (done).
6. KernelFile: positions and look-ahead of `gzip.c` over the back ends (done).
7. VideoRequest, VideoCards and VideoBoot: monitor modes and cards (done).
8. Settings: dialogs and preferences (done).
9. Deflate, InflateTrees and Inflate (done).
10. Proofs: `NetBoot` and its refinement, `Settings`, `SymbolsFound`, the resource
    invariants of `session_mac`, `KernelFile`, the invariants of `VideoBoot`,
    `PartitionRight` and `MemoryHeld` of `Inflate` (done).
11. Symbols: the search of `kernel_parse.c` and the words patched into the kernel.

## Not modelled, and why

- Window and log text: user interface, with no property of their own.  Of machine
  identification only the values that decide something.
- SCSI and ATA register transfers, assembly and the process killer: single calls
  without state.
- The MacTCP resolver: third-party code.  Of zlib its own header, dictionaries,
  `inflateSync` and Adler-32, which are not reached from `gzip.c`, and the polynomial
  of CRC-32.
- `vbl_on`, `GravitateMonitors` and `RVSetVideoAsScreenPrefs`: never called, or empty.
- The default branches of `boot_vfs.c` and `load_and_boot` for a location that is
  none of the three: no code stores one.
