---------------------------- MODULE MCKernelFile ----------------------------
(***************************************************************************)
(* Kernels for KernelFile that end inside, at and just beyond a buffer of  *)
(* four units, compressed and not, and one shorter than the buffer.        *)
(***************************************************************************)
EXTENDS KernelFile

Kern(gz, size, rest) == [gz |-> gz, size |-> size, rest |-> rest]
MCFiles == {"plain", "short", "gzip", "split", "full", "padded"}
MCFile == [f \in MCFiles |->
    CASE f = "plain"  -> Kern(FALSE, 10, 0)
      [] f = "short"  -> Kern(FALSE, 3, 0)
      [] f = "gzip"   -> Kern(TRUE, 10, 0)      \* 9 units
      [] f = "split"  -> Kern(TRUE, 6, 0)       \* 7: checksum in the last buffer
      [] f = "full"   -> Kern(TRUE, 8, 0)       \* 8: it ends with a buffer
      [] f = "padded" -> Kern(TRUE, 8, 5)]
(* All from disk; from the net, where nothing ends, one of each sort.       *)
MCPlaces == {"disk"} \X MCFiles \cup {"net"} \X {"plain", "gzip"}
MCLengths == {1, 5}
MCOffsets == {-2, 0, 3, 8}
=============================================================================
