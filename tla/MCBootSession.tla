--------------------------- MODULE MCBootSession ---------------------------
(* Instances of BootSession for TLC.                                       *)
EXTENDS BootSession

Config(loc, monitor, logging, abort, pause, noVBL) ==
    [kernelLoc |-> loc, monitor |-> monitor, LogToFile |-> logging,
     AbortNonFatal |-> abort, PauseBeforeBoot |-> pause, NoDisableVBLs |-> noVBL]

\* Everything can change under a boot: where the kernel is, what an error does.
AnyConfigs == {Config("NetBSDPart", TRUE, TRUE, TRUE, FALSE, FALSE),
               Config("MacOSPart", FALSE, FALSE, FALSE, TRUE, TRUE),
               Config("NetBoot", TRUE, FALSE, TRUE, FALSE, FALSE)}
\* One location, the monitor always changed; every way a boot ends.
MacConfigs == {Config("MacOSPart", TRUE, FALSE, TRUE, FALSE, FALSE),
               Config("MacOSPart", TRUE, FALSE, FALSE, TRUE, TRUE)}

Machine(ppc, returns, bits, others) ==
    [onPPC |-> ppc, shutDwnReturns |-> returns, depths |-> {bits} \cup others, depth |-> bits]
Quadra  == {Machine(FALSE, FALSE, 8, {})}
\* A boot may take the depth from one that can be given back, to one that
\* cannot; the user has one that cannot; and a boot ends on the PowerPC.
Screens == {Machine(FALSE, FALSE, 8, {OddDepth}), Machine(FALSE, TRUE, 32, {}),
            Machine(TRUE, FALSE, 8, {1})}
=============================================================================
