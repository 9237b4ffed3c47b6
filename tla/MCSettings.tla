----------------------------- MODULE MCSettings -----------------------------
(* Two launches' worth of dialogs on two machines: one with 8 MB, one with *)
(* 300, more than a byte holds.  One copied check box and one copied text  *)
(* stand for those of a dialog; TimeOut is a byte, a serial clock a long.  *)
EXTENDS Settings

MCChecks == [d \in Dialogs |->
    CASE d = "boot" -> {"EnableRoot"}     [] d = "startup" -> {"NoEnvDumps"}
      [] d = "serial" -> {"OpenModemPort"} [] d = "monitor" -> {"setToGreys"}
      [] d = "machine" -> {"NoEject"}]
MCTexts == [d \in Dialogs |->
    CASE d = "startup" -> {"TimeOut"} [] d = "serial" -> {"ModemHSKiClock"}
      [] OTHER -> {}]
MCWidth == [f \in {"TimeOut", "ModemHSKiClock"} |-> IF f = "TimeOut" THEN 256 ELSE 2147483647]
MCOnByDefault == {"EnableRoot", "NoEnvDumps"}
MCMachines == {[ram |-> 8, gmt |-> -480, type |-> 7, dm |-> 2],
               [ram |-> 300, gmt |-> 0, type |-> 18, dm |-> 1]}
MCNumbers == {-60, 5, 300}
MCFiles == {[name |-> "netbsd.old", dir |-> "a"]}
=============================================================================
