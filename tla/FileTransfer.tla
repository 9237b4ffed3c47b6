---------------------------- MODULE FileTransfer ----------------------------
(***************************************************************************)
(* What bootp_open promises its caller: the file grows in the buffer from  *)
(* the front, and when the open succeeds the whole file is there, if the   *)
(* server can be trusted to send nothing but data.                         *)
(***************************************************************************)
EXTENDS Naturals

CONSTANT FileLengths

VARIABLES fileLength, trusted, length, result
vars == <<fileLength, trusted, length, result>>

Init == /\ fileLength \in FileLengths /\ trusted \in BOOLEAN
        /\ length = 0 /\ result = "none"

Copy    == /\ result = "none"
           /\ length' \in length .. fileLength
           /\ UNCHANGED <<fileLength, trusted, result>>
Succeed == /\ result = "none"
           /\ length' \in length .. fileLength
           /\ trusted => length' = fileLength
           /\ result' = "file"
           /\ UNCHANGED <<fileLength, trusted>>
Fail    == /\ result = "none"
           /\ result' = "error"
           /\ UNCHANGED <<fileLength, trusted, length>>

Next == Copy \/ Succeed \/ Fail
Spec == Init /\ [][Next]_vars
=============================================================================
