------------------------------ MODULE NetBoot ------------------------------
(***************************************************************************)
(* bootp_open: a BOOTP exchange names the server, then a TFTP transfer     *)
(* reads the whole kernel into a buffer.  The client is read_bootp.c,      *)
(* bootp.c, tftp.c and udp.c; the server and the network are external.  A  *)
(* session meets the faults of one set, chosen at the start.               *)
(***************************************************************************)
EXTENDS Naturals, Sequences

CONSTANTS
    FileLengths,        \* kernel sizes, in bytes
    Ports,              \* the server's ephemeral ports
    FaultSets           \* sets of faults a session may meet

Faults == {"lose",      \* a datagram is lost
           "dup",       \* a datagram is delivered again
           "slow",      \* a timer may run out while a datagram is on its way
           "stale",     \* a BOOTP reply to an earlier request arrives
           "refuse",    \* the server answers with a TFTP error
           "empty"}     \* a datagram arrives without data

ASSUME FileAssumption  == FileLengths \subseteq Nat
ASSUME PortsAssumption == 0 \notin Ports
ASSUME FaultsAssumption == FaultSets \subseteq SUBSET Faults

kTFTPBlockSize == 512
HeaderSize     == 4     \* 2 * sizeof(short)

VARIABLES
    faults, fileLength, \* fixed for the session
    net,                \* datagrams on their way
    server,             \* the block each port sent last
    phase,              \* where bootp_open is
    oldBlock, oldPort,  \* tftp_RECV's locals, 0 at first
    buffer, length,     \* blocks copied, and *length
    result, err         \* what bootp_open returned, and why it failed

envVars    == <<faults, fileLength>>
clientVars == <<phase, oldBlock, oldPort, buffer, length>>
vars       == <<envVars, net, server, clientVars, result, err>>

LastBlock  == fileLength \div kTFTPBlockSize + 1
Payload(k) == IF k < LastBlock THEN kTFTPBlockSize ELSE fileLength % kTFTPBlockSize
Closed     == LastBlock + 1     \* a port that is through

Request       == [op |-> "RRQ",   port |-> 0, block |-> 0]
Data(p, k)    == [op |-> "DATA",  port |-> p, block |-> k]
Ack(p, k)     == [op |-> "ACK",   port |-> p, block |-> k]
Error(p)      == [op |-> "ERROR", port |-> p, block |-> 0]
Empty(p)      == [op |-> "EMPTY", port |-> p, block |-> 0]

ToClient == {m \in net : m.op \in {"DATA", "ERROR", "EMPTY"}}
(* A datagram that is delivered stays on its way when it is duplicated.    *)
Delivered(m) == {net \ {m}} \cup (IF "dup" \in faults THEN {net} ELSE {})
(* Without faults a timer runs out only when nothing is on its way.        *)
TimersFair == faults # {} \/ net = {}

Init ==
    /\ faults \in FaultSets /\ fileLength \in FileLengths
    /\ net = {} /\ server = [p \in Ports |-> 0]
    /\ phase = "bootp" /\ oldBlock = 0 /\ oldPort = 0
    /\ buffer = <<>> /\ length = 0
    /\ result = "none" /\ err = "none"
-----------------------------------------------------------------------------
(* The server and the network (external).                                  *)

ServerOpens(p) ==               \* each request it sees gets a port of its own
    /\ Request \in net /\ server[p] = 0
    /\ \E n \in Delivered(Request) :
         \/ /\ server' = [server EXCEPT ![p] = 1]
            /\ net' = n \cup {Data(p, 1)}
         \/ /\ "refuse" \in faults
            /\ server' = [server EXCEPT ![p] = Closed]
            /\ net' = n \cup {Error(p)}
    /\ UNCHANGED <<envVars, clientVars, result, err>>

ServerAcked(p) ==               \* the block it sent last is acknowledged
    /\ \E m \in net : /\ m.op = "ACK" /\ m.port = p /\ m.block = server[p]
                      /\ net' \in {n \cup (IF m.block = LastBlock THEN {}
                                           ELSE {Data(p, m.block + 1)}) : n \in Delivered(m)}
    /\ server' = [server EXCEPT ![p] = @ + 1]
    /\ UNCHANGED <<envVars, clientVars, result, err>>

ServerResends(p) ==             \* its timer runs out
    /\ server[p] \in 1 .. LastBlock /\ TimersFair
    /\ net' = net \cup {Data(p, server[p])}
    /\ UNCHANGED <<envVars, server, clientVars, result, err>>

NetworkLoses ==
    /\ "lose" \in faults
    /\ \E m \in net : net' = net \ {m}
    /\ UNCHANGED <<envVars, server, clientVars, result, err>>

EmptyDatagram(p) ==
    /\ "empty" \in faults /\ server[p] \in 1 .. LastBlock
    /\ net' = net \cup {Empty(p)}
    /\ UNCHANGED <<envVars, server, clientVars, result, err>>

Environment == \/ NetworkLoses
               \/ \E p \in Ports : \/ ServerOpens(p) \/ ServerAcked(p)
                                   \/ ServerResends(p) \/ EmptyDatagram(p)
-----------------------------------------------------------------------------
(* The client: BOOTPClient, then tftpReadFile.                             *)

Returns(r, e) == result' = r /\ err' = e

(* NewPtr, OpenDriver, UDPCreateStream, GetMyIPAddress or UDPSend fails, or*)
(* no reply comes in time.                                                 *)
BOOTPFails ==
    /\ phase = "bootp" /\ result = "none"
    /\ faults # {}
    /\ Returns("error", "bootp")
    /\ UNCHANGED <<envVars, net, server, clientVars>>

(* A reply to another request leaves the record zeroed, and noErr: no      *)
(* server will see the request that follows.                               *)
BOOTPReply ==
    /\ phase = "bootp" /\ result = "none"
    /\ \/ net' = {Request}
       \/ "stale" \in faults /\ net' = {}
    /\ phase' = "tftp"
    /\ UNCHANGED <<envVars, server, oldBlock, oldPort, buffer, length, result, err>>

\* Defect: the receive has no time-out.
UDPRecvWaitsForever == FALSE

UDPRecvTimesOut ==
    /\ phase = "tftp" /\ result = "none" /\ TimersFair
    /\ Returns("error", "timeout")
    /\ UNCHANGED <<envVars, net, server, clientVars>>

\* Defect: the port is taken from every datagram.
ReceivedAnyPort(m) ==
    /\ phase = "tftp" /\ result = "none"
    /\ m \in ToClient
    /\ oldPort' = m.port

(* A datagram reaches tftp_RECV; the first one fixes the server's port.    *)
Received(m) ==
    /\ phase = "tftp" /\ result = "none"
    /\ m \in ToClient
    /\ oldPort' = IF oldPort = 0 THEN m.port ELSE oldPort

WrongPort(m) ==
    /\ Received(m) /\ oldPort' # m.port
    /\ net' \in Delivered(m)
    /\ Returns("error", "port")
    /\ UNCHANGED <<envVars, server, phase, oldBlock, buffer, length>>

(* Not a data message, or none at all: the buffer then still holds the     *)
(* client's own last message.  tftp_RECV returns noErr.                    *)
NotData(m) ==
    /\ Received(m) /\ oldPort' = m.port /\ m.op # "DATA"
    /\ net' \in Delivered(m)
    /\ Returns("file", "none")
    /\ UNCHANGED <<envVars, server, phase, oldBlock, buffer, length>>

WrongBlock(m) ==
    /\ Received(m) /\ oldPort' = m.port /\ m.op = "DATA"
    /\ m.block # oldBlock + 1
    /\ net' \in Delivered(m)
    /\ Returns("error", "block")
    /\ UNCHANGED <<envVars, server, phase, oldBlock, buffer, length>>

(* What the block loop does with a block, for a given test of its number,  *)
(* size copied, end test and acknowledgement.                              *)
Block(m, expected, copied, last, acked) ==
    /\ Received(m) /\ oldPort' = m.port /\ m.op = "DATA"
    /\ expected
    /\ oldBlock' = m.block
    /\ buffer' = Append(buffer, m.block)
    /\ length' = length + copied
    /\ \E n \in Delivered(m) :
         IF last THEN net' = n /\ Returns("file", "none")
         ELSE net' = n \cup {Ack(m.port, acked)} /\ UNCHANGED <<result, err>>
    /\ UNCHANGED <<envVars, server, phase>>

Short(m) == HeaderSize + Payload(m.block) < kTFTPBlockSize

\* Defect: the block number is not compared.
ExpectedBlockUnchecked(m) == Block(m, TRUE, Payload(m.block), Short(m), m.block)
\* Defect: the header is not subtracted from the length.
ExpectedBlockWithHeader(m) ==
    Block(m, m.block = oldBlock + 1, HeaderSize + Payload(m.block), Short(m), m.block)
\* Defect: a full block ends the transfer.
ExpectedBlockEndsEarly(m) ==
    Block(m, m.block = oldBlock + 1, Payload(m.block),
          Payload(m.block) <= kTFTPBlockSize, m.block)
\* Defect: the block is acknowledged with the number before it.
ExpectedBlockLateAck(m) ==
    Block(m, m.block = oldBlock + 1, Payload(m.block), Short(m), oldBlock)

(* The expected block is copied; a short one ends the transfer, any other  *)
(* is acknowledged.  "Short" compares the datagram, header included, with  *)
(* the block size.                                                         *)
ExpectedBlock(m) ==
    Block(m, m.block = oldBlock + 1, Payload(m.block), Short(m), m.block)

Client == \/ BOOTPFails \/ BOOTPReply \/ UDPRecvTimesOut
          \/ \E m \in net : WrongPort(m)
          \/ \E m \in net : NotData(m)
          \/ \E m \in net : WrongBlock(m)
          \/ \E m \in net : ExpectedBlock(m)

Done == result # "none" /\ UNCHANGED vars
Next == Environment \/ Client \/ Done
Spec == Init /\ [][Next]_vars

(* udp.c bounds every receive with a time-out, and a network without       *)
(* faults delivers.                                                        *)
FairSpec == /\ Spec /\ WF_vars(Client)
            /\ \A p \in Ports : WF_vars(ServerAcked(p))
            /\ WF_vars(\E p \in Ports : ServerOpens(p))
-----------------------------------------------------------------------------
TypeOK ==
    /\ faults \in SUBSET Faults /\ fileLength \in FileLengths
    /\ \A m \in net : /\ m.op \in {"RRQ", "DATA", "ACK", "ERROR", "EMPTY"}
                      /\ m.port \in Ports \cup {0} /\ m.block \in 0 .. LastBlock
    /\ server \in [Ports -> 0 .. Closed]
    /\ phase \in {"bootp", "tftp"} /\ oldPort \in Ports \cup {0}
    /\ oldBlock \in 0 .. LastBlock /\ buffer \in Seq(1 .. LastBlock)
    /\ length \in 0 .. fileLength
    /\ result \in {"none", "file", "error"}
    /\ err \in {"none", "bootp", "timeout", "port", "block"}

(* Whatever is lost, repeated or late, the buffer holds the first blocks   *)
(* of the file, each once and in order, and *length counts their bytes     *)
(* (tftp_RECV's block number test and pointer updates).                    *)
InOrder ==
    /\ buffer = [i \in 1 .. oldBlock |-> i]
    /\ length = IF oldBlock = LastBlock THEN fileLength ELSE oldBlock * kTFTPBlockSize

(* The client talks to one port, although a repeated request makes the     *)
(* server open several: every acknowledgement goes to the port the first   *)
(* datagram came from, and that port is never more than one block ahead of *)
(* the client, nor behind it, unless it refused the request.               *)
OneConversation ==
    /\ \A m \in net : m.op = "ACK" => m.port = oldPort /\ m.block <= oldBlock
    /\ \A p \in Ports \ {oldPort} : server[p] \in {0, 1, Closed}
    /\ oldPort # 0 /\ server[oldPort] # Closed
          => server[oldPort] \in {oldBlock, oldBlock + 1}

(* bootp_open keeps the promise of FileTransfer: a success is a whole file *)
(* unless the server refuses the request or a datagram is empty.           *)
Transfer == INSTANCE FileTransfer
                WITH trusted <- faults \cap {"refuse", "empty"} = {}
Implements == Transfer!Spec

(* bootp_open returns, whatever the network does.                          *)
BootpOpenReturns == <>(result # "none")

(* Without faults the whole file arrives, unless its last block is one the *)
(* client takes for a full one.                                            *)
ReliableDelivers ==
    faults = {} /\ fileLength % kTFTPBlockSize < kTFTPBlockSize - HeaderSize
       => <>(result = "file" /\ length = fileLength)
=============================================================================
