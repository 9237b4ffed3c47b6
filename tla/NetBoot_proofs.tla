--------------------------- MODULE NetBoot_proofs ---------------------------
(***************************************************************************)
(* Proofs about NetBoot, for kernels of every length, any server ports and *)
(* every set of faults.                                                    *)
(***************************************************************************)
EXTENDS NetBoot, TLAPS

FromServer == {"DATA", "ERROR", "EMPTY"}
Datagrams  == [op : {"RRQ", "ACK"} \cup FromServer, port : Ports \cup {0}, block : 0 .. LastBlock]

(* What is on its way is a datagram that its sender could have sent: a     *)
(* server's comes from a port that was opened and, if it is a block, is    *)
(* not beyond the one sent last; one that is not data needs a fault.       *)
NetInv ==
    /\ net \subseteq Datagrams
    /\ \A m \in net : m.op \in FromServer => m.port \in Ports /\ server[m.port] # 0
    /\ \A m \in net : m.op = "DATA" => m.block \in 1 .. LastBlock /\ m.block <= server[m.port]
    /\ \A m \in net : m.op = "ACK" => m.port \in Ports /\ m.block # 0
    /\ \A m \in net : m.op = "ERROR" => "refuse" \in faults
    /\ \A m \in net : m.op = "EMPTY" => "empty" \in faults

(* The client has a port as soon as it has a block, one that was opened.   *)
PortInv ==
    /\ oldPort = 0 => oldBlock = 0
    /\ oldPort # 0 => server[oldPort] # 0

BootInv == TypeOK /\ NetInv /\ PortInv /\ InOrder /\ OneConversation
-----------------------------------------------------------------------------
(* Blocks and bytes: every block but the last is full, and the last one    *)
(* ends with the file.                                                     *)
LEMMA BlocksOfFile ==
    ASSUME fileLength \in Nat
    PROVE  /\ LastBlock \in Nat /\ LastBlock >= 1
           /\ Closed \in Nat /\ Closed = LastBlock + 1
           /\ fileLength = (LastBlock - 1) * kTFTPBlockSize + Payload(LastBlock)
           /\ Payload(LastBlock) \in 0 .. kTFTPBlockSize - 1
           /\ \A k \in Nat : k < LastBlock => /\ Payload(k) = kTFTPBlockSize
                                              /\ k * kTFTPBlockSize <= fileLength
  BY DEF LastBlock, Closed, Payload, kTFTPBlockSize

(* The length of a file the client may ask for.                            *)
LEMMA LengthType == TypeOK => fileLength \in Nat
  BY FileAssumption DEF TypeOK

(* Copying the block after the last one copied keeps the file in order.    *)
LEMMA CopyInOrder ==
    ASSUME TypeOK, InOrder, oldBlock < LastBlock,
           oldBlock' = oldBlock + 1, buffer' = Append(buffer, oldBlock + 1),
           length' = length + Payload(oldBlock + 1), UNCHANGED fileLength
    PROVE  /\ InOrder'
           /\ length' \in length .. fileLength
           /\ oldBlock + 1 = LastBlock => length' = fileLength
  <1>1. fileLength \in Nat /\ oldBlock \in Nat
    BY LengthType DEF TypeOK
  <1>2. LastBlock' = LastBlock
    BY DEF LastBlock
  <1>3. length = oldBlock * kTFTPBlockSize
    BY <1>1, BlocksOfFile DEF InOrder
  <1>4. length' = IF oldBlock' = LastBlock THEN fileLength ELSE oldBlock' * kTFTPBlockSize
    <2>1. CASE oldBlock + 1 = LastBlock
      BY <1>1, <1>3, <2>1, BlocksOfFile DEF kTFTPBlockSize
    <2>2. CASE oldBlock + 1 # LastBlock
      <3>1. oldBlock + 1 \in Nat /\ oldBlock + 1 < LastBlock
        BY <1>1, <2>2, BlocksOfFile
      <3>2. Payload(oldBlock + 1) = kTFTPBlockSize
        BY <1>1, <3>1, BlocksOfFile
      <3> QED
        BY <1>1, <1>3, <2>2, <3>2 DEF kTFTPBlockSize
    <2> QED
      BY <2>1, <2>2
  <1>5. buffer' = [i \in 1 .. oldBlock + 1 |-> i]
    BY <1>1 DEF InOrder
  <1>6. length' \in length .. fileLength
    <2>1. CASE oldBlock + 1 = LastBlock
      BY <1>1, <1>3, <1>4, <2>1, BlocksOfFile DEF kTFTPBlockSize
    <2>2. CASE oldBlock + 1 # LastBlock
      BY <1>1, <1>3, <1>4, <2>2, BlocksOfFile DEF kTFTPBlockSize
    <2> QED
      BY <2>1, <2>2
  <1> QED
    BY <1>1, <1>2, <1>4, <1>5, <1>6 DEF InOrder
-----------------------------------------------------------------------------
LEMMA InitInv == Init => BootInv
  <1> SUFFICES ASSUME Init PROVE BootInv
    OBVIOUS
  <1>1. fileLength \in Nat
    BY FileAssumption DEF Init
  <1>2. TypeOK
    <2>1. buffer \in Seq(1 .. LastBlock)
      BY DEF Init
    <2>2. server \in [Ports -> 0 .. Closed] /\ oldBlock \in 0 .. LastBlock
      BY <1>1, BlocksOfFile DEF Init
    <2>3. net = {} /\ length \in 0 .. fileLength
      BY <1>1 DEF Init
    <2> QED
      BY <2>1, <2>2, <2>3, FaultsAssumption DEF Init, TypeOK
  <1>3. InOrder
    <2>1. <<>> = [i \in 1 .. 0 |-> i]
      OBVIOUS
    <2> QED
      BY <1>1, <2>1, BlocksOfFile DEF Init, InOrder, kTFTPBlockSize
  <1>4. NetInv /\ PortInv /\ OneConversation
    BY DEF Init, NetInv, PortInv, OneConversation
  <1> QED
    BY <1>2, <1>3, <1>4 DEF BootInv

(* A step of the server or the network: no port goes back, the client's    *)
(* own stays at most one block ahead of it, the others at their first, and *)
(* what is sent is what a port that is open has sent.                      *)
LEMMA EnvironmentStep ==
    ASSUME BootInv, UNCHANGED <<envVars, clientVars, result, err>>,
           server' \in [Ports -> 0 .. Closed], \A q \in Ports : server'[q] >= server[q],
           \A q \in Ports \ {oldPort} : server'[q] \in {0, 1, Closed},
           oldPort # 0 /\ server'[oldPort] # Closed
               => server'[oldPort] \in {oldBlock, oldBlock + 1},
           \A m \in net' \ net :
              /\ m \in Datagrams /\ m.op \in FromServer
              /\ m.port \in Ports /\ server'[m.port] # 0
              /\ m.op = "DATA" => m.block \in 1 .. server'[m.port] /\ m.block <= LastBlock
              /\ m.op = "ERROR" => "refuse" \in faults
              /\ m.op = "EMPTY" => "empty" \in faults
    PROVE  BootInv'
  <1> USE DEF envVars, clientVars
  <1>1. LastBlock' = LastBlock /\ Closed' = Closed /\ Datagrams' = Datagrams
    BY DEF LastBlock, Closed, Datagrams
  <1>2. LastBlock \in Nat /\ Closed \in Nat
    BY LengthType, BlocksOfFile DEF BootInv
  <1>3. server \in [Ports -> Nat] /\ server' \in [Ports -> Nat]
    BY <1>2 DEF BootInv, TypeOK
  <1>4. NetInv'
    <2> SUFFICES ASSUME NEW m \in net'
                 PROVE  /\ m \in Datagrams
                        /\ m.op \in FromServer => m.port \in Ports /\ server'[m.port] # 0
                        /\ m.op = "DATA" => m.block \in 1 .. LastBlock /\ m.block <= server'[m.port]
                        /\ m.op = "ACK" => m.port \in Ports /\ m.block # 0
                        /\ m.op = "ERROR" => "refuse" \in faults
                        /\ m.op = "EMPTY" => "empty" \in faults
      BY <1>1 DEF NetInv
    <2>1. CASE m \in net
      <3>1. m \in Datagrams /\ m.block \in Nat
        BY <1>2, <2>1 DEF BootInv, NetInv, Datagrams
      <3> QED
        BY <1>2, <1>3, <2>1, <3>1 DEF BootInv, NetInv, FromServer
    <2>2. CASE m \notin net
      BY <1>2, <1>3, <2>2 DEF FromServer
    <2> QED
      BY <2>1, <2>2
  <1>5. TypeOK'
    BY <1>1, <1>4 DEF BootInv, TypeOK, NetInv, Datagrams, FromServer
  <1>6. PortInv'
    BY <1>3 DEF BootInv, PortInv, TypeOK
  <1>7. InOrder'
    BY <1>1 DEF BootInv, InOrder
  <1>8. OneConversation'
    <2>1. \A m \in net' : m.op = "ACK" => m \in net
      BY DEF FromServer
    <2> QED
      BY <1>1, <2>1 DEF BootInv, OneConversation
  <1> QED
    BY <1>4, <1>5, <1>6, <1>7, <1>8 DEF BootInv

LEMMA EnvironmentInv ==
    ASSUME BootInv, Environment
    PROVE  BootInv'
  <1> USE DEF envVars, clientVars
  <1>1. /\ LastBlock \in Nat /\ LastBlock >= 1 /\ Closed = LastBlock + 1
        /\ server \in [Ports -> 0 .. Closed] /\ oldBlock \in 0 .. LastBlock
        /\ oldPort \in Ports \cup {0} /\ 0 \notin Ports
    BY LengthType, BlocksOfFile, PortsAssumption DEF BootInv, TypeOK
  <1>2. /\ \A q \in Ports \ {oldPort} : server[q] \in {0, 1, Closed}
        /\ oldPort # 0 /\ server[oldPort] # Closed
              => server[oldPort] \in {oldBlock, oldBlock + 1}
        /\ oldPort # 0 => server[oldPort] # 0
    BY DEF BootInv, OneConversation, PortInv
  <1>3. CASE NetworkLoses
    BY <1>1, <1>2, <1>3, EnvironmentStep DEF NetworkLoses
  <1>4. ASSUME NEW p \in Ports, ServerOpens(p)
        PROVE  BootInv'
    <2>1. PICK b \in {1, Closed} : server' = [server EXCEPT ![p] = b]
      BY <1>4 DEF ServerOpens
    <2>2. p # oldPort /\ server[p] = 0
      BY <1>2, <1>4, <1>1 DEF ServerOpens
    <2>3. \A m \in net' \ net : \/ m = Data(p, 1)
                                \/ m = Error(p) /\ "refuse" \in faults
      BY <1>4 DEF ServerOpens, Delivered
    <2>4. \A m \in {Data(p, 1), Error(p)} : m \in Datagrams
      BY <1>1 DEF Data, Error, Datagrams, FromServer
    <2>5. server' \in [Ports -> 0 .. Closed] /\ server'[p] = b
          /\ \A q \in Ports \ {p} : server'[q] = server[q]
      BY <1>1, <2>1
    <2>6. \A m \in net' \ net :
              /\ m \in Datagrams /\ m.op \in FromServer
              /\ m.port \in Ports /\ server'[m.port] # 0
              /\ m.op = "DATA" => m.block \in 1 .. server'[m.port] /\ m.block <= LastBlock
              /\ m.op = "ERROR" => "refuse" \in faults
              /\ m.op = "EMPTY" => "empty" \in faults
      BY <1>1, <2>1, <2>3, <2>4, <2>5 DEF Data, Error, FromServer
    <2>7. UNCHANGED <<envVars, clientVars, result, err>>
      BY <1>4 DEF ServerOpens
    <2> HIDE DEF envVars, clientVars
    <2> QED
      BY <1>1, <1>2, <2>1, <2>2, <2>5, <2>6, <2>7, EnvironmentStep
  <1>5. ASSUME NEW p \in Ports, ServerAcked(p)
        PROVE  BootInv'
    <2>1. PICK m \in net : /\ m.op = "ACK" /\ m.port = p /\ m.block = server[p]
                           /\ net' \in {n \cup (IF m.block = LastBlock THEN {}
                                                 ELSE {Data(p, m.block + 1)}) : n \in Delivered(m)}
      BY <1>5 DEF ServerAcked
    <2>2. /\ p = oldPort /\ m.block <= oldBlock /\ m.block # 0
          /\ m.block \in 0 .. LastBlock
      BY <1>1, <2>1 DEF BootInv, OneConversation, NetInv, Datagrams
    <2>3. server[p] # Closed /\ server[p] = oldBlock
      BY <1>1, <1>2, <2>1, <2>2
    <2>4. server' \in [Ports -> 0 .. Closed] /\ server'[p] = oldBlock + 1
          /\ \A q \in Ports \ {p} : server'[q] = server[q]
      BY <1>1, <1>5, <2>3 DEF ServerAcked
    <2>5. \A d \in net' \ net : d = Data(p, oldBlock + 1) /\ oldBlock # LastBlock
      BY <2>1, <2>3 DEF Delivered
    <2>6. oldBlock # LastBlock => Data(p, oldBlock + 1) \in Datagrams
      BY <1>1 DEF Data, Datagrams, FromServer
    <2>7. \A d \in net' \ net :
              /\ d \in Datagrams /\ d.op \in FromServer
              /\ d.port \in Ports /\ server'[d.port] # 0
              /\ d.op = "DATA" => d.block \in 1 .. server'[d.port] /\ d.block <= LastBlock
              /\ d.op = "ERROR" => "refuse" \in faults
              /\ d.op = "EMPTY" => "empty" \in faults
      BY <1>1, <2>4, <2>5, <2>6 DEF Data, FromServer
    <2>8. UNCHANGED <<envVars, clientVars, result, err>>
      BY <1>5 DEF ServerAcked
    <2> HIDE DEF envVars, clientVars
    <2> QED
      BY <1>1, <1>2, <2>2, <2>3, <2>4, <2>7, <2>8, EnvironmentStep
  <1>6. ASSUME NEW p \in Ports, ServerResends(p) \/ EmptyDatagram(p)
        PROVE  BootInv'
    <2>1. server[p] \in 1 .. LastBlock /\ UNCHANGED <<envVars, server, clientVars, result, err>>
      BY <1>6 DEF ServerResends, EmptyDatagram
    <2>2. \A m \in net' \ net : \/ m = Data(p, server[p])
                                \/ m = Empty(p) /\ "empty" \in faults
      BY <1>6 DEF ServerResends, EmptyDatagram
    <2>3. \A m \in {Data(p, server[p]), Empty(p)} : m \in Datagrams
      BY <1>1, <2>1 DEF Data, Empty, Datagrams, FromServer
    <2>4. \A m \in net' \ net :
              /\ m \in Datagrams /\ m.op \in FromServer
              /\ m.port \in Ports /\ server'[m.port] # 0
              /\ m.op = "DATA" => m.block \in 1 .. server'[m.port] /\ m.block <= LastBlock
              /\ m.op = "ERROR" => "refuse" \in faults
              /\ m.op = "EMPTY" => "empty" \in faults
      BY <1>1, <2>1, <2>2, <2>3 DEF Data, Empty, FromServer
    <2> HIDE DEF envVars, clientVars
    <2> QED
      BY <1>1, <1>2, <2>1, <2>4, EnvironmentStep
  <1> QED
    BY <1>3, <1>4, <1>5, <1>6 DEF Environment
-----------------------------------------------------------------------------
(* A datagram that was received fixed the port, or came from it.           *)
LEMMA ReceivedPort ==
    ASSUME BootInv, NEW m \in net, Received(m)
    PROVE  /\ oldPort' \in Ports /\ server[oldPort'] # 0
           /\ oldPort # 0 => oldPort' = oldPort
           /\ oldPort = 0 => oldBlock = 0 /\ server[oldPort'] \in {1, Closed}
  <1>1. m.port \in Ports /\ server[m.port] # 0
    BY DEF BootInv, NetInv, Received, ToClient, FromServer
  <1>2. oldPort = 0 => server[m.port] \in {0, 1, Closed}
    BY <1>1, PortsAssumption DEF BootInv, OneConversation
  <1> QED
    BY <1>1, <1>2 DEF BootInv, PortInv, Received, TypeOK

(* A step of the client that copies nothing and sends no acknowledgement.  *)
LEMMA NothingCopied ==
    ASSUME BootInv, UNCHANGED <<envVars, server, oldBlock, buffer, length>>,
           net' \subseteq net \cup {Request},
           phase' \in {"bootp", "tftp"}, result' \in {"none", "file", "error"},
           err' \in {"none", "bootp", "timeout", "port", "block"},
           oldPort' = oldPort \/ \E m \in net : Received(m)
    PROVE  BootInv'
  <1> USE DEF envVars
  <1>1. LastBlock' = LastBlock /\ Closed' = Closed /\ Datagrams' = Datagrams
    BY DEF LastBlock, Closed, Datagrams
  <1>2. /\ LastBlock \in Nat /\ Closed = LastBlock + 1
        /\ server \in [Ports -> 0 .. Closed] /\ oldBlock \in 0 .. LastBlock
    BY LengthType, BlocksOfFile DEF BootInv, TypeOK
  <1>3. /\ oldPort' \in Ports \cup {0}
        /\ oldPort # 0 => oldPort' = oldPort
        /\ oldPort = 0 /\ oldPort' # 0 => oldBlock = 0 /\ server[oldPort'] \in {1, Closed}
        /\ oldPort' # 0 => server[oldPort'] # 0
    <2>1. CASE oldPort' = oldPort
      BY <2>1 DEF BootInv, TypeOK, PortInv
    <2>2. CASE \E m \in net : Received(m)
      BY <2>2, ReceivedPort, PortsAssumption
    <2> QED
      BY <2>1, <2>2
  <1>4. NetInv'
    <2>1. Request \in Datagrams
      BY <1>2 DEF Request, Datagrams
    <2> QED
      BY <1>1, <2>1 DEF BootInv, NetInv, Request, FromServer
  <1>5. TypeOK'
    BY <1>1, <1>3, <1>4 DEF BootInv, TypeOK, NetInv, Datagrams, FromServer
  <1>6. PortInv'
    BY <1>3 DEF BootInv, PortInv
  <1>7. InOrder'
    BY <1>1 DEF BootInv, InOrder
  <1>8. OneConversation'
    <2>1. \A m \in net : m.op = "ACK" => m.port = oldPort' /\ m.block <= oldBlock
      BY <1>3, PortsAssumption DEF BootInv, OneConversation, NetInv
    <2>2. \A m \in net' : m.op = "ACK" => m \in net
      BY DEF Request
    <2>3. \A q \in Ports \ {oldPort'} : server[q] \in {0, 1, Closed}
      BY <1>3, PortsAssumption DEF BootInv, OneConversation
    <2>4. oldPort' # 0 /\ server[oldPort'] # Closed
            => server[oldPort'] \in {oldBlock, oldBlock + 1}
      BY <1>2, <1>3 DEF BootInv, OneConversation
    <2> QED
      BY <1>1, <2>1, <2>2, <2>3, <2>4 DEF OneConversation
  <1> QED
    BY <1>4, <1>5, <1>6, <1>7, <1>8 DEF BootInv

(* The block that is copied is in the file, and is the one that the port   *)
(* of the client sent last.                                                *)
LEMMA ExpectedIsNext ==
    ASSUME BootInv, NEW m \in net, ExpectedBlock(m)
    PROVE  /\ m.port = oldPort' /\ m.block = oldBlock + 1
           /\ oldBlock + 1 \in 1 .. LastBlock
           /\ server[oldPort'] \in {oldBlock + 1, Closed}
  <1>1. /\ LastBlock \in Nat /\ Closed = LastBlock + 1
        /\ server \in [Ports -> 0 .. Closed] /\ oldBlock \in 0 .. LastBlock
    BY LengthType, BlocksOfFile DEF BootInv, TypeOK
  <1>2. Received(m) /\ oldPort' = m.port /\ m.op = "DATA" /\ m.block = oldBlock + 1
    BY DEF ExpectedBlock, Block
  <1>3. m.port \in Ports /\ m.block \in 1 .. LastBlock /\ m.block <= server[m.port]
    BY <1>2 DEF BootInv, NetInv, FromServer
  <1>4. CASE oldPort = 0
    BY <1>1, <1>2, <1>3, <1>4, ReceivedPort
  <1>5. CASE oldPort # 0
    <2>1. oldPort = m.port
      BY <1>2, <1>5, ReceivedPort
    <2>2. server[oldPort] # Closed => server[oldPort] \in {oldBlock, oldBlock + 1}
      BY <1>5 DEF BootInv, OneConversation
    <2> QED
      BY <1>1, <1>2, <1>3, <2>1, <2>2
  <1> QED
    BY <1>4, <1>5

LEMMA ExpectedInv ==
    ASSUME BootInv, NEW m \in net, ExpectedBlock(m)
    PROVE  /\ BootInv'
           /\ length' \in length .. fileLength
           /\ Short(m) => length' = fileLength
  <1> USE DEF envVars
  <1>1. LastBlock' = LastBlock /\ Closed' = Closed /\ Datagrams' = Datagrams
    BY DEF LastBlock, Closed, Datagrams, ExpectedBlock, Block
  <1>2. /\ LastBlock \in Nat /\ Closed = LastBlock + 1 /\ fileLength \in Nat
        /\ server \in [Ports -> 0 .. Closed] /\ oldBlock \in 0 .. LastBlock
    BY LengthType, BlocksOfFile DEF BootInv, TypeOK
  <1>3. /\ m.port = oldPort' /\ m.block = oldBlock + 1
        /\ oldBlock + 1 \in 1 .. LastBlock
        /\ server[oldPort'] \in {oldBlock + 1, Closed}
    BY ExpectedIsNext
  <1>4. /\ oldPort' \in Ports /\ server[oldPort'] # 0
        /\ oldPort # 0 => oldPort' = oldPort
        /\ oldPort = 0 => oldBlock = 0
    BY ReceivedPort DEF ExpectedBlock, Block
  <1>5. /\ oldBlock' = oldBlock + 1 /\ buffer' = Append(buffer, oldBlock + 1)
        /\ length' = length + Payload(oldBlock + 1) /\ UNCHANGED <<envVars, server, phase>>
        /\ result' \in {result, "file"} /\ err' \in {err, "none"}
    BY <1>3 DEF ExpectedBlock, Block, Returns
  <1>6. net' \subseteq net \cup {Ack(oldPort', oldBlock + 1)}
    BY <1>3 DEF ExpectedBlock, Block, Delivered
  <1>7. /\ InOrder' /\ length' \in length .. fileLength
        /\ oldBlock + 1 = LastBlock => length' = fileLength
    <2>1. oldBlock < LastBlock
      BY <1>2, <1>3
    <2> QED
      BY <1>5, <2>1, CopyInOrder DEF BootInv
  <1>8. NetInv'
    <2>1. Ack(oldPort', oldBlock + 1) \in Datagrams
      BY <1>3, <1>4, <1>2 DEF Ack, Datagrams
    <2>2. oldBlock + 1 # 0
      BY <1>2
    <2> QED
      BY <1>1, <1>4, <1>5, <1>6, <2>1, <2>2 DEF BootInv, NetInv, Ack, FromServer
  <1>9. TypeOK'
    <2>1. buffer' \in Seq(1 .. LastBlock)
      BY <1>3, <1>5 DEF BootInv, TypeOK
    <2>2. length' \in 0 .. fileLength
      BY <1>2, <1>7 DEF BootInv, TypeOK
    <2>3. /\ oldBlock' \in 0 .. LastBlock /\ oldPort' \in Ports \cup {0}
          /\ result' \in {"none", "file", "error"}
          /\ err' \in {"none", "bootp", "timeout", "port", "block"}
      BY <1>2, <1>3, <1>4, <1>5 DEF BootInv, TypeOK
    <2> QED
      BY <1>1, <1>5, <1>8, <2>1, <2>2, <2>3 DEF BootInv, TypeOK, NetInv, Datagrams, FromServer
  <1>10. PortInv'
    BY <1>4, <1>5, PortsAssumption DEF PortInv
  <1>11. OneConversation'
    <2>1. \A d \in net' : d.op = "ACK" => d.port = oldPort' /\ d.block <= oldBlock'
      <3> SUFFICES ASSUME NEW d \in net', d.op = "ACK"
                   PROVE  d.port = oldPort' /\ d.block <= oldBlock'
        OBVIOUS
      <3>1. CASE d = Ack(oldPort', oldBlock + 1)
        BY <1>2, <1>5, <3>1 DEF Ack
      <3>2. CASE d \in net
        <4>1. d.port = oldPort /\ d.block <= oldBlock /\ d.port \in Ports /\ d.block \in Nat
          BY <1>2, <3>2 DEF BootInv, OneConversation, NetInv, Datagrams
        <4> QED
          BY <1>2, <1>4, <1>5, <4>1, PortsAssumption
      <3> QED
        BY <1>6, <3>1, <3>2
    <2>2. \A q \in Ports \ {oldPort'} : server[q] \in {0, 1, Closed}
      BY <1>4, PortsAssumption DEF BootInv, OneConversation
    <2> QED
      BY <1>1, <1>3, <1>5, <2>1, <2>2 DEF OneConversation
  <1>12. Short(m) => oldBlock + 1 = LastBlock
    BY <1>2, <1>3, BlocksOfFile DEF Short, HeaderSize, kTFTPBlockSize
  <1> QED
    BY <1>7, <1>8, <1>9, <1>10, <1>11, <1>12 DEF BootInv

LEMMA NextInv == BootInv /\ [Next]_vars => BootInv'
  <1> SUFFICES ASSUME BootInv, [Next]_vars PROVE BootInv'
    OBVIOUS
  <1> USE DEF clientVars
  <1>1. CASE Environment
    BY <1>1, EnvironmentInv
  <1>2. CASE BOOTPFails \/ BOOTPReply \/ UDPRecvTimesOut
    BY <1>2, NothingCopied DEF BOOTPFails, BOOTPReply, UDPRecvTimesOut, Returns, BootInv, TypeOK
  <1>3. ASSUME NEW m \in net, WrongPort(m) \/ NotData(m) \/ WrongBlock(m)
        PROVE  BootInv'
    <2>1. Received(m) /\ net' \subseteq net
      BY <1>3 DEF WrongPort, NotData, WrongBlock, Delivered
    <2> QED
      BY <1>3, <2>1, NothingCopied DEF WrongPort, NotData, WrongBlock, Returns, BootInv, TypeOK
  <1>4. ASSUME NEW m \in net, ExpectedBlock(m)
        PROVE  BootInv'
    BY <1>4, ExpectedInv
  <1>5. CASE UNCHANGED vars
    <2>1. UNCHANGED <<envVars, server, clientVars, result, err, net>>
      BY <1>5 DEF vars
    <2> QED
      BY <2>1, NothingCopied DEF BootInv, TypeOK
  <1> QED
    BY <1>1, <1>2, <1>3, <1>4, <1>5 DEF Next, Client, Done

LEMMA BootInvariant == Spec => []BootInv
  BY InitInv, NextInv, PTL DEF Spec

(* Every state is typed: no block number, port or length leaves its range. *)
THEOREM TypeCorrect == Spec => []TypeOK
  <1>1. BootInv => TypeOK
    BY DEF BootInv
  <1> QED
    BY <1>1, BootInvariant, PTL

(* The buffer holds the first blocks of the file, each once and in order,  *)
(* and *length counts their bytes, whatever is lost, repeated or late.     *)
THEOREM InOrderCorrect == Spec => []InOrder
  <1>1. BootInv => InOrder
    BY DEF BootInv
  <1> QED
    BY <1>1, BootInvariant, PTL

(* The client acknowledges to one port only, which is never more than one  *)
(* block ahead of it, though the server may have opened several.           *)
THEOREM OneConversationCorrect == Spec => []OneConversation
  <1>1. BootInv => OneConversation
    BY DEF BootInv
  <1> QED
    BY <1>1, BootInvariant, PTL
-----------------------------------------------------------------------------
(* The refinement: the client's steps are those of FileTransfer, and the   *)
(* server and the network let it stutter.                                  *)
LEMMA InitRefines == Init => Transfer!Init
  BY DEF Init, Transfer!Init

LEMMA StepRefines == BootInv /\ [Next]_vars => [Transfer!Next]_Transfer!vars
  <1> SUFFICES ASSUME BootInv, [Next]_vars
               PROVE  Transfer!Next \/ UNCHANGED Transfer!vars
    OBVIOUS
  <1> USE DEF envVars, clientVars, Transfer!vars
  <1>1. length \in 0 .. fileLength /\ fileLength \in Nat
    BY LengthType DEF BootInv, TypeOK
  <1>2. CASE Environment
    BY <1>2 DEF Environment, NetworkLoses, ServerOpens, ServerAcked, ServerResends, EmptyDatagram
  <1>3. CASE BOOTPReply
    BY <1>3 DEF BOOTPReply
  <1>4. CASE BOOTPFails \/ UDPRecvTimesOut
    BY <1>4 DEF BOOTPFails, UDPRecvTimesOut, Returns, Transfer!Next, Transfer!Fail
  <1>5. ASSUME NEW m \in net, WrongPort(m) \/ WrongBlock(m)
        PROVE  Transfer!Fail
    BY <1>5 DEF WrongPort, WrongBlock, Received, Returns, Transfer!Fail
  <1>6. ASSUME NEW m \in net, NotData(m)
        PROVE  Transfer!Succeed
    <2>1. m.op \in {"ERROR", "EMPTY"}
      BY <1>6 DEF NotData, Received, ToClient
    <2>2. faults \cap {"refuse", "empty"} # {}
      BY <2>1 DEF BootInv, NetInv
    <2> QED
      BY <1>1, <1>6, <2>2 DEF NotData, Received, Returns, Transfer!Succeed
  <1>7. ASSUME NEW m \in net, ExpectedBlock(m)
        PROVE  Transfer!Copy \/ Transfer!Succeed
    <2>1. length' \in length .. fileLength /\ (Short(m) => length' = fileLength)
      BY <1>7, ExpectedInv
    <2>2. result = "none" /\ UNCHANGED envVars
      BY <1>7 DEF ExpectedBlock, Block, Received
    <2>3. CASE Short(m)
      <3>1. result' = "file"
        BY <1>7, <2>3 DEF ExpectedBlock, Block, Returns
      <3> QED
        BY <2>1, <2>2, <2>3, <3>1 DEF Transfer!Succeed
    <2>4. CASE ~Short(m)
      <3>1. result' = result
        BY <1>7, <2>4 DEF ExpectedBlock, Block
      <3> QED
        BY <2>1, <2>2, <3>1 DEF Transfer!Copy
    <2> QED
      BY <2>3, <2>4
  <1>8. CASE UNCHANGED vars
    BY <1>8 DEF vars
  <1> QED
    BY <1>2, <1>3, <1>4, <1>5, <1>6, <1>7, <1>8 DEF Next, Client, Done, Transfer!Next

(* bootp_open keeps the promise of FileTransfer: what is in the buffer     *)
(* only grows, and a success means the whole file unless the server        *)
(* refuses the request or a datagram is empty.                             *)
THEOREM TransferImplemented == Spec => Implements
  <1>1. Init /\ [][Next]_vars /\ []BootInv => Transfer!Init /\ [][Transfer!Next]_Transfer!vars
    BY InitRefines, StepRefines, PTL
  <1> QED
    BY <1>1, BootInvariant, PTL DEF Spec, Implements, Transfer!Spec
=============================================================================
