----------------------------- MODULE VideoSender -----------------------------
(***************************************************************************)
(* VideoSender (src/common/transport/video_sender.cpp): cuts a frame into  *)
(* data packets, encrypts them, and adds Reed-Solomon parity computed over *)
(* what it is about to send.  Frames are identified by the order in which  *)
(* they are sent: 1, 2, ...; the receiver only compares frame numbers for  *)
(* equality, so gaps in the host's numbering make no difference.           *)
(***************************************************************************)
EXTENDS VideoPackets, Sequences

VARIABLES
  sent,        (* what was sent: for each frame its packet count and IDR flag *)
  sequence,    (* m_sequence; every use of its order is modulo the window     *)
  fecGroupId   (* m_fecGroupId                                                *)

senderVars == <<sent, sequence, fecGroupId>>

SenderInit ==
  /\ sent = << >>
  /\ sequence = 0
  /\ fecGroupId = 0

(* GenerateFec runs only when the truncated ratio asks for a packet, and   *)
(* then keeps k + m below the 255 shards the field has room for.           *)
ParityCount(k) ==
  LET wanted == (k * FecPercent) \div 100 IN
  IF k + wanted < ByteMod THEN wanted
  ELSE IF k < ByteMod THEN ByteMod - 1 - k
  ELSE 0

DataPackets(f, k, idr) ==
  { [type         |-> "data",
     sequence     |-> sequence + i,
     frameNumber  |-> f % FrameMod,
     packetIndex  |-> i % ByteMod,
     totalPackets |-> k % ByteMod,
     isIdr        |-> idr,
     payload      |-> [frame |-> f, part |-> i, form |-> SentForm]] : i \in 0..(k - 1) }

(* Parity is taken over the packets as they are sent, encrypted or not,    *)
(* and is itself sent as it is.                                            *)
FecPackets(f, k) ==
  { [type         |-> "fec",
     sequence     |-> sequence + k + p,
     fecGroupId   |-> fecGroupId,
     dataShards   |-> k % ByteMod,
     parityShards |-> ParityCount(k) % ByteMod,
     payload      |-> [frame |-> f, part |-> p, form |-> SentForm]] : p \in 0..(ParityCount(k) - 1) }

FramePackets(f, k, idr) == DataPackets(f, k, idr) \cup FecPackets(f, k)

SendFrame(k, idr) ==
  /\ sent' = Append(sent, [count |-> k, idr |-> idr])
  /\ sequence' = sequence + k + ParityCount(k)
  /\ fecGroupId' = (fecGroupId + 1) % GroupMod

SenderTypeOK ==
  /\ sent \in Seq([count : PacketCounts, idr : BOOLEAN])
  /\ sequence \in Nat
  /\ fecGroupId \in 0..(GroupMod - 1)
=============================================================================
