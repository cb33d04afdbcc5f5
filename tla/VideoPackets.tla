---------------------------- MODULE VideoPackets ----------------------------
(***************************************************************************)
(* What travels on the video port: the parts of VideoPacketHeader that the *)
(* sender writes and the receiver reads, and the identity of the bytes     *)
(* behind them.  A payload is never its bytes: it is the part of the frame *)
(* (or of its parity) that it carries, and the form those bytes are in.    *)
(***************************************************************************)
EXTENDS Naturals, FiniteSets

CONSTANTS
  FrameMod,     (* 2^16: width of VideoPacketHeader::frameNumber             *)
  ByteMod,      (* 2^8: width of packetIndex, totalPackets and fecIndex      *)
  GroupMod,     (* 2^8: width of fecGroupId                                  *)
  RingSize,     (* 16: FEC states the receiver keeps, indexed by group       *)
  MaxFrames,    (* bound: frames the host sends                              *)
  PacketCounts, (* numbers of data packets a frame may need                  *)
  IdrFlags,     (* bound: whether the encoder may produce IDR frames, others *)
  FecPercent,   (* VideoSender::m_fecRatio, in percent                       *)
  Encrypted     (* the session negotiated AES-GCM                            *)

ASSUME WidthsAssumption ==
  /\ FrameMod \in Nat \ {0}
  /\ ByteMod \in Nat \ {0}
  /\ GroupMod \in Nat \ {0}
  /\ RingSize \in Nat \ {0}

ASSUME SenderAssumption ==
  /\ MaxFrames \in Nat
  /\ PacketCounts \subseteq Nat \ {0}
  /\ IdrFlags \subseteq BOOLEAN
  /\ FecPercent \in 0..50
  /\ Encrypted \in BOOLEAN

(* The forms of a payload: as encoded, encrypted, rebuilt with the zero    *)
(* padding of the last data shard, rebuilt from shards that do not belong  *)
(* together, and not filled in.                                            *)
Forms == {"plain", "cipher", "padded", "corrupt", "empty"}

Payload == [frame : Nat, part : Nat, form : Forms]

SentForm == IF Encrypted THEN "cipher" ELSE "plain"

FrameNumber == 0..(FrameMod - 1)
Byte == 0..(ByteMod - 1)

DataPacket ==
  [type : {"data"}, sequence : Nat, frameNumber : FrameNumber, packetIndex : Byte,
   totalPackets : Byte, isIdr : BOOLEAN, payload : Payload]

(* In a parity packet totalPackets holds k, packetIndex holds m and        *)
(* fecIndex is the payload's part; frameNumber stays 0.                    *)
FecPacket ==
  [type : {"fec"}, sequence : Nat, fecGroupId : 0..(GroupMod - 1), dataShards : Byte,
   parityShards : Byte, payload : Payload]

Packet == DataPacket \cup FecPacket
=============================================================================
