--------------------------- MODULE VideoTransport ---------------------------
(***************************************************************************)
(* The video path from VideoSender::SendFrame to VideoReceiver's callback, *)
(* over UDP: packets may be lost, overtaken and duplicated.                *)
(***************************************************************************)
EXTENDS VideoSender, VideoReceiver

CONSTANTS
  MaxReorder,  (* packets in flight that one packet may overtake *)
  MaxLoss,     (* packets the network loses                      *)
  MaxDup       (* packets the network delivers once more         *)

ASSUME NetworkAssumption == MaxReorder \in Nat /\ MaxLoss \in Nat /\ MaxDup \in Nat

VARIABLES
  net,         (* packets in flight *)
  lost,        (* packets the network dropped *)
  dups,        (* how often it delivered a packet and kept it *)
  unkeyed      (* history: the deliveries that began before the key was there *)

netVars == <<net, lost, dups>>
vars == <<senderVars, receiverVars, netVars, unkeyed>>

Init ==
  /\ SenderInit
  /\ ReceiverInit
  /\ net = {}
  /\ lost = {}
  /\ dups = 0
  /\ unkeyed = 0

(* SendFrame hands all the packets of a frame to the socket in one call. *)
HostSends(k, idr) ==
  /\ Len(sent) < MaxFrames
  /\ net' = net \cup FramePackets(Len(sent) + 1, k, idr)
  /\ SendFrame(k, idr)
  /\ UNCHANGED <<receiverVars, lost, dups, unkeyed>>

(* A packet may be next to leave the network if it overtakes few enough. *)
AtHead(p) == Cardinality({q \in net : q.sequence < p.sequence}) <= MaxReorder

Arrive(p) ==
  /\ AtHead(p)
  /\ net' = net \ {p}
  /\ Receive(p)
  /\ UNCHANGED <<senderVars, lost, dups, unkeyed>>

ArriveAndRepeat(p) ==
  /\ AtHead(p)
  /\ dups < MaxDup
  /\ dups' = dups + 1
  /\ Receive(p)
  /\ UNCHANGED <<senderVars, net, lost, unkeyed>>

Lose(p) ==
  /\ AtHead(p)
  /\ Cardinality(lost) < MaxLoss
  /\ net' = net \ {p}
  /\ lost' = lost \cup {p}
  /\ UNCHANGED <<senderVars, receiverVars, dups, unkeyed>>

InstallKey ==
  /\ AllocateCrypto \/ InitCrypto \/ InitCryptoFails
  /\ unkeyed' = IF current.received = {} THEN Len(delivered) ELSE Len(delivered) + 1
  /\ UNCHANGED <<senderVars, netVars>>

Next ==
  \/ \E k \in PacketCounts, idr \in IdrFlags : HostSends(k, idr)
  \/ \E p \in net : Arrive(p)
  \/ \E p \in net : ArriveAndRepeat(p)
  \/ \E p \in net : Lose(p)
  \/ InstallKey

Spec == Init /\ [][Next]_vars

(* The receive thread runs while the session does, so a packet in flight   *)
(* is received or lost, and SetEncryptionKey returns.                      *)
Fairness == WF_vars(\E p \in net : Arrive(p)) /\ WF_vars(InstallKey)

FairSpec == Spec /\ Fairness

------------------------------------------------------------------------------
NetTypeOK == net \subseteq Packet /\ lost \subseteq Packet /\ dups \in Nat /\ unkeyed \in Nat

(* Every variable of the video path keeps its type. *)
TypeOK == SenderTypeOK /\ ReceiverTypeOK /\ NetTypeOK

------------------------------------------------------------------------------
(* Every packet count fits its field, and no two frames considered have    *)
(* the same number.                                                        *)
NoWrap == MaxFrames <= FrameMod /\ \A k \in PacketCounts : k < ByteMod

IsPart(x, f, i) == x.frame = f /\ x.part = i /\ x.form # "corrupt"

(* Slot i of a frame numbered as f was holds part i of f, unless recovery  *)
(* rebuilt it from shards that do not belong together.                     *)
SlotOK(x, f, i) == x.form = "corrupt" \/ IsPart(x, f, i)

(* The frame being reassembled is one the host sent, with its packet count *)
(* and IDR flag, and every slot filled so far holds the right packet of    *)
(* that very frame: late, repeated and overtaking packets never mix two    *)
(* frames, and the counter that decides completion counts filled slots.    *)
ReassemblyConsistent ==
  current.totalPackets # 0 =>
    \E f \in 1..Len(sent) :
      /\ current.frameNumber = f % FrameMod
      /\ current.totalPackets = sent[f].count
      /\ current.isIdr = sent[f].idr
      /\ current.receivedCount = Cardinality(current.received)
      /\ current.receivedCount < current.totalPackets
      /\ \A i \in current.received : IsPart(current.packets[i], f, i)

WholeFrame(d, f) ==
  /\ d.frameNumber = f % FrameMod
  /\ d.isIdr = sent[f].idr
  /\ DOMAIN d.packets = 0..(sent[f].count - 1)

(* Every frame handed to the decoder has all the packets the host cut it   *)
(* into, each in its place or rebuilt by FEC.                              *)
DeliveredWhole ==
  \A n \in 1..Len(delivered) : \E f \in 1..Len(sent) :
    /\ WholeFrame(delivered[n], f)
    /\ \A i \in 0..(sent[f].count - 1) : SlotOK(delivered[n].packets[i], f, i)

AsEncoded(d) ==
  \E f \in 1..Len(sent) :
    /\ WholeFrame(d, f)
    /\ \A i \in 0..(sent[f].count - 1) : d.packets[i] = [frame |-> f, part |-> i, form |-> "plain"]

(* Once the key has been installed a frame is handed to the decoder as the *)
(* encoder produced it: complete, in order and decrypted to the last       *)
(* packet.  Only the delivery being assembled at that moment may hold      *)
(* packets that were taken as they came.                                   *)
DeliveredGenuine ==
  \A n \in 1..Len(delivered) :
    ~ Encrypted \/ (crypto = "ready" /\ n > unkeyed) => AsEncoded(delivered[n])

DeliveriesOf(f) == {n \in 1..Len(delivered) : delivered[n].frameNumber = f % FrameMod}

(* The receiver keeps no record of the frames it has delivered, so only    *)
(* the scarcity of packets stops it from delivering one again: without FEC *)
(* a frame is delivered once more for each packet the network repeats, and *)
(* no oftener.                                                             *)
DeliveredAtMostCopies ==
  \A f \in 1..Len(sent) : Cardinality(DeliveriesOf(f)) <= 1 + dups

------------------------------------------------------------------------------
LostParts(f) == {p \in lost : p.type = "data" /\ p.payload.frame = f}

(* Frame f was handed over with every one of its packets, as sent or       *)
(* rebuilt as sent; the last one may have kept its padding.                *)
Delivered(f) ==
  \E n \in 1..Len(delivered) :
    /\ f \in DOMAIN sent /\ WholeFrame(delivered[n], f)
    /\ \A i \in DOMAIN delivered[n].packets :
         IsPart(delivered[n].packets[i], f, i) /\ delivered[n].packets[i].form \in {"plain", "padded"}

(* Without reordering a frame none of whose packets is lost is eventually  *)
(* delivered, whatever happened to the frames before it.                   *)
UndamagedFramesArrive ==
  \A f \in 1..MaxFrames : (f <= Len(sent)) ~> (Delivered(f) \/ LostParts(f) # {})

LostParity(f) == {p \in lost : p.type = "fec" /\ p.payload.frame = f}

(* Too little of frame f arrived for its parity to make up for the rest. *)
BeyondRepair(f) ==
  /\ f \in DOMAIN sent
  /\ \/ Cardinality(LostParts(f)) = sent[f].count
     \/ Cardinality(LostParts(f)) + Cardinality(LostParity(f)) > ParityCount(sent[f].count)

DataLost(g) == Cardinality(LostParts(g)) = sent[g].count

(* Nothing arrives after frame f that would make the receiver repair it. *)
NothingFollows(f) == \A g \in (f + 1)..Len(sent) : DataLost(g)

(* The slot of the receiver's ring that the parity of frame f goes to.     *)
ParitySlot(f) == ((f - 1) % GroupMod) % RingSize

LostShard(f, part) == \E p \in LostParity(f) : p.payload.part = part

(* The receiver takes another frame's parity for that of f: a frame of as  *)
(* many packets has left its parity in a slot that is searched earlier, or *)
(* a shard of f's own parity is lost and its slot still holds an older one.*)
Misled(f) ==
  /\ f \in DOMAIN sent
  /\ \E e \in DOMAIN sent :
       \/ /\ sent[e].count = sent[f].count
          /\ ParitySlot(e) < ParitySlot(f)
          /\ Cardinality(LostParity(e)) < ParityCount(sent[e].count)
          /\ e < f \/ DataLost(e)
       \/ /\ ParitySlot(e) = ParitySlot(f)
          /\ e < f
          /\ \E part \in 0..(ParityCount(sent[e].count) - 1) : LostShard(f, part)

(* Without reordering a damaged frame with enough shards is delivered as   *)
(* it was sent once a later frame is noticed, unless the parity an earlier *)
(* frame left behind is taken for its own: states used up, of other counts *)
(* or overwritten do not keep the repair from happening.                   *)
RepairableFramesArrive ==
  \A f \in 1..MaxFrames :
    (f < Len(sent)) ~> (Delivered(f) \/ BeyondRepair(f) \/ NothingFollows(f) \/ Misled(f))

HasCorrupt(d) == \E i \in DOMAIN d.packets : d.packets[i].form = "corrupt"

(* Recovery rebuilds the packets the host sent. *)
RecoveryGenuine == \A n \in 1..Len(delivered) : ~ HasCorrupt(delivered[n])

(* The positions of the frames that a step hands to the decoder. *)
HandedOver == (Len(delivered) + 1)..Len(delivered')

(* d is a frame whose state holds a shard of another frame of as many      *)
(* packets, or is the frame's own and lends it an older frame's shard in   *)
(* place of one that was lost.                                             *)
UsesLeftover(d) ==
  LET g == FirstUsable(current)
  IN  \E f \in 1..Len(sent), q \in fecStates[g].parity :
        /\ WholeFrame(d, f)
        /\ q.frame # f
        /\ \/ sent[q.frame].count = sent[f].count
           \/ /\ q \in UsedParity(current, fecStates[g])
              /\ q.frame < f
              /\ g = ParitySlot(f)
              /\ LostShard(f, q.part)

(* Recovery picks an FEC state by shard count alone, and a state keeps the *)
(* shards an earlier group left in it.  Without reordering a repair goes   *)
(* wrong for no other reason than these: no stale shard is used where the  *)
(* frame's own arrived, and no state of another count is taken.            *)
WrongRepairNeedsLeftover ==
  [][\A n \in HandedOver : HasCorrupt(delivered'[n]) => UsesLeftover(delivered'[n])]_vars

HasForm(d, form) == \E i \in DOMAIN d.packets : d.packets[i].form = form

(* The key is set while packets already arrive.  Once a frame with a       *)
(* decrypted packet has been delivered, no later frame carries ciphertext. *)
KeyTakesEffectOnce ==
  \A m, n \in 1..Len(delivered) :
    m < n /\ HasForm(delivered[m], "plain") => ~ HasForm(delivered[n], "cipher")

(* The position in sent of a delivered frame, 0 if it is none of them: the *)
(* frame it has the number, flag and packets of, rebuilt ones included.    *)
PositionOf(d) ==
  LET matches == {f \in 1..Len(sent) :
                    /\ WholeFrame(d, f)
                    /\ \A i \in 0..(sent[f].count - 1) : SlotOK(d.packets[i], f, i)}
  IN IF matches = {} THEN 0 ELSE CHOOSE f \in matches : TRUE

(* What the decoder has been given, as positions in sent. *)
Received == [n \in 1..Len(delivered) |-> PositionOf(delivered[n])]

(* Refinement: without reordering and duplication the path implements an   *)
(* in-order stream of whole frames; a frame repaired by the packet that    *)
(* displaces it still comes before that packet's own frame.                *)
Stream == INSTANCE FrameStream WITH
  Frame    <- [count : PacketCounts, idr : BOOLEAN],
  InOrder  <- TRUE,
  sent     <- sent,
  received <- Received

InOrderStream == Stream!Spec
=============================================================================
