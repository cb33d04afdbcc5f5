------------------------ MODULE VideoTransportProofs ------------------------
(***************************************************************************)
(* Theorems about the video path, for every number of frames, packet       *)
(* count, FEC ratio and network: that its variables keep their types, and  *)
(* that what it delivers is whole.                                         *)
(***************************************************************************)
EXTENDS VideoTransport, FiniteSetTheorems, TLAPS

DeliveredRecord == UNION {DeliveredFrame(n) : n \in Byte}

TypeInv == TypeOK /\ delivered \in Seq(DeliveredRecord)

(* The slots of a frame are finitely many. *)
LEMMA SlotsFinite ==
  ASSUME NEW n \in Nat, NEW S \in SUBSET (0..(n - 1))
  PROVE  /\ IsFiniteSet(S)
         /\ Cardinality(S) \in Nat
         /\ Cardinality(S) = n => S = 0..(n - 1)
         /\ Cardinality(0..(n - 1)) = n
<1>1. IsFiniteSet(0..(n - 1)) /\ Cardinality(0..(n - 1)) = n
  BY FS_Interval
<1>2. QED
  BY <1>1, FS_Subset, FS_CardinalityType

(* The empty PendingFrame is well formed. *)
LEMMA NoFrameWellFormed == WellFormed(NoFrame)
BY WidthsAssumption, FS_EmptySet
DEF WellFormed, NoFrame, NoPayload, PendingFrame, Byte, FrameNumber, Payload, Forms

(* Starting to track a frame gives a well formed, empty frame. *)
LEMMA StartWellFormed ==
  ASSUME NEW p \in DataPacket
  PROVE  WellFormed(StartFrame(p))
BY FS_EmptySet
DEF WellFormed, StartFrame, NoPayload, PendingFrame, DataPacket, Payload, Forms, Byte

(* Decrypting or not, a payload stays a payload. *)
LEMMA OpenedType ==
  ASSUME NEW p \in DataPacket
  PROVE  Opened(p) \in Payload
BY DEF Opened, DataPacket, Payload, Forms

(* Storing a packet keeps a frame well formed: a slot is counted once. *)
LEMMA StoreWellFormed ==
  ASSUME NEW fr, WellFormed(fr), NEW p \in DataPacket
  PROVE  WellFormed(Store(fr, p))
<1> DEFINE n == fr.totalPackets
           idx == p.packetIndex
<1>1. n \in Nat /\ idx \in Nat /\ n \in Byte
  BY WidthsAssumption DEF WellFormed, Byte, DataPacket
<1>2. CASE idx < n /\ idx \notin fr.received
  <2>1. /\ IsFiniteSet(fr.received)
        /\ fr.received \subseteq 0..(n - 1)
        /\ fr.receivedCount = Cardinality(fr.received)
        /\ fr.receivedCount \in Nat
    BY <1>1, SlotsFinite DEF WellFormed, PendingFrame
  <2>2. Cardinality(fr.received \cup {idx}) = fr.receivedCount + 1
    BY <1>2, <2>1, FS_AddElement
  <2>3. idx \in 0..(n - 1)
    BY <1>1, <1>2
  <2>4. Opened(p) \in Payload
    BY OpenedType
  <2> DEFINE st == [fr EXCEPT !.packets = [@ EXCEPT ![idx] = Opened(p)],
                              !.received = @ \cup {idx},
                              !.receivedCount = @ + 1]
  <2>5. Store(fr, p) = st
    BY <1>2 DEF Store
  <2>6. st \in PendingFrame(n)
    <3> HIDE DEF n, idx
    <3>1. fr \in PendingFrame(n)
      BY DEF WellFormed, n
    <3>2. [fr.packets EXCEPT ![idx] = Opened(p)] \in [0..(n - 1) -> Payload]
      BY <2>3, <2>4, <3>1 DEF PendingFrame
    <3>3. fr.received \cup {idx} \in SUBSET (0..(n - 1))
      BY <2>3, <3>1 DEF PendingFrame
    <3> DEFINE pk == [fr.packets EXCEPT ![idx] = Opened(p)]
               rc == fr.received \cup {idx}
               ct == fr.receivedCount + 1
    <3>4. ct \in Nat
      BY <2>1
    <3>5. st = [fr EXCEPT !.packets = pk, !.received = rc, !.receivedCount = ct]
      OBVIOUS
    <3> HIDE DEF pk, rc, ct, st
    <3>6. QED
      BY <3>1, <3>2, <3>3, <3>4, <3>5 DEF PendingFrame, pk, rc
  <2>7. st.totalPackets = n /\ st.received = fr.received \cup {idx}
        /\ st.receivedCount = fr.receivedCount + 1
    BY DEF WellFormed, PendingFrame
  <2>8. QED
    BY <1>1, <2>2, <2>5, <2>6, <2>7 DEF WellFormed
<1>3. CASE ~ (idx < n /\ idx \notin fr.received)
  BY <1>3 DEF Store
<1>4. QED
  BY <1>2, <1>3

(* A repaired frame is well formed and all its slots are filled. *)
LEMMA RecoveredWellFormed ==
  ASSUME NEW fr, WellFormed(fr), IsPartial(fr), NEW fs
  PROVE  /\ WellFormed(Recovered(fr, fs))
         /\ IsComplete(Recovered(fr, fs))
<1> DEFINE n == fr.totalPackets
           all == 0..(n - 1)
           re == Recovered(fr, fs)
<1>1. n \in Nat /\ n \in Byte
  BY WidthsAssumption DEF WellFormed, Byte
<1>2. /\ fr.received \in SUBSET all
      /\ fr.receivedCount = Cardinality(fr.received)
      /\ fr.packets \in [all -> Payload]
  BY DEF WellFormed, PendingFrame
<1>3. /\ IsFiniteSet(fr.received) /\ IsFiniteSet(all)
      /\ Cardinality(all) = n /\ Cardinality(fr.received) \in Nat
  BY <1>1, <1>2, SlotsFinite
<1>4. fr.received # {}
  <2>1. Cardinality(fr.received) # 0
    BY <1>2, <1>3 DEF IsPartial
  <2>2. QED
    BY <2>1, FS_EmptySet
<1>5. \A i \in all : Rebuilt(fr, fs, i) \in Payload
  <2>1. (CHOOSE j \in fr.received : TRUE) \in all
    BY <1>2, <1>4
  <2>2. fr.packets[CHOOSE j \in fr.received : TRUE] \in Payload
    BY <1>2, <2>1
  <2>3. QED
    BY <1>1, <2>2 DEF Rebuilt, Payload, Forms
<1>6. re.received = all /\ re.totalPackets = n
      /\ re.receivedCount = fr.receivedCount + Cardinality(all \ fr.received)
  BY DEF Recovered, Missing, WellFormed, PendingFrame
<1>7. Cardinality(all \ fr.received) = n - Cardinality(fr.received)
  <2>1. all \cap fr.received = fr.received
    BY <1>2
  <2>2. Cardinality(all \ fr.received) = Cardinality(all) - Cardinality(all \cap fr.received)
    BY <1>3, FS_Difference
  <2>3. QED
    BY <1>3, <2>1, <2>2
<1>8. re.receivedCount = n
  BY <1>1, <1>2, <1>3, <1>6, <1>7
<1>9. re \in PendingFrame(n)
  <2>1. re.packets \in [all -> Payload]
    BY <1>2, <1>5 DEF Recovered, WellFormed, PendingFrame
  <2>2. QED
    BY <1>1, <1>6, <1>8, <2>1 DEF Recovered, WellFormed, PendingFrame
<1>10. QED
  BY <1>1, <1>3, <1>6, <1>8, <1>9 DEF WellFormed, IsComplete

(* What is handed over is a frame record. *)
LEMMA DeliverType ==
  ASSUME NEW fr, WellFormed(fr), NEW out \in Seq(DeliveredRecord)
  PROVE  /\ Deliver(out, fr) \in Seq(DeliveredRecord)
         /\ WellFormed(Retained(fr))
<1>1. Assembled(fr) \in DeliveredFrame(fr.totalPackets)
  BY DEF WellFormed, PendingFrame, Assembled, DeliveredFrame
<1>2. Assembled(fr) \in DeliveredRecord
  BY <1>1 DEF DeliveredRecord, WellFormed
<1>3. QED
  BY <1>2, NoFrameWellFormed DEF Deliver, Retained

(* A sequence of frame records is typed element by element. *)
LEMMA RecordsTyped ==
  ASSUME NEW out \in Seq(DeliveredRecord)
  PROVE  \A n \in 1..Len(out) : \E k \in Byte : out[n] \in DeliveredFrame(k)
<1>1. \A n \in 1..Len(out) : out[n] \in DeliveredRecord
  OBVIOUS
<1>2. QED
  BY <1>1 DEF DeliveredRecord

(* The packets of a frame carry header fields of their width. *)
LEMMA FramePacketsType ==
  ASSUME NEW f \in Nat, NEW k \in PacketCounts, NEW idr \in BOOLEAN, SenderTypeOK
  PROVE  /\ FramePackets(f, k, idr) \subseteq Packet
         /\ ParityCount(k) \in Nat
<1>1. k \in Nat \ {0} /\ FecPercent \in Nat /\ ByteMod \in Nat \ {0}
  BY SenderAssumption, WidthsAssumption
<1>2. ParityCount(k) \in Nat
  BY <1>1 DEF ParityCount
<1>3. SentForm \in Forms
  BY DEF SentForm, Forms
<1>4. DataPackets(f, k, idr) \subseteq DataPacket
  <2> SUFFICES ASSUME NEW i \in 0..(k - 1)
               PROVE  /\ f % FrameMod \in FrameNumber
                      /\ i % ByteMod \in Byte
                      /\ k % ByteMod \in Byte
                      /\ sequence + i \in Nat
                      /\ i \in Nat
    BY <1>3 DEF DataPackets, DataPacket, Payload
  <2>1. QED
    BY <1>1, WidthsAssumption DEF FrameNumber, Byte, SenderTypeOK
<1>5. FecPackets(f, k) \subseteq FecPacket
  <2> SUFFICES ASSUME NEW q \in 0..(ParityCount(k) - 1)
               PROVE  /\ k % ByteMod \in Byte
                      /\ ParityCount(k) % ByteMod \in Byte
                      /\ sequence + k + q \in Nat
                      /\ q \in Nat
    BY <1>3 DEF FecPackets, FecPacket, Payload, SenderTypeOK
  <2>1. QED
    BY <1>1, <1>2, WidthsAssumption DEF Byte, SenderTypeOK
<1>6. QED
  BY <1>2, <1>4, <1>5 DEF FramePackets, Packet

(* The receiver's part of the type invariant. *)
ReceiverInv == ReceiverTypeOK /\ delivered \in Seq(DeliveredRecord)

(* Every way of receiving a packet keeps the receiver's types. *)
LEMMA ReceiveType ==
  ASSUME ReceiverInv, NEW p \in Packet, Receive(p)
  PROVE  ReceiverInv'
<1> USE DEF ReceiverInv, ReceiverTypeOK
<1>1. CASE ReceiveUndecryptable(p)
  BY <1>1 DEF ReceiveUndecryptable, receiverVars, WellFormed
<1>2. CASE ReceiveForCurrent(p)
  <2>1. p \in DataPacket
    BY <1>2 DEF ReceiveForCurrent, Packet, FecPacket
  <2>2. WellFormed(Store(current, p))
    BY <2>1, StoreWellFormed
  <2>3. /\ Deliver(delivered, Store(current, p)) \in Seq(DeliveredRecord)
        /\ WellFormed(Retained(Store(current, p)))
    BY <2>2, DeliverType
  <2>4. QED
    BY <1>2, <2>3, RecordsTyped DEF ReceiveForCurrent
<1>3. ASSUME p \in DataPacket
      PROVE  WellFormed(Store(StartFrame(p), p))
  BY <1>3, StartWellFormed, StoreWellFormed
<1>4. CASE ReceiveForNext(p)
  <2>1. p \in DataPacket
    BY <1>4 DEF ReceiveForNext, Packet, FecPacket
  <2>2. /\ Deliver(delivered, Store(StartFrame(p), p)) \in Seq(DeliveredRecord)
        /\ WellFormed(Retained(Store(StartFrame(p), p)))
    BY <2>1, <1>3, DeliverType
  <2>3. QED
    BY <1>4, <2>2, RecordsTyped DEF ReceiveForNext
<1>5. CASE ReceiveAndRecover(p)
  <2>1. p \in DataPacket /\ IsPartial(current)
    BY <1>5 DEF ReceiveAndRecover, Packet, FecPacket
  <2> DEFINE g == FirstUsable(current)
             repaired == Recovered(current, fecStates[g])
             started == Store(StartFrame(p), p)
  <2>2. WellFormed(repaired) /\ WellFormed(started)
    BY <2>1, <1>3, RecoveredWellFormed
  <2>3. Deliver(delivered, repaired) \in Seq(DeliveredRecord)
    BY <2>2, DeliverType
  <2>4. Deliver(Deliver(delivered, repaired), started) \in Seq(DeliveredRecord)
        /\ WellFormed(Retained(started))
    BY <2>2, <2>3, DeliverType
  <2>5. fecStates' \in [0..(RingSize - 1) -> FecState]
    <3>1. fecStates' = [fecStates EXCEPT ![g] = [@ EXCEPT !.isRs = FALSE, !.dataShards = 0]]
      BY <1>5 DEF ReceiveAndRecover
    <3>2. 0 \in Byte
      BY WidthsAssumption DEF Byte
    <3> HIDE DEF g
    <3>3. ASSUME g \in 0..(RingSize - 1)
          PROVE  [fecStates[g] EXCEPT !.isRs = FALSE, !.dataShards = 0] \in FecState
      BY <3>2, <3>3 DEF FecState
    <3>4. QED
      BY <3>1, <3>3
  <2>6. QED
    BY <1>5, <2>4, <2>5, RecordsTyped DEF ReceiveAndRecover
<1>6. CASE ReceiveFec(p)
  <2>1. p \in FecPacket
    BY <1>6 DEF ReceiveFec, Packet, DataPacket
  <2> DEFINE g == p.fecGroupId % RingSize
             fs == fecStates[g]
             parity == IF p.payload.part < p.parityShards
                       THEN {q \in fs.parity : q.part # p.payload.part} \cup {p.payload}
                       ELSE fs.parity
             next == [isRs |-> TRUE, dataShards |-> p.dataShards,
                      parityShards |-> p.parityShards, parity |-> parity]
  <2>2. g \in 0..(RingSize - 1)
    BY <2>1, WidthsAssumption DEF FecPacket
  <2>3. fs \in FecState
    BY <2>2
  <2>4. parity \in SUBSET Payload
    BY <2>1, <2>3 DEF FecState, FecPacket
  <2>5. next \in FecState
    BY <2>1, <2>4 DEF FecState, FecPacket
  <2>6. fecStates' = [fecStates EXCEPT ![g] = next]
    BY <1>6 DEF ReceiveFec
  <2>7. fecStates' \in [0..(RingSize - 1) -> FecState]
    BY <2>2, <2>5, <2>6
  <2>8. QED
    BY <1>6, <2>7 DEF ReceiveFec, WellFormed
<1>7. QED
  BY <1>1, <1>2, <1>4, <1>5, <1>6 DEF Receive

(* The type invariant is inductive. *)
LEMMA TypeInvariant == Spec => []TypeInv
<1>1. Init => TypeInv
  <2> SUFFICES ASSUME Init PROVE TypeInv
    OBVIOUS
  <2>1. SenderTypeOK
    BY WidthsAssumption DEF Init, SenderInit, SenderTypeOK
  <2>2. NoFec \in FecState
    BY WidthsAssumption DEF NoFec, FecState, Byte
  <2>3. ReceiverTypeOK /\ delivered \in Seq(DeliveredRecord)
    BY <2>2, NoFrameWellFormed DEF Init, ReceiverInit, ReceiverTypeOK
  <2>4. QED
    BY <2>1, <2>3 DEF Init, TypeInv, TypeOK, NetTypeOK
<1>2. TypeInv /\ [Next]_vars => TypeInv'
  <2> SUFFICES ASSUME TypeInv, [Next]_vars PROVE TypeInv'
    OBVIOUS
  <2> USE DEF TypeInv, TypeOK
  <2>1. ASSUME NEW k \in PacketCounts, NEW idr \in BOOLEAN, HostSends(k, idr)
        PROVE  TypeInv'
    <3>1. /\ FramePackets(Len(sent) + 1, k, idr) \subseteq Packet
          /\ ParityCount(k) \in Nat
      <4>1. SenderTypeOK /\ Len(sent) + 1 \in Nat
        BY DEF SenderTypeOK
      <4>2. QED
        BY <4>1, FramePacketsType
    <3>2. k \in Nat
      BY SenderAssumption
    <3>3. SenderTypeOK'
      BY <2>1, <3>1, <3>2, WidthsAssumption DEF HostSends, SendFrame, SenderTypeOK
    <3>4. NetTypeOK'
      BY <2>1, <3>1 DEF HostSends, NetTypeOK
    <3>5. QED
      BY <2>1, <3>3, <3>4 DEF HostSends, receiverVars, ReceiverTypeOK, WellFormed
  <2>2. ASSUME NEW p \in net, Receive(p), UNCHANGED senderVars, NetTypeOK'
        PROVE  TypeInv'
    <3>1. p \in Packet
      BY DEF NetTypeOK
    <3>2. ReceiverInv'
      BY <2>2, <3>1, ReceiveType DEF ReceiverInv
    <3>3. QED
      BY <2>2, <3>2 DEF ReceiverInv, senderVars, SenderTypeOK
  <2>3. ASSUME NEW p \in net, Arrive(p)
        PROVE  TypeInv'
    <3>1. NetTypeOK'
      BY <2>3 DEF Arrive, NetTypeOK
    <3>2. QED
      BY <2>2, <2>3, <3>1 DEF Arrive
  <2>4. ASSUME NEW p \in net, ArriveAndRepeat(p)
        PROVE  TypeInv'
    <3>1. NetTypeOK'
      BY <2>4 DEF ArriveAndRepeat, NetTypeOK
    <3>2. QED
      BY <2>2, <2>4, <3>1 DEF ArriveAndRepeat
  <2>5. ASSUME NEW p \in net, Lose(p)
        PROVE  TypeInv'
    BY <2>5 DEF Lose, NetTypeOK, senderVars, receiverVars, SenderTypeOK, ReceiverTypeOK, WellFormed
  <2>6. CASE InstallKey
    BY <2>6 DEF InstallKey, AllocateCrypto, InitCrypto, InitCryptoFails, netVars, senderVars,
                NetTypeOK, SenderTypeOK, ReceiverTypeOK, WellFormed
  <2>7. CASE UNCHANGED vars
    BY <2>7 DEF vars, netVars, senderVars, receiverVars,
                NetTypeOK, SenderTypeOK, ReceiverTypeOK, WellFormed
  <2>8. QED
    BY <2>1, <2>3, <2>4, <2>5, <2>6, <2>7, SenderAssumption DEF Next
<1>3. QED
  BY <1>1, <1>2, PTL DEF Spec

(* Types hold in every reachable state, whatever the constants: the        *)
(* counter of the frame being reassembled counts exactly its filled slots, *)
(* and header fields stay within their width.                              *)
THEOREM TypeCorrect == Spec => []TypeOK
<1>1. TypeInv => TypeOK
  BY DEF TypeInv
<1>2. QED
  BY <1>1, TypeInvariant, PTL

------------------------------------------------------------------------------
(* p is a data packet of frame f, untouched. *)
DataOf(p, f) ==
  /\ p.frameNumber = f % FrameMod
  /\ p.totalPackets = sent[f].count
  /\ p.isIdr = sent[f].idr
  /\ IsPart(p.payload, f, p.packetIndex)

(* fr is frame f with every filled slot in order, or rebuilt. *)
SlotsOf(fr, f) ==
  /\ fr.frameNumber = f % FrameMod
  /\ fr.totalPackets = sent[f].count
  /\ fr.isIdr = sent[f].idr
  /\ \A i \in fr.received : SlotOK(fr.packets[i], f, i)

(* ... and nothing in it was rebuilt. *)
PartsOf(fr, f) ==
  /\ SlotsOf(fr, f)
  /\ \A i \in fr.received : IsPart(fr.packets[i], f, i)

WholeRecord(d) ==
  \E f \in 1..Len(sent) :
    /\ WholeFrame(d, f)
    /\ \A i \in 0..(sent[f].count - 1) : SlotOK(d.packets[i], f, i)

NetGenuine == \A p \in net : p.type = "data" => \E f \in 1..Len(sent) : DataOf(p, f)

(* The inductive invariant: a delivered frame is whole because the pending *)
(* frame's filled slots are parts of one frame, and they are because only  *)
(* untouched packets of frames with distinct numbers are in flight.        *)
TransportInv ==
  /\ TypeInv
  /\ Len(sent) <= MaxFrames
  /\ NetGenuine
  /\ ReassemblyConsistent
  /\ DeliveredWhole

(* Opening a packet does not change which part it carries. *)
LEMMA OpenedPart ==
  ASSUME NEW p \in DataPacket, NEW f, NEW i, IsPart(p.payload, f, i)
  PROVE  IsPart(Opened(p), f, i)
BY DEF Opened, IsPart, DataPacket, Payload

(* A frame started by a packet is that packet's frame. *)
LEMMA StartParts ==
  ASSUME NEW f, NEW p \in DataPacket, DataOf(p, f)
  PROVE  PartsOf(StartFrame(p), f)
BY DEF StartFrame, PartsOf, SlotsOf, DataOf

(* Storing a packet of the same frame keeps the parts in order. *)
LEMMA StoreParts ==
  ASSUME NEW fr, WellFormed(fr), NEW f, PartsOf(fr, f),
         NEW p \in DataPacket, DataOf(p, f)
  PROVE  PartsOf(Store(fr, p), f)
<1> DEFINE n == fr.totalPackets
           idx == p.packetIndex
<1>1. CASE idx < n /\ idx \notin fr.received
  <2>1. n \in Nat /\ idx \in Nat
    BY WidthsAssumption DEF WellFormed, Byte, DataPacket
  <2>2. idx \in 0..(n - 1) /\ fr.packets \in [0..(n - 1) -> Payload]
        /\ fr.received \subseteq 0..(n - 1)
    BY <1>1, <2>1 DEF WellFormed, PendingFrame
  <2>3. IsPart(Opened(p), f, idx)
    BY OpenedPart DEF DataOf
  <2>4. /\ Store(fr, p).packets = [fr.packets EXCEPT ![idx] = Opened(p)]
        /\ Store(fr, p).received = fr.received \cup {idx}
        /\ Store(fr, p).frameNumber = fr.frameNumber
        /\ Store(fr, p).totalPackets = fr.totalPackets
        /\ Store(fr, p).isIdr = fr.isIdr
    BY <1>1 DEF Store, WellFormed, PendingFrame
  <2>5. \A i \in Store(fr, p).received : IsPart(Store(fr, p).packets[i], f, i)
    <3> SUFFICES ASSUME NEW i \in fr.received \cup {idx}
                 PROVE  IsPart([fr.packets EXCEPT ![idx] = Opened(p)][i], f, i)
      BY <2>4
    <3>1. CASE i = idx
      BY <2>2, <2>3, <3>1
    <3>2. CASE i # idx
      BY <2>2, <3>2 DEF PartsOf
    <3>3. QED
      BY <3>1, <3>2
  <2>6. QED
    BY <2>4, <2>5 DEF PartsOf, SlotsOf, SlotOK
<1>2. CASE ~ (idx < n /\ idx \notin fr.received)
  BY <1>2 DEF Store
<1>3. QED
  BY <1>1, <1>2

(* A rebuilt slot is the missing part of the same frame, or corrupt. *)
LEMMA RecoveredSlots ==
  ASSUME NEW fr, WellFormed(fr), IsPartial(fr), NEW f, PartsOf(fr, f), NEW fs
  PROVE  SlotsOf(Recovered(fr, fs), f)
<1> DEFINE n == fr.totalPackets
           all == 0..(n - 1)
           re == Recovered(fr, fs)
<1>1. n \in Nat /\ fr.received \in SUBSET all
  BY WidthsAssumption DEF WellFormed, PendingFrame, Byte
<1>2. fr.received # {}
  <2>1. Cardinality(fr.received) # 0
    BY <1>1, SlotsFinite DEF IsPartial, WellFormed
  <2>2. QED
    BY <2>1, FS_EmptySet
<1>3. \A i \in all : SlotOK(Rebuilt(fr, fs, i), f, i)
  <2>1. IsPart(fr.packets[CHOOSE j \in fr.received : TRUE], f, CHOOSE j \in fr.received : TRUE)
    BY <1>2 DEF PartsOf
  <2>2. QED
    BY <2>1 DEF Rebuilt, SlotOK, IsPart
<1>4. /\ re.packets = [i \in all |-> IF i \in fr.received THEN fr.packets[i] ELSE Rebuilt(fr, fs, i)]
      /\ re.received = all
      /\ re.frameNumber = fr.frameNumber
      /\ re.totalPackets = fr.totalPackets
      /\ re.isIdr = fr.isIdr
  BY DEF Recovered, WellFormed, PendingFrame
<1>5. \A i \in re.received : SlotOK(re.packets[i], f, i)
  BY <1>3, <1>4 DEF PartsOf, SlotsOf
<1>6. QED
  BY <1>4, <1>5 DEF PartsOf, SlotsOf

(* Completion means that every slot is filled, so what is handed over is   *)
(* the whole frame.                                                        *)
LEMMA DeliverWhole ==
  ASSUME NEW fr, WellFormed(fr), NEW f \in 1..Len(sent), SlotsOf(fr, f),
         NEW out \in Seq(DeliveredRecord), \A n \in 1..Len(out) : WholeRecord(out[n])
  PROVE  \A n \in 1..Len(Deliver(out, fr)) : WholeRecord(Deliver(out, fr)[n])
<1>1. CASE IsComplete(fr)
  <2> DEFINE k == fr.totalPackets
             d == Assembled(fr)
  <2>1. k \in Nat /\ fr.received \in SUBSET (0..(k - 1))
        /\ DOMAIN fr.packets = 0..(k - 1)
    BY WidthsAssumption DEF WellFormed, PendingFrame, Byte
  <2>2. Cardinality(fr.received) = k
    BY <1>1 DEF IsComplete, WellFormed
  <2>3. fr.received = 0..(k - 1)
    BY <2>1, <2>2, SlotsFinite
  <2>4. d.packets = fr.packets /\ d.frameNumber = fr.frameNumber /\ d.isIdr = fr.isIdr
    BY DEF Assembled
  <2>5. WholeRecord(d)
    BY <2>1, <2>3, <2>4 DEF WholeRecord, WholeFrame, SlotsOf
  <2> HIDE DEF d
  <2>6. Deliver(out, fr) = Append(out, d)
    BY <1>1 DEF Deliver, d
  <2>7. QED
    BY <2>5, <2>6
<1>2. CASE ~ IsComplete(fr)
  BY <1>2 DEF Deliver
<1>3. QED
  BY <1>1, <1>2

(* ReassemblyConsistent, of any frame. *)
ConsistentFrame(fr) ==
  fr.totalPackets # 0 =>
    \E f \in 1..Len(sent) :
      /\ PartsOf(fr, f)
      /\ fr.receivedCount = Cardinality(fr.received)
      /\ fr.receivedCount < fr.totalPackets

(* What stays pending after a packet is stored is incomplete. *)
LEMMA RetainedConsistent ==
  ASSUME NEW fr, WellFormed(fr), NEW f \in 1..Len(sent), PartsOf(fr, f)
  PROVE  ConsistentFrame(Retained(fr))
<1>1. CASE IsComplete(fr)
  BY <1>1 DEF Retained, NoFrame, ConsistentFrame
<1>2. CASE ~ IsComplete(fr)
  <2> DEFINE k == fr.totalPackets
  <2>1. k \in Nat /\ fr.received \in SUBSET (0..(k - 1))
        /\ fr.receivedCount = Cardinality(fr.received)
    BY WidthsAssumption DEF WellFormed, PendingFrame, Byte
  <2>2. fr.receivedCount \in Nat /\ fr.receivedCount <= k
    <3>1. IsFiniteSet(0..(k - 1)) /\ Cardinality(0..(k - 1)) = k
      BY <2>1, SlotsFinite
    <3>2. Cardinality(fr.received) <= k /\ Cardinality(fr.received) \in Nat
      BY <2>1, <3>1, FS_Subset, SlotsFinite
    <3>3. QED
      BY <2>1, <3>2
  <2>3. fr.receivedCount < k
    BY <1>2, <2>1, <2>2 DEF IsComplete
  <2>4. QED
    BY <1>2, <2>1, <2>3 DEF Retained, ConsistentFrame
<1>3. QED
  BY <1>1, <1>2

(* Frames in flight have distinct numbers as long as the counter has not   *)
(* wrapped.                                                                *)
LEMMA NumbersDistinct ==
  ASSUME NoWrap, NEW f \in 1..MaxFrames, NEW g \in 1..MaxFrames,
         f % FrameMod = g % FrameMod
  PROVE  f = g
<1>1. f \in 1..FrameMod /\ g \in 1..FrameMod /\ FrameMod \in Nat \ {0}
  BY WidthsAssumption, SenderAssumption DEF NoWrap
<1>2. \A h \in 1..FrameMod : h % FrameMod = IF h = FrameMod THEN 0 ELSE h
  BY <1>1
<1>3. QED
  BY <1>1, <1>2

(* One received packet preserves the invariant: of all the ways to receive *)
(* one, only those below touch the pending frame or deliver something.     *)
LEMMA ReceiveWhole ==
  ASSUME NoWrap, TransportInv, NEW p \in net, Receive(p), UNCHANGED sent
  PROVE  ReassemblyConsistent' /\ DeliveredWhole'
<1> DEFINE stored == Store(current, p)
           started == Store(StartFrame(p), p)
<1>1. /\ WellFormed(current)
      /\ delivered \in Seq(DeliveredRecord)
      /\ \A n \in 1..Len(delivered) : WholeRecord(delivered[n])
      /\ ConsistentFrame(current)
      /\ p \in Packet
  BY DEF TransportInv, TypeInv, TypeOK, ReceiverTypeOK, NetTypeOK, DeliveredWhole, WholeRecord,
         ReassemblyConsistent, ConsistentFrame, PartsOf, SlotsOf, SlotOK
<1>2. ASSUME ConsistentFrame(current'),
             \A n \in 1..Len(delivered') : WholeRecord(delivered'[n])
      PROVE  ReassemblyConsistent' /\ DeliveredWhole'
  BY <1>2 DEF DeliveredWhole, WholeRecord, ReassemblyConsistent, ConsistentFrame, PartsOf,
              SlotsOf, WholeFrame
<1>3. ASSUME p.type = "data"
      PROVE  /\ p \in DataPacket
             /\ \E f \in 1..Len(sent) : DataOf(p, f)
  BY <1>1, <1>3 DEF TransportInv, NetGenuine, Packet, FecPacket
<1>4. ASSUME p.type = "data"
      PROVE  /\ ConsistentFrame(Retained(started))
             /\ WellFormed(started)
             /\ \E f \in 1..Len(sent) : SlotsOf(started, f)
  <2>1. PICK f \in 1..Len(sent) : DataOf(p, f)
    BY <1>3, <1>4
  <2>2. WellFormed(started) /\ PartsOf(started, f)
    BY <1>3, <1>4, <2>1, StartWellFormed, StartParts, StoreWellFormed, StoreParts
  <2> HIDE DEF started
  <2>3. QED
    BY <2>2, RetainedConsistent DEF PartsOf
<1>5. CASE ReceiveUndecryptable(p) \/ ReceiveFec(p)
  <2>1. UNCHANGED <<current, delivered>>
    BY <1>5 DEF ReceiveUndecryptable, ReceiveFec, receiverVars
  <2>2. QED
    BY <1>1, <1>2, <2>1
<1>6. CASE ReceiveForCurrent(p)
  <2>1. p.type = "data" /\ IsOfCurrent(p)
    BY <1>6 DEF ReceiveForCurrent
  <2>2. PICK f \in 1..Len(sent) : DataOf(p, f)
    BY <1>3, <2>1
  <2>3. PICK g \in 1..Len(sent) : PartsOf(current, g)
    BY <1>1, <2>1 DEF IsOfCurrent, ConsistentFrame
  <2>4. f = g
    <3>1. f % FrameMod = g % FrameMod
      BY <2>1, <2>2, <2>3 DEF IsOfCurrent, DataOf, PartsOf, SlotsOf
    <3>2. f \in 1..MaxFrames /\ g \in 1..MaxFrames
      <4>1. Len(sent) \in Nat /\ Len(sent) <= MaxFrames /\ MaxFrames \in Nat
        BY SenderAssumption DEF TransportInv, TypeInv, TypeOK, SenderTypeOK
      <4>2. QED
        BY <4>1
    <3>3. QED
      BY <3>1, <3>2, NumbersDistinct
  <2>5. WellFormed(stored) /\ PartsOf(stored, f)
    BY <1>1, <1>3, <2>1, <2>2, <2>3, <2>4, StoreWellFormed, StoreParts
  <2>6. current' = Retained(stored) /\ delivered' = Deliver(delivered, stored)
    BY <1>6 DEF ReceiveForCurrent
  <2> HIDE DEF stored
  <2>7. ConsistentFrame(Retained(stored))
    BY <2>5, RetainedConsistent
  <2>8. \A n \in 1..Len(Deliver(delivered, stored)) : WholeRecord(Deliver(delivered, stored)[n])
    BY <1>1, <2>5, DeliverWhole DEF PartsOf
  <2>9. QED
    BY <1>2, <2>6, <2>7, <2>8
<1>7. CASE ReceiveForNext(p)
  <2>1. p.type = "data" /\ current' = Retained(started) /\ delivered' = Deliver(delivered, started)
    BY <1>7 DEF ReceiveForNext
  <2> HIDE DEF started
  <2>2. \A n \in 1..Len(Deliver(delivered, started)) : WholeRecord(Deliver(delivered, started)[n])
    BY <1>1, <1>4, <2>1, DeliverWhole
  <2>3. QED
    BY <1>2, <1>4, <2>1, <2>2
<1>8. CASE ReceiveAndRecover(p)
  <2> DEFINE repaired == Recovered(current, fecStates[FirstUsable(current)])
             first == Deliver(delivered, repaired)
  <2>1. /\ p.type = "data"
        /\ IsPartial(current)
        /\ current' = Retained(started)
        /\ delivered' = Deliver(first, started)
    BY <1>8 DEF ReceiveAndRecover
  <2>2. current.totalPackets # 0
    BY <1>1, <2>1, WidthsAssumption DEF IsPartial, WellFormed, PendingFrame, Byte
  <2>3. PICK f \in 1..Len(sent) : PartsOf(current, f)
    BY <1>1, <2>2 DEF ConsistentFrame
  <2>4. WellFormed(repaired) /\ SlotsOf(repaired, f)
    BY <1>1, <2>1, <2>3, RecoveredWellFormed, RecoveredSlots
  <2> HIDE DEF repaired, started
  <2>5. first \in Seq(DeliveredRecord)
    BY <1>1, <2>4, DeliverType
  <2>6. \A n \in 1..Len(first) : WholeRecord(first[n])
    BY <1>1, <2>4, DeliverWhole
  <2> HIDE DEF first
  <2>7. \A n \in 1..Len(Deliver(first, started)) : WholeRecord(Deliver(first, started)[n])
    BY <1>4, <2>1, <2>5, <2>6, DeliverWhole
  <2>8. QED
    BY <1>2, <1>4, <2>1, <2>7
<1>9. QED
  BY <1>5, <1>6, <1>7, <1>8 DEF Receive

(* Sending a frame puts only its own packets in flight and leaves what is  *)
(* known of the earlier frames as it was.                                  *)
LEMMA SendWhole ==
  ASSUME NoWrap, TransportInv, TypeInv', NEW k \in PacketCounts, NEW idr \in BOOLEAN,
         HostSends(k, idr)
  PROVE  TransportInv'
<1>0. PICK f \in Nat : f = Len(sent) + 1
  BY DEF TransportInv, TypeInv, TypeOK, SenderTypeOK
<1> DEFINE X == [count : PacketCounts, idr : BOOLEAN]
<1>1. /\ sent \in Seq(X)
      /\ sent' = Append(sent, [count |-> k, idr |-> idr])
      /\ Len(sent) \in Nat /\ Len(sent) < MaxFrames /\ MaxFrames \in Nat
      /\ k \in Nat
  BY SenderAssumption DEF HostSends, SendFrame, TransportInv, TypeInv, TypeOK, SenderTypeOK
<1>2. /\ Len(sent') = f
      /\ \A g \in 1..Len(sent) : g \in 1..Len(sent') /\ sent'[g] = sent[g]
      /\ sent'[f] = [count |-> k, idr |-> idr]
  BY <1>0, <1>1
<1>3. UNCHANGED <<current, delivered>>
  BY DEF HostSends, receiverVars
<1>4. NetGenuine'
  <2> SUFFICES ASSUME NEW p \in net', p.type = "data"
               PROVE  \E g \in 1..Len(sent') : DataOf(p, g)'
    BY DEF NetGenuine
  <2>1. CASE p \in net
    <3>1. PICK g \in 1..Len(sent) : DataOf(p, g)
      BY <2>1 DEF TransportInv, NetGenuine
    <3>2. QED
      BY <1>2, <3>1 DEF DataOf
  <2>2. CASE p \in DataPackets(f, k, idr)
    <3>1. PICK i \in 0..(k - 1) :
            p = [type |-> "data", sequence |-> sequence + i, frameNumber |-> f % FrameMod,
                 packetIndex |-> i % ByteMod, totalPackets |-> k % ByteMod, isIdr |-> idr,
                 payload |-> [frame |-> f, part |-> i, form |-> SentForm]]
      BY <2>2 DEF DataPackets
    <3>2. k < ByteMod /\ ByteMod \in Nat
      BY WidthsAssumption DEF NoWrap
    <3>3. i % ByteMod = i /\ k % ByteMod = k
      BY <1>1, <3>2
    <3>4. DataOf(p, f)'
      BY <1>2, <3>1, <3>3 DEF DataOf, IsPart, SentForm
    <3>5. f \in 1..Len(sent')
      BY <1>0, <1>1, <1>2
    <3>6. QED
      BY <3>4, <3>5
  <2>3. p \notin FecPackets(f, k)
    BY DEF FecPackets
  <2>4. QED
    BY <1>0, <2>1, <2>2, <2>3 DEF HostSends, FramePackets
<1>5. ReassemblyConsistent'
  BY <1>2, <1>3 DEF TransportInv, ReassemblyConsistent
<1>6. DeliveredWhole'
  BY <1>2, <1>3 DEF TransportInv, DeliveredWhole, WholeFrame
<1>7. Len(sent') <= MaxFrames
  BY <1>0, <1>1, <1>2
<1>8. QED
  BY <1>4, <1>5, <1>6, <1>7 DEF TransportInv

(* What delivery rests on holds in every reachable state of a session in   *)
(* which no header counter wraps, with any loss, reordering, duplication,  *)
(* FEC ratio and key installation.                                         *)
LEMMA TransportInvariant == ASSUME NoWrap PROVE Spec => []TransportInv
<1>1. Init /\ TypeInv => TransportInv
  BY SenderAssumption DEF Init, SenderInit, ReceiverInit, NoFrame, TransportInv, NetGenuine,
     ReassemblyConsistent, DeliveredWhole
<1>2. TransportInv /\ TypeInv' /\ [Next]_vars => TransportInv'
  <2> SUFFICES ASSUME TransportInv, TypeInv', [Next]_vars
               PROVE  TransportInv'
    OBVIOUS
  <2>1. ASSUME NEW k \in PacketCounts, NEW idr \in BOOLEAN, HostSends(k, idr)
        PROVE  TransportInv'
    BY <2>1, SendWhole
  <2>2. ASSUME NEW p \in net, Receive(p), UNCHANGED senderVars, net' \subseteq net
        PROVE  TransportInv'
    <3>1. UNCHANGED sent
      BY <2>2 DEF senderVars
    <3>2. ReassemblyConsistent' /\ DeliveredWhole'
      BY <2>2, <3>1, ReceiveWhole
    <3>3. NetGenuine'
      BY <2>2, <3>1 DEF TransportInv, NetGenuine, DataOf
    <3>4. QED
      BY <3>1, <3>2, <3>3 DEF TransportInv
  <2>3. ASSUME NEW p \in net, Arrive(p) \/ ArriveAndRepeat(p)
        PROVE  TransportInv'
    BY <2>2, <2>3 DEF Arrive, ArriveAndRepeat
  <2>4. ASSUME UNCHANGED <<sent, current, delivered>>, net' \subseteq net
        PROVE  TransportInv'
    BY <2>4 DEF TransportInv, NetGenuine, DataOf, ReassemblyConsistent, DeliveredWhole, WholeFrame
  <2>5. ASSUME NEW p \in net, Lose(p)
        PROVE  TransportInv'
    BY <2>4, <2>5 DEF Lose, senderVars, receiverVars
  <2>6. CASE InstallKey
    BY <2>4, <2>6 DEF InstallKey, AllocateCrypto, InitCrypto, InitCryptoFails, senderVars, netVars
  <2>7. CASE UNCHANGED vars
    BY <2>4, <2>7 DEF vars, senderVars, receiverVars, netVars
  <2>8. QED
    BY <2>1, <2>3, <2>5, <2>6, <2>7, SenderAssumption DEF Next
<1>3. QED
  BY <1>1, <1>2, TypeInvariant, PTL DEF Spec

(* The frame being reassembled is always one the host sent, its filled     *)
(* slots are that frame's packets, and the completion counter is exact.    *)
THEOREM ReassemblySound == ASSUME NoWrap PROVE Spec => []ReassemblyConsistent
<1>1. TransportInv => ReassemblyConsistent
  BY DEF TransportInv
<1>2. QED
  BY <1>1, TransportInvariant, PTL

(* Whatever the network does, the decoder is only ever given whole frames: *)
(* as many packets as the host cut them into, each the right one or one    *)
(* that FEC rebuilt.                                                       *)
THEOREM OnlyWholeFrames == ASSUME NoWrap PROVE Spec => []DeliveredWhole
<1>1. TransportInv => DeliveredWhole
  BY DEF TransportInv
<1>2. QED
  BY <1>1, TransportInvariant, PTL

------------------------------------------------------------------------------
(* Without FEC no parity is ever in flight or stored, so nothing is ever   *)
(* rebuilt.                                                                *)
NothingRebuilt ==
  /\ \A p \in net : p.type = "data"
  /\ \A g \in 0..(RingSize - 1) : ~ fecStates[g].isRs
  /\ RecoveryGenuine

(* A frame of untouched parts is delivered without a corrupt slot. *)
LEMMA DeliverClean ==
  ASSUME NEW fr, WellFormed(fr), NEW f, PartsOf(fr, f),
         NEW out \in Seq(DeliveredRecord), \A n \in 1..Len(out) : ~ HasCorrupt(out[n])
  PROVE  \A n \in 1..Len(Deliver(out, fr)) : ~ HasCorrupt(Deliver(out, fr)[n])
<1>1. CASE IsComplete(fr)
  <2> DEFINE k == fr.totalPackets
             d == Assembled(fr)
  <2>1. k \in Nat /\ fr.received \in SUBSET (0..(k - 1))
        /\ DOMAIN fr.packets = 0..(k - 1)
        /\ Cardinality(fr.received) = k
    BY <1>1, WidthsAssumption DEF WellFormed, PendingFrame, Byte, IsComplete
  <2>2. fr.received = 0..(k - 1)
    BY <2>1, SlotsFinite
  <2>3. ~ HasCorrupt(d)
    BY <2>1, <2>2 DEF Assembled, HasCorrupt, PartsOf, IsPart
  <2> HIDE DEF d
  <2>4. Deliver(out, fr) = Append(out, d)
    BY <1>1 DEF Deliver, d
  <2>5. QED
    BY <2>3, <2>4
<1>2. CASE ~ IsComplete(fr)
  BY <1>2 DEF Deliver
<1>3. QED
  BY <1>1, <1>2

(* One received packet rebuilds nothing. *)
LEMMA ReceiveClean ==
  ASSUME NoWrap, TransportInv, NothingRebuilt, NEW p \in net, Receive(p)
  PROVE  UNCHANGED fecStates /\ RecoveryGenuine'
<1>1. /\ WellFormed(current)
      /\ delivered \in Seq(DeliveredRecord)
      /\ \A n \in 1..Len(delivered) : ~ HasCorrupt(delivered[n])
      /\ ConsistentFrame(current)
      /\ p \in DataPacket
  BY DEF TransportInv, TypeInv, TypeOK, ReceiverTypeOK, NetTypeOK, ReassemblyConsistent,
         ConsistentFrame, PartsOf, SlotsOf, SlotOK, NothingRebuilt, RecoveryGenuine, Packet, FecPacket
<1>2. PICK f \in 1..Len(sent) : DataOf(p, f)
  BY DEF TransportInv, NetGenuine, NothingRebuilt
<1>3. UsableStates(current) = {}
  BY DEF NothingRebuilt, UsableStates, Usable
<1>4. CASE ReceiveUndecryptable(p)
  BY <1>1, <1>4 DEF ReceiveUndecryptable, receiverVars, RecoveryGenuine
<1>5. CASE ReceiveForCurrent(p)
  <2>1. PICK g \in 1..Len(sent) : PartsOf(current, g)
    BY <1>1, <1>5 DEF ReceiveForCurrent, IsOfCurrent, ConsistentFrame
  <2>2. f = g
    <3>1. f % FrameMod = g % FrameMod
      BY <1>2, <1>5, <2>1 DEF ReceiveForCurrent, IsOfCurrent, DataOf, PartsOf, SlotsOf
    <3>2. Len(sent) \in Nat /\ Len(sent) <= MaxFrames /\ MaxFrames \in Nat
      BY SenderAssumption DEF TransportInv, TypeInv, TypeOK, SenderTypeOK
    <3>3. f \in 1..MaxFrames /\ g \in 1..MaxFrames
      BY <3>2
    <3>4. QED
      BY <3>1, <3>3, NumbersDistinct
  <2> DEFINE stored == Store(current, p)
  <2>3. WellFormed(stored) /\ PartsOf(stored, f)
    BY <1>1, <1>2, <2>1, <2>2, StoreWellFormed, StoreParts
  <2>4. delivered' = Deliver(delivered, stored) /\ UNCHANGED fecStates
    BY <1>5 DEF ReceiveForCurrent
  <2> HIDE DEF stored
  <2>5. QED
    BY <1>1, <2>3, <2>4, DeliverClean DEF RecoveryGenuine
<1>6. CASE ReceiveForNext(p)
  <2> DEFINE started == Store(StartFrame(p), p)
  <2>1. WellFormed(started) /\ PartsOf(started, f)
    BY <1>1, <1>2, StartWellFormed, StartParts, StoreWellFormed, StoreParts
  <2>2. delivered' = Deliver(delivered, started) /\ UNCHANGED fecStates
    BY <1>6 DEF ReceiveForNext
  <2> HIDE DEF started
  <2>3. QED
    BY <1>1, <2>1, <2>2, DeliverClean DEF RecoveryGenuine
<1>7. ~ ReceiveAndRecover(p)
  BY <1>3 DEF ReceiveAndRecover
<1>8. ~ ReceiveFec(p)
  BY DEF ReceiveFec, NothingRebuilt
<1>9. QED
  BY <1>4, <1>5, <1>6, <1>7, <1>8 DEF Receive

(* Nothing is rebuilt in any reachable state. *)
LEMMA NothingRebuiltInvariant ==
  ASSUME NoWrap, FecPercent = 0
  PROVE  Spec => []NothingRebuilt
<1>1. Init => NothingRebuilt
  BY WidthsAssumption DEF Init, ReceiverInit, NoFec, NothingRebuilt, RecoveryGenuine
<1>2. TransportInv /\ NothingRebuilt /\ [Next]_vars => NothingRebuilt'
  <2> SUFFICES ASSUME TransportInv, NothingRebuilt, [Next]_vars
               PROVE  NothingRebuilt'
    OBVIOUS
  <2>1. ASSUME NEW k \in PacketCounts, NEW idr \in BOOLEAN, HostSends(k, idr)
        PROVE  NothingRebuilt'
    <3>1. ParityCount(k) = 0
      <4>1. k \in Nat /\ ByteMod \in Nat
        BY SenderAssumption, WidthsAssumption
      <4>2. (k * FecPercent) \div 100 = 0
        BY <4>1
      <4>3. k < ByteMod
        BY DEF NoWrap
      <4>4. QED
        BY <4>1, <4>2, <4>3 DEF ParityCount
    <3>2. \A p \in net' : p.type = "data"
      BY <2>1, <3>1 DEF HostSends, FramePackets, DataPackets, FecPackets, NothingRebuilt
    <3>3. QED
      BY <2>1, <3>2 DEF HostSends, receiverVars, NothingRebuilt, RecoveryGenuine
  <2>2. ASSUME NEW p \in net, Receive(p), net' \subseteq net
        PROVE  NothingRebuilt'
    BY <2>2, ReceiveClean DEF NothingRebuilt
  <2>3. ASSUME NEW p \in net, Arrive(p) \/ ArriveAndRepeat(p)
        PROVE  NothingRebuilt'
    BY <2>2, <2>3 DEF Arrive, ArriveAndRepeat
  <2>4. ASSUME UNCHANGED <<fecStates, delivered>>, net' \subseteq net
        PROVE  NothingRebuilt'
    BY <2>4 DEF NothingRebuilt, RecoveryGenuine
  <2>5. ASSUME NEW p \in net, Lose(p)
        PROVE  NothingRebuilt'
    BY <2>4, <2>5 DEF Lose, receiverVars
  <2>6. CASE InstallKey
    BY <2>4, <2>6 DEF InstallKey, AllocateCrypto, InitCrypto, InitCryptoFails, netVars
  <2>7. CASE UNCHANGED vars
    BY <2>4, <2>7 DEF vars, receiverVars, netVars
  <2>8. QED
    BY <2>1, <2>3, <2>5, <2>6, <2>7, SenderAssumption DEF Next
<1>3. QED
  BY <1>1, <1>2, TransportInvariant, PTL DEF Spec

(* The next frame handed over starts with the key in place. *)
NextIsKeyed == ~ Encrypted \/ (crypto = "ready" /\ Len(delivered) >= unkeyed)

PlainSlots(fr) == \A i \in fr.received : fr.packets[i].form = "plain"

(* What decryption to the last packet rests on: packets travel in the form *)
(* they were sent in, and a frame begun with the key in place holds only   *)
(* decrypted ones.                                                         *)
GenuineInv ==
  /\ \A p \in net : p.payload.form = SentForm
  /\ ~ Encrypted => crypto = "none"
  /\ NextIsKeyed => PlainSlots(current)
  /\ DeliveredGenuine

(* With the key in place a packet that decrypts is as the encoder made it. *)
LEMMA OpenedPlain ==
  ASSUME GenuineInv, NextIsKeyed, NEW p \in DataPacket, p.payload.form = SentForm, Decryptable(p)
  PROVE  Opened(p).form = "plain"
BY DEF GenuineInv, NextIsKeyed, SentForm, Opened, Decryptable, DataPacket, Payload

(* Storing a decrypted packet leaves a frame of decrypted packets. *)
LEMMA StorePlain ==
  ASSUME NEW fr, WellFormed(fr), PlainSlots(fr), NEW p \in DataPacket, Opened(p).form = "plain"
  PROVE  PlainSlots(Store(fr, p))
<1> DEFINE n == fr.totalPackets
           idx == p.packetIndex
<1>1. CASE idx < n /\ idx \notin fr.received
  <2>1. n \in Nat /\ idx \in Nat
    BY WidthsAssumption DEF WellFormed, Byte, DataPacket
  <2>2. /\ idx \in 0..(n - 1)
        /\ fr.packets \in [0..(n - 1) -> Payload]
        /\ fr.received \subseteq 0..(n - 1)
    BY <1>1, <2>1 DEF WellFormed, PendingFrame
  <2>3. /\ Store(fr, p).packets = [fr.packets EXCEPT ![idx] = Opened(p)]
        /\ Store(fr, p).received = fr.received \cup {idx}
    BY <1>1 DEF Store, WellFormed, PendingFrame
  <2>4. QED
    BY <2>2, <2>3 DEF PlainSlots
<1>2. CASE ~ (idx < n /\ idx \notin fr.received)
  BY <1>2 DEF Store
<1>3. QED
  BY <1>1, <1>2

(* A complete frame of decrypted parts is handed over as it was encoded. *)
LEMMA AssembledEncoded ==
  ASSUME NEW fr, WellFormed(fr), IsComplete(fr), PlainSlots(fr),
         NEW f \in 1..Len(sent), PartsOf(fr, f)
  PROVE  AsEncoded(Assembled(fr))
<1> DEFINE k == fr.totalPackets
           d == Assembled(fr)
<1>1. k \in Nat /\ fr.received \in SUBSET (0..(k - 1)) /\ fr.packets \in [0..(k - 1) -> Payload]
  BY WidthsAssumption DEF WellFormed, PendingFrame, Byte
<1>2. fr.received = 0..(k - 1)
  BY <1>1, SlotsFinite DEF IsComplete, WellFormed
<1>3. d.packets = fr.packets /\ d.frameNumber = fr.frameNumber /\ d.isIdr = fr.isIdr
  BY DEF Assembled
<1>4. ASSUME NEW i \in 0..(k - 1)
      PROVE  fr.packets[i] = [frame |-> f, part |-> i, form |-> "plain"]
  <2>1. fr.packets[i] \in Payload
    BY <1>1
  <2>2. IsPart(fr.packets[i], f, i) /\ fr.packets[i].form = "plain"
    BY <1>2 DEF PartsOf, PlainSlots
  <2>3. QED
    BY <2>1, <2>2 DEF IsPart, Payload
<1>5. k = sent[f].count /\ fr.frameNumber = f % FrameMod /\ fr.isIdr = sent[f].idr
  BY DEF PartsOf, SlotsOf
<1> HIDE DEF d, k
<1>6. WholeFrame(d, f)
  BY <1>1, <1>3, <1>5 DEF WholeFrame
<1>7. QED
  BY <1>3, <1>4, <1>5, <1>6 DEF AsEncoded, d

(* Handing over a frame of decrypted parts, if the next one is to be that, *)
(* keeps the promise about every delivery.                                 *)
LEMMA DeliverEncoded ==
  ASSUME GenuineInv, NEW fr, WellFormed(fr), NextIsKeyed => PlainSlots(fr),
         delivered \in Seq(DeliveredRecord), NEW f \in 1..Len(sent), PartsOf(fr, f),
         delivered' = Deliver(delivered, fr), current' = Retained(fr),
         UNCHANGED <<sent, crypto, unkeyed>>, unkeyed \in Nat
  PROVE  /\ DeliveredGenuine'
         /\ NextIsKeyed' => PlainSlots(current')
<1>2. CASE IsComplete(fr)
  <2> DEFINE d == Assembled(fr)
  <2>1. delivered' = Append(delivered, d) /\ current' = NoFrame
    BY <1>2 DEF Deliver, Retained
  <2>2. NextIsKeyed => AsEncoded(d)
    BY <1>2, AssembledEncoded
  <2> HIDE DEF d
  <2>3. /\ Len(delivered') = Len(delivered) + 1
        /\ delivered'[Len(delivered) + 1] = d
        /\ \A n \in 1..Len(delivered) : delivered'[n] = delivered[n]
        /\ Len(delivered) \in Nat
    BY <2>1
  <2>4. ASSUME NEW n \in 1..Len(delivered'), ~ Encrypted \/ (crypto = "ready" /\ n > unkeyed)
        PROVE  AsEncoded(delivered'[n])
    <3>1. CASE n \in 1..Len(delivered)
      BY <2>3, <2>4, <3>1 DEF GenuineInv, DeliveredGenuine
    <3>2. CASE n = Len(delivered) + 1
      BY <2>2, <2>3, <2>4, <3>2 DEF NextIsKeyed
    <3>3. QED
      BY <2>3, <3>1, <3>2
  <2>5. DeliveredGenuine'
    BY <2>4 DEF DeliveredGenuine, AsEncoded, WholeFrame
  <2>6. QED
    BY <2>1, <2>5 DEF PlainSlots, NoFrame
<1>3. CASE ~ IsComplete(fr)
  <2>1. delivered' = delivered /\ current' = fr
    BY <1>3 DEF Deliver, Retained
  <2>2. QED
    BY <2>1 DEF GenuineInv, DeliveredGenuine, AsEncoded, WholeFrame, NextIsKeyed
<1>4. QED
  BY <1>2, <1>3

(* One received packet keeps the promise. *)
LEMMA ReceiveGenuine ==
  ASSUME NoWrap, TransportInv, NothingRebuilt, GenuineInv, NEW p \in net, Receive(p),
         UNCHANGED <<sent, unkeyed>>
  PROVE  /\ DeliveredGenuine'
         /\ NextIsKeyed' => PlainSlots(current')
         /\ UNCHANGED crypto
<1>1. /\ WellFormed(current)
      /\ delivered \in Seq(DeliveredRecord)
      /\ unkeyed \in Nat
      /\ ConsistentFrame(current)
      /\ p \in DataPacket
      /\ p.payload.form = SentForm
  BY DEF TransportInv, TypeInv, TypeOK, ReceiverTypeOK, NetTypeOK, ReassemblyConsistent,
         ConsistentFrame, PartsOf, SlotsOf, SlotOK, NothingRebuilt, Packet, FecPacket, GenuineInv
<1>2. PICK f \in 1..Len(sent) : DataOf(p, f)
  BY DEF TransportInv, NetGenuine, NothingRebuilt
<1>3. CASE ReceiveUndecryptable(p)
  BY <1>3 DEF ReceiveUndecryptable, receiverVars, GenuineInv, DeliveredGenuine, AsEncoded, WholeFrame,
              NextIsKeyed
<1>4. CASE ReceiveForCurrent(p)
  <2>1. PICK g \in 1..Len(sent) : PartsOf(current, g)
    BY <1>1, <1>4 DEF ReceiveForCurrent, IsOfCurrent, ConsistentFrame
  <2>2. f = g
    <3>1. f % FrameMod = g % FrameMod
      BY <1>2, <1>4, <2>1 DEF ReceiveForCurrent, IsOfCurrent, DataOf, PartsOf, SlotsOf
    <3>2. Len(sent) \in Nat /\ Len(sent) <= MaxFrames /\ MaxFrames \in Nat
      BY SenderAssumption DEF TransportInv, TypeInv, TypeOK, SenderTypeOK
    <3>3. f \in 1..MaxFrames /\ g \in 1..MaxFrames
      BY <3>2
    <3>4. QED
      BY <3>1, <3>3, NumbersDistinct
  <2> DEFINE stored == Store(current, p)
  <2>3. WellFormed(stored) /\ PartsOf(stored, f)
    BY <1>1, <1>2, <2>1, <2>2, StoreWellFormed, StoreParts
  <2>4. NextIsKeyed => PlainSlots(stored)
    BY <1>1, <1>4, OpenedPlain, StorePlain DEF ReceiveForCurrent, GenuineInv
  <2>5. delivered' = Deliver(delivered, stored) /\ current' = Retained(stored) /\ UNCHANGED crypto
    BY <1>4 DEF ReceiveForCurrent
  <2> HIDE DEF stored
  <2>6. QED
    BY <1>1, <2>3, <2>4, <2>5, DeliverEncoded
<1>5. CASE ReceiveForNext(p)
  <2> DEFINE started == Store(StartFrame(p), p)
  <2>1. WellFormed(started) /\ PartsOf(started, f)
    BY <1>1, <1>2, StartWellFormed, StartParts, StoreWellFormed, StoreParts
  <2>2. NextIsKeyed => PlainSlots(started)
    <3>1. WellFormed(StartFrame(p)) /\ PlainSlots(StartFrame(p))
      BY <1>1, StartWellFormed DEF StartFrame, PlainSlots
    <3>2. QED
      BY <1>1, <1>5, <3>1, OpenedPlain, StorePlain DEF ReceiveForNext
  <2>3. delivered' = Deliver(delivered, started) /\ current' = Retained(started) /\ UNCHANGED crypto
    BY <1>5 DEF ReceiveForNext
  <2> HIDE DEF started
  <2>4. QED
    BY <1>1, <2>1, <2>2, <2>3, DeliverEncoded
<1>6. ~ ReceiveAndRecover(p)
  BY DEF ReceiveAndRecover, NothingRebuilt, UsableStates, Usable
<1>7. ~ ReceiveFec(p)
  BY DEF ReceiveFec, NothingRebuilt
<1>8. QED
  BY <1>3, <1>4, <1>5, <1>6, <1>7 DEF Receive

(* The promise about the key is kept in every reachable state. *)
LEMMA GenuineInvariant ==
  ASSUME NoWrap, FecPercent = 0
  PROVE  Spec => []GenuineInv
<1>1. Init => GenuineInv
  BY DEF Init, ReceiverInit, NoFrame, GenuineInv, DeliveredGenuine, PlainSlots
<1>2. TransportInv /\ NothingRebuilt /\ GenuineInv /\ [Next]_vars => GenuineInv'
  <2> SUFFICES ASSUME TransportInv, NothingRebuilt, GenuineInv, [Next]_vars
               PROVE  GenuineInv'
    OBVIOUS
  <2>1. ASSUME NEW k \in PacketCounts, NEW idr \in BOOLEAN, HostSends(k, idr)
        PROVE  GenuineInv'
    <3>1. \A p \in net' : p.payload.form = SentForm
      BY <2>1 DEF HostSends, FramePackets, DataPackets, FecPackets, GenuineInv
    <3>2. UNCHANGED <<current, crypto, delivered, unkeyed>>
      BY <2>1 DEF HostSends, receiverVars
    <3>3. \A g \in 1..Len(sent) : g \in 1..Len(sent') /\ sent'[g] = sent[g]
      <4>1. sent \in Seq([count : PacketCounts, idr : BOOLEAN])
        BY DEF TransportInv, TypeInv, TypeOK, SenderTypeOK
      <4>2. QED
        BY <2>1, <4>1 DEF HostSends, SendFrame
    <3>4. DeliveredGenuine'
      BY <3>2, <3>3 DEF GenuineInv, DeliveredGenuine, AsEncoded, WholeFrame
    <3>5. QED
      BY <3>1, <3>2, <3>4 DEF GenuineInv, NextIsKeyed, PlainSlots
  <2>2. ASSUME NEW p \in net, Receive(p), net' \subseteq net, UNCHANGED <<sent, unkeyed>>
        PROVE  GenuineInv'
    BY <2>2, ReceiveGenuine DEF GenuineInv, PlainSlots
  <2>3. ASSUME NEW p \in net, Arrive(p) \/ ArriveAndRepeat(p)
        PROVE  GenuineInv'
    BY <2>2, <2>3 DEF Arrive, ArriveAndRepeat, senderVars
  <2>4. ASSUME UNCHANGED <<sent, current, crypto, delivered, unkeyed>>, net' \subseteq net
        PROVE  GenuineInv'
    BY <2>4 DEF GenuineInv, NextIsKeyed, PlainSlots, DeliveredGenuine, AsEncoded, WholeFrame
  <2>5. ASSUME NEW p \in net, Lose(p)
        PROVE  GenuineInv'
    BY <2>4, <2>5 DEF Lose, senderVars, receiverVars
  <2>6. CASE InstallKey
    <3>1. /\ UNCHANGED <<sent, net, current, delivered>>
          /\ Encrypted
          /\ unkeyed' = IF current.received = {} THEN Len(delivered) ELSE Len(delivered) + 1
      BY <2>6 DEF InstallKey, AllocateCrypto, InitCrypto, InitCryptoFails, senderVars, netVars, GenuineInv
    <3>2. Len(delivered) \in Nat
      BY DEF TransportInv, TypeInv
    <3>3. DeliveredGenuine'
      BY <3>1, <3>2 DEF DeliveredGenuine
    <3>4. NextIsKeyed' => PlainSlots(current)
      BY <3>1, <3>2 DEF NextIsKeyed, PlainSlots
    <3>5. QED
      BY <3>1, <3>3, <3>4 DEF GenuineInv, PlainSlots
  <2>7. CASE UNCHANGED vars
    BY <2>4, <2>7 DEF vars, senderVars, receiverVars, netVars
  <2>8. QED
    BY <2>1, <2>3, <2>5, <2>6, <2>7, SenderAssumption DEF Next
<1>3. QED
  BY <1>1, <1>2, TransportInvariant, NothingRebuiltInvariant, PTL DEF Spec

(* Without FEC what the decoder is given is exactly what the encoder made, *)
(* under any loss, reordering and duplication: in a session in the clear   *)
(* always, in an encrypted one as soon as the key is in place, when no     *)
(* frame begun after that carries a packet that was not decrypted.         *)
THEOREM GenuineWithoutFec ==
  ASSUME NoWrap, FecPercent = 0
  PROVE  Spec => []DeliveredGenuine
<1>1. GenuineInv => DeliveredGenuine
  BY DEF GenuineInv
<1>2. QED
  BY <1>1, GenuineInvariant, PTL
=============================================================================
