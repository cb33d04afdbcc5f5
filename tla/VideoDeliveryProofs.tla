------------------------- MODULE VideoDeliveryProofs -------------------------
(***************************************************************************)
(* Theorems about what VideoTransport delivers in the course of a session, *)
(* beyond the single frame: when ciphertext can reach the decoder, how     *)
(* often a frame does, when a repair can be wrong, and that without        *)
(* reordering the path is an in-order stream of the frames sent.           *)
(***************************************************************************)
EXTENDS VideoTransportProofs, SequenceTheorems, WellFoundedInduction

(* What Deliver makes of the frames handed over so far.                    *)
LEMMA DeliverIs ==
  ASSUME NEW out, NEW fr, out \in Seq(DeliveredRecord), WellFormed(fr)
  PROVE  /\ Deliver(out, fr) \in Seq(DeliveredRecord)
         /\ ~ IsComplete(fr) => Deliver(out, fr) = out
         /\ IsComplete(fr) =>
              /\ Deliver(out, fr) = Append(out, Assembled(fr))
              /\ Len(Deliver(out, fr)) = Len(out) + 1
              /\ Deliver(out, fr)[Len(out) + 1] = Assembled(fr)
              /\ \A n \in 1..Len(out) : Deliver(out, fr)[n] = out[n]
              /\ DOMAIN Assembled(fr).packets = fr.received
              /\ fr.received = 0..(fr.totalPackets - 1)
              /\ Assembled(fr).packets = fr.packets
              /\ Assembled(fr).frameNumber = fr.frameNumber
              /\ Assembled(fr).isIdr = fr.isIdr
<1>1. Deliver(out, fr) \in Seq(DeliveredRecord)
  BY DeliverType
<1>2. ASSUME IsComplete(fr)
      PROVE  /\ DOMAIN Assembled(fr).packets = fr.received
             /\ fr.received = 0..(fr.totalPackets - 1)
  <2> DEFINE k == fr.totalPackets
  <2>1. k \in Nat /\ fr.received \in SUBSET (0..(k - 1)) /\ DOMAIN fr.packets = 0..(k - 1)
    BY WidthsAssumption DEF WellFormed, PendingFrame, Byte
  <2>2. Cardinality(fr.received) = k
    BY <1>2 DEF IsComplete, WellFormed
  <2>3. fr.received = 0..(k - 1)
    BY <2>1, <2>2, SlotsFinite
  <2> QED BY <2>1, <2>3 DEF Assembled
<1>3. ASSUME IsComplete(fr)
      PROVE  /\ Deliver(out, fr) = Append(out, Assembled(fr))
             /\ Len(Deliver(out, fr)) = Len(out) + 1
             /\ Deliver(out, fr)[Len(out) + 1] = Assembled(fr)
             /\ \A n \in 1..Len(out) : Deliver(out, fr)[n] = out[n]
  <2> DEFINE d == Assembled(fr)
  <2>1. Deliver(out, fr) = Append(out, d)
    BY <1>3 DEF Deliver
  <2> HIDE DEF d
  <2> QED BY <2>1 DEF d
<1>4. ~ IsComplete(fr) => Deliver(out, fr) = out
  BY DEF Deliver
<1>5. /\ Assembled(fr).packets = fr.packets
      /\ Assembled(fr).frameNumber = fr.frameNumber
      /\ Assembled(fr).isIdr = fr.isIdr
  BY DEF Assembled
<1> QED BY <1>1, <1>2, <1>3, <1>4, <1>5

(* What Store makes of a frame: the slot filled, or nothing.               *)
LEMMA StoreIs ==
  ASSUME NEW fr, WellFormed(fr), NEW p \in DataPacket
  PROVE  /\ WellFormed(Store(fr, p))
         /\ Store(fr, p).frameNumber = fr.frameNumber
         /\ Store(fr, p).totalPackets = fr.totalPackets
         /\ Store(fr, p).isIdr = fr.isIdr
         /\ fr.received \subseteq Store(fr, p).received
         /\ Store(fr, p).received \subseteq fr.received \cup {p.packetIndex}
         /\ p.packetIndex < fr.totalPackets => p.packetIndex \in Store(fr, p).received
         /\ \A i \in fr.received : Store(fr, p).packets[i] = fr.packets[i]
         /\ \A i \in Store(fr, p).received \ fr.received : Store(fr, p).packets[i] = Opened(p)
<1> DEFINE n == fr.totalPackets
           idx == p.packetIndex
<1>1. CASE idx < n /\ idx \notin fr.received
  <2>1. n \in Nat /\ idx \in Nat
    BY WidthsAssumption DEF WellFormed, Byte, DataPacket
  <2>2. idx \in 0..(n - 1) /\ fr.packets \in [0..(n - 1) -> Payload] /\ fr.received \subseteq 0..(n - 1)
    BY <1>1, <2>1 DEF WellFormed, PendingFrame
  <2>3. /\ Store(fr, p).packets = [fr.packets EXCEPT ![idx] = Opened(p)]
        /\ Store(fr, p).received = fr.received \cup {idx}
        /\ Store(fr, p).frameNumber = fr.frameNumber
        /\ Store(fr, p).totalPackets = fr.totalPackets
        /\ Store(fr, p).isIdr = fr.isIdr
    BY <1>1 DEF Store, WellFormed, PendingFrame
  <2>4. WellFormed(Store(fr, p))
    BY StoreWellFormed
  <2> QED BY <1>1, <2>2, <2>3, <2>4
<1>2. CASE ~ (idx < n /\ idx \notin fr.received)
  BY <1>2 DEF Store
<1> QED BY <1>1, <1>2

(* What StartFrame makes of a packet: its frame, with nothing received.    *)
LEMMA StartIs ==
  ASSUME NEW p \in DataPacket
  PROVE  /\ WellFormed(StartFrame(p))
         /\ StartFrame(p).received = {}
         /\ StartFrame(p).totalPackets = p.totalPackets
         /\ StartFrame(p).frameNumber = p.frameNumber
         /\ StartFrame(p).isIdr = p.isIdr
BY StartWellFormed DEF StartFrame

(* What Recovered makes of a partial frame: the slots that were filled are *)
(* as they were, the others rebuilt.                                       *)
LEMMA RecoveredIs ==
  ASSUME NEW fr, WellFormed(fr), IsPartial(fr), NEW fs
  PROVE  /\ WellFormed(Recovered(fr, fs))
         /\ IsComplete(Recovered(fr, fs))
         /\ Recovered(fr, fs).frameNumber = fr.frameNumber
         /\ Recovered(fr, fs).totalPackets = fr.totalPackets
         /\ Recovered(fr, fs).isIdr = fr.isIdr
         /\ Recovered(fr, fs).received = 0..(fr.totalPackets - 1)
         /\ fr.received \subseteq 0..(fr.totalPackets - 1)
         /\ (CHOOSE j \in fr.received : TRUE) \in fr.received
         /\ \A i \in fr.received : Recovered(fr, fs).packets[i] = fr.packets[i]
         /\ \A i \in (0..(fr.totalPackets - 1)) \ fr.received :
              Recovered(fr, fs).packets[i] = Rebuilt(fr, fs, i)
<1> DEFINE n == fr.totalPackets
           all == 0..(n - 1)
           re == Recovered(fr, fs)
<1>1. n \in Nat /\ fr.received \in SUBSET all
  BY WidthsAssumption DEF WellFormed, PendingFrame, Byte
<1>2. fr.received # {}
  <2>1. Cardinality(fr.received) # 0
    BY <1>1, SlotsFinite DEF IsPartial, WellFormed
  <2> QED BY <2>1, FS_EmptySet
<1>3. /\ re.packets = [i \in all |-> IF i \in fr.received THEN fr.packets[i] ELSE Rebuilt(fr, fs, i)]
      /\ re.received = all
      /\ re.frameNumber = fr.frameNumber
      /\ re.totalPackets = fr.totalPackets
      /\ re.isIdr = fr.isIdr
  BY DEF Recovered, WellFormed, PendingFrame
<1>4. WellFormed(re) /\ IsComplete(re)
  BY RecoveredWellFormed
<1> HIDE DEF re
<1>5. \A i \in all : re.packets[i] = IF i \in fr.received THEN fr.packets[i] ELSE Rebuilt(fr, fs, i)
  BY <1>3
<1> QED BY <1>1, <1>2, <1>3, <1>4, <1>5 DEF re

(* A set of natural numbers that is not empty has a least element. *)
LEMMA LeastExists ==
  ASSUME NEW S \in SUBSET Nat, S # {}
  PROVE  \E g \in S : \A h \in S : g <= h
<1> DEFINE R == {ss \in Nat \X Nat : ss[1] < ss[2]}
<1>1. IsWellFoundedOn(R, Nat)
  BY NatLessThanWellFounded DEF OpToRel
<1>2. PICK g \in S : \A h \in S : <<h, g>> \notin R
  <2>1. S \subseteq Nat
    OBVIOUS
  <2> HIDE DEF R
  <2>2. \E g \in S : \A h \in S : ~ (<<h, g>> \in R)
    BY <1>1, <2>1, WFMin, Zenon
  <2> QED BY <2>2
<1>3. ASSUME NEW h \in S
      PROVE  g <= h
  <2>1. h \in Nat /\ g \in Nat
    OBVIOUS
  <2>2. <<h, g>> \in Nat \X Nat /\ <<h, g>>[1] = h /\ <<h, g>>[2] = g
    BY <2>1
  <2>3. ~ (h < g)
    BY <1>2, <2>2
  <2> QED BY <2>1, <2>3
<1> QED BY <1>3

(* The state recovery takes is one that can repair the frame. *)
LEMMA FirstUsableIs ==
  ASSUME NEW fr, UsableStates(fr) # {}
  PROVE  /\ FirstUsable(fr) \in 0..(RingSize - 1)
         /\ Usable(fr, fecStates[FirstUsable(fr)])
<1>1. UsableStates(fr) \subseteq Nat
  BY WidthsAssumption DEF UsableStates
<1>2. \E g \in UsableStates(fr) : \A h \in UsableStates(fr) : g <= h
  BY <1>1, LeastExists
<1> QED BY <1>2 DEF FirstUsable, UsableStates

(* A rebuilt slot is in the form of the shards it was rebuilt from, padded  *)
(* or corrupt.                                                              *)
LEMMA RebuiltForm ==
  ASSUME NEW fr, WellFormed(fr), IsPartial(fr), NEW fs, NEW i
  PROVE  \/ Rebuilt(fr, fs, i).form \in {"padded", "corrupt"}
         \/ \E j \in fr.received : Rebuilt(fr, fs, i).form = fr.packets[j].form
<1> DEFINE c == CHOOSE j \in fr.received : TRUE
           shard == fr.packets[c]
<1>1. c \in fr.received
  BY RecoveredIs
<1>2. CASE SameEncoding(fr, fs)
  <2>1. Rebuilt(fr, fs, i).form = IF i = fr.totalPackets - 1 THEN "padded" ELSE shard.form
    BY <1>2 DEF Rebuilt
  <2> HIDE DEF c
  <2> QED BY <1>1, <2>1
<1>3. CASE ~ SameEncoding(fr, fs)
  BY <1>3 DEF Rebuilt
<1> QED BY <1>2, <1>3

------------------------------------------------------------------------------
(* Once a packet could be opened every later one is: it arrives encrypted   *)
(* and the key is there, or nothing is encrypted.                           *)
Opening == crypto = "ready" \/ ~ Encrypted

NoCipher(fr) == \A i \in fr.received : fr.packets[i].form # "cipher"
HasPlainSlot(fr) == \E i \in fr.received : fr.packets[i].form = "plain"

AnyPlain(out) == \E m \in 1..Len(out) : HasForm(out[m], "plain")

(* KeyTakesEffectOnce, of any sequence of frames. *)
Settled(out) ==
  \A m, n \in 1..Len(out) : m < n /\ HasForm(out[m], "plain") => ~ HasForm(out[n], "cipher")

(* A frame under assembly may mix ciphertext and plaintext only as long as  *)
(* no plaintext has been delivered.                                         *)
KeyInv ==
  /\ \A p \in net : p.type = "data" => p.payload.form = SentForm
  /\ crypto # "none" => Encrypted
  /\ ~ Encrypted => NoCipher(current)
  /\ HasPlainSlot(current) => Opening
  /\ AnyPlain(delivered) => Opening /\ NoCipher(current)
  /\ Settled(delivered)

(* What a decryptable packet is stored as. *)
LEMMA OpenedForm ==
  ASSUME NEW p \in DataPacket, p.payload.form = SentForm, crypto # "none" => Encrypted
  PROVE  /\ Opened(p).form = "plain" => Opening
         /\ Opening => Opened(p).form # "cipher"
BY DEF Opened, Opening, SentForm, DataPacket, Payload

(* Handing over a frame keeps plaintext after ciphertext. *)
LEMMA DeliverSettled ==
  ASSUME NEW out \in Seq(DeliveredRecord), Settled(out),
         NEW fr, WellFormed(fr), AnyPlain(out) => NoCipher(fr)
  PROVE  /\ Settled(Deliver(out, fr))
         /\ AnyPlain(Deliver(out, fr)) => AnyPlain(out) \/ (IsComplete(fr) /\ HasPlainSlot(fr))
<1> DEFINE after == Deliver(out, fr)
<1>1. CASE ~ IsComplete(fr)
  BY <1>1, DeliverIs
<1>2. CASE IsComplete(fr)
  <2> DEFINE d == Assembled(fr)
             len == Len(out)
  <2>1. /\ Len(after) = len + 1 /\ after[len + 1] = d /\ len \in Nat
        /\ \A n \in 1..len : after[n] = out[n]
        /\ DOMAIN d.packets = fr.received /\ d.packets = fr.packets
    BY <1>2, DeliverIs
  <2>2. HasForm(d, "plain") <=> HasPlainSlot(fr)
    BY <2>1 DEF HasForm, HasPlainSlot
  <2>3. NoCipher(fr) <=> ~ HasForm(d, "cipher")
    BY <2>1 DEF HasForm, NoCipher
  <2> HIDE DEF d, after
  <2>4. \A n \in 1..Len(after) : n \in 1..len \/ n = len + 1
    BY <2>1
  <2>5. Settled(after)
    <3> SUFFICES ASSUME NEW m \in 1..Len(after), NEW n \in 1..Len(after), m < n,
                        HasForm(after[m], "plain")
                 PROVE  ~ HasForm(after[n], "cipher")
      BY DEF Settled
    <3>1. m \in 1..len /\ after[m] = out[m]
      BY <2>1, <2>4
    <3>2. CASE n \in 1..len
      BY <2>1, <3>1, <3>2 DEF Settled
    <3>3. CASE n = len + 1
      BY <2>1, <2>3, <3>1, <3>3 DEF AnyPlain
    <3> QED BY <2>4, <3>2, <3>3
  <2>6. AnyPlain(after) => AnyPlain(out) \/ HasPlainSlot(fr)
    BY <2>1, <2>2, <2>4 DEF AnyPlain
  <2> QED BY <1>2, <2>5, <2>6 DEF after
<1> QED BY <1>1, <1>2

LEMMA ReceiveKeyed ==
  ASSUME TypeInv, KeyInv, NEW p \in net, Receive(p), net' \subseteq net
  PROVE  KeyInv'
<1> DEFINE stored == Store(current, p)
           started == Store(StartFrame(p), p)
<1>1. /\ WellFormed(current) /\ delivered \in Seq(DeliveredRecord) /\ p \in Packet
      /\ Settled(delivered)
  BY DEF TypeInv, TypeOK, ReceiverTypeOK, NetTypeOK, KeyInv
<1>2. crypto' = crypto
  BY DEF Receive, ReceiveUndecryptable, ReceiveForCurrent, ReceiveForNext, ReceiveAndRecover, ReceiveFec,
         receiverVars
<1>3. ASSUME ~ Encrypted => NoCipher(current'), HasPlainSlot(current') => Opening,
             AnyPlain(delivered') => Opening /\ NoCipher(current'), Settled(delivered')
      PROVE  KeyInv'
  BY <1>2, <1>3 DEF KeyInv, Opening, NoCipher, HasPlainSlot, AnyPlain, Settled
<1>4. /\ NoCipher(NoFrame) /\ ~ HasPlainSlot(NoFrame)
      /\ \A fr : Retained(fr) = IF IsComplete(fr) THEN NoFrame ELSE fr
  BY DEF NoCipher, HasPlainSlot, NoFrame, Retained
<1>5. ASSUME p.type = "data"
      PROVE  /\ p \in DataPacket
             /\ WellFormed(stored) /\ WellFormed(started)
             /\ HasPlainSlot(stored) => Opening
             /\ NoCipher(current) /\ Opening => NoCipher(stored)
             /\ HasPlainSlot(started) => Opening
             /\ Opening => NoCipher(started)
  <2>1. p \in DataPacket
    BY <1>1, <1>5 DEF Packet, FecPacket
  <2>2. (Opened(p).form = "plain" => Opening) /\ (Opening => Opened(p).form # "cipher")
    BY <1>5, <2>1, OpenedForm DEF KeyInv
  <2>3. /\ WellFormed(stored)
        /\ \A i \in stored.received : \/ i \in current.received /\ stored.packets[i] = current.packets[i]
                                      \/ stored.packets[i] = Opened(p)
    BY <1>1, <2>1, StoreIs
  <2>4. WellFormed(started) /\ \A i \in started.received : started.packets[i] = Opened(p)
    BY <2>1, StartIs, StoreIs
  <2> HIDE DEF stored, started
  <2>5. HasPlainSlot(stored) => Opening
    BY <2>2, <2>3 DEF KeyInv, HasPlainSlot
  <2>6. NoCipher(current) /\ Opening => NoCipher(stored)
    BY <2>2, <2>3 DEF NoCipher
  <2>7. (HasPlainSlot(started) => Opening) /\ (Opening => NoCipher(started))
    BY <2>2, <2>4 DEF NoCipher, HasPlainSlot
  <2> QED BY <2>1, <2>3, <2>4, <2>5, <2>6, <2>7
<1>6. (~ Encrypted => Opening) /\ (~ Encrypted => NoCipher(current))
  BY DEF Opening, KeyInv
<1>7. CASE ReceiveUndecryptable(p) \/ ReceiveFec(p)
  BY <1>3, <1>7 DEF ReceiveUndecryptable, ReceiveFec, receiverVars, KeyInv, Opening
<1>8. CASE ReceiveForCurrent(p)
  <2>1. p.type = "data" /\ current' = Retained(stored) /\ delivered' = Deliver(delivered, stored)
    BY <1>8 DEF ReceiveForCurrent
  <2> HIDE DEF stored, started
  <2>2. AnyPlain(delivered) => Opening /\ NoCipher(stored)
    BY <1>5, <2>1 DEF KeyInv
  <2>3. /\ Settled(delivered')
        /\ AnyPlain(delivered') => AnyPlain(delivered) \/ (IsComplete(stored) /\ HasPlainSlot(stored))
    BY <1>1, <1>5, <2>1, <2>2, DeliverSettled
  <2>4. HasPlainSlot(current') => Opening
    BY <1>4, <1>5, <2>1
  <2>5. AnyPlain(delivered') => Opening /\ NoCipher(current')
    BY <1>4, <1>5, <2>1, <2>2, <2>3
  <2>6. ~ Encrypted => NoCipher(current')
    BY <1>4, <1>5, <1>6, <2>1
  <2> QED BY <1>3, <2>3, <2>4, <2>5, <2>6
<1>9. ASSUME p.type = "data", current' = Retained(started),
             NEW out \in Seq(DeliveredRecord), Settled(out), AnyPlain(out) => Opening,
             delivered' = Deliver(out, started)
      PROVE  KeyInv'
  <2> HIDE DEF stored, started
  <2>1. /\ Settled(delivered')
        /\ AnyPlain(delivered') => AnyPlain(out) \/ HasPlainSlot(started)
    BY <1>5, <1>9, DeliverSettled
  <2>2. HasPlainSlot(current') => Opening
    BY <1>4, <1>5, <1>9
  <2>3. AnyPlain(delivered') => Opening /\ NoCipher(current')
    BY <1>4, <1>5, <1>9, <2>1
  <2>4. ~ Encrypted => NoCipher(current')
    BY <1>4, <1>5, <1>6, <1>9
  <2> QED BY <1>3, <2>1, <2>2, <2>3, <2>4
<1>10. CASE ReceiveForNext(p)
  BY <1>1, <1>9, <1>10 DEF ReceiveForNext, KeyInv
<1>11. CASE ReceiveAndRecover(p)
  <2> DEFINE repaired == Recovered(current, fecStates[FirstUsable(current)])
             first == Deliver(delivered, repaired)
  <2>1. /\ p.type = "data" /\ IsPartial(current) /\ current' = Retained(started)
        /\ delivered' = Deliver(first, started)
    BY <1>11 DEF ReceiveAndRecover
  <2>2. /\ WellFormed(repaired)
        /\ \A i \in repaired.received :
             \/ i \in current.received /\ repaired.packets[i] = current.packets[i]
             \/ repaired.packets[i].form \in {"padded", "corrupt"}
             \/ \E j \in current.received : repaired.packets[i].form = current.packets[j].form
    <3> DEFINE fs == fecStates[FirstUsable(current)]
    <3> HIDE DEF fs
    <3>1. \A i : \/ Rebuilt(current, fs, i).form \in {"padded", "corrupt"}
                 \/ \E j \in current.received : Rebuilt(current, fs, i).form = current.packets[j].form
      BY <1>1, <2>1, RebuiltForm
    <3>2. /\ WellFormed(repaired)
          /\ repaired.received = 0..(current.totalPackets - 1)
          /\ \A i \in current.received : repaired.packets[i] = current.packets[i]
          /\ \A i \in (0..(current.totalPackets - 1)) \ current.received :
               repaired.packets[i] = Rebuilt(current, fs, i)
      BY <1>1, <2>1, RecoveredIs DEF fs
    <3> HIDE DEF repaired
    <3> QED BY <3>1, <3>2
  <2> HIDE DEF repaired, stored, started
  <2>3. HasPlainSlot(repaired) => Opening
    BY <2>2 DEF KeyInv, HasPlainSlot
  <2>4. NoCipher(current) => NoCipher(repaired)
    BY <2>2 DEF NoCipher
  <2>5. first \in Seq(DeliveredRecord)
    BY <1>1, <2>2, DeliverType
  <2>6. Settled(first) /\ (AnyPlain(first) => AnyPlain(delivered) \/ HasPlainSlot(repaired))
    BY <1>1, <2>2, <2>4, DeliverSettled DEF KeyInv
  <2>7. AnyPlain(first) => Opening
    BY <2>3, <2>6 DEF KeyInv
  <2> HIDE DEF first
  <2> QED BY <1>9, <2>1, <2>5, <2>6, <2>7
<1> QED BY <1>7, <1>8, <1>10, <1>11 DEF Receive

(* The key is installed while packets arrive, and a frame may then be a     *)
(* mixture; but after the first frame with a decrypted packet the decoder   *)
(* is never given ciphertext again, with or without FEC, whatever the       *)
(* network does and whether Init of the cipher succeeds or fails.           *)
THEOREM KeyInstalledOnce == Spec => []KeyTakesEffectOnce
<1>1. Init => KeyInv
  BY DEF Init, ReceiverInit, NoFrame, KeyInv, NoCipher, HasPlainSlot, AnyPlain, Settled
<1>2. TypeInv /\ KeyInv /\ [Next]_vars => KeyInv'
  <2> SUFFICES ASSUME TypeInv, KeyInv, [Next]_vars PROVE KeyInv'
    OBVIOUS
  <2>1. ASSUME NEW k \in PacketCounts, NEW idr \in BOOLEAN, HostSends(k, idr)
        PROVE  KeyInv'
    <3>1. \A p \in net' : p.type = "data" => p.payload.form = SentForm
      BY <2>1 DEF HostSends, FramePackets, DataPackets, FecPackets, KeyInv
    <3>2. UNCHANGED <<current, crypto, delivered>>
      BY <2>1 DEF HostSends, receiverVars
    <3> QED BY <3>1, <3>2 DEF KeyInv, Opening, NoCipher, HasPlainSlot, AnyPlain, Settled
  <2>2. ASSUME NEW p \in net, Arrive(p) \/ ArriveAndRepeat(p)
        PROVE  KeyInv'
    BY <2>2, ReceiveKeyed DEF Arrive, ArriveAndRepeat
  <2>3. ASSUME UNCHANGED <<current, delivered>>, net' \subseteq net,
               crypto' # "none" => Encrypted, Opening => crypto' = "ready" \/ ~ Encrypted
        PROVE  KeyInv'
    BY <2>3 DEF KeyInv, Opening, NoCipher, HasPlainSlot, AnyPlain, Settled
  <2>4. ASSUME NEW p \in net, Lose(p)
        PROVE  KeyInv'
    BY <2>3, <2>4 DEF Lose, receiverVars, KeyInv, Opening
  <2>5. CASE InstallKey
    BY <2>3, <2>5 DEF InstallKey, AllocateCrypto, InitCrypto, InitCryptoFails, netVars, KeyInv, Opening
  <2>6. CASE UNCHANGED vars
    BY <2>3, <2>6 DEF vars, receiverVars, netVars, KeyInv, Opening
  <2> QED BY <2>1, <2>2, <2>4, <2>5, <2>6, SenderAssumption DEF Next
<1>3. KeyInv => KeyTakesEffectOnce
  BY DEF KeyInv, Settled, KeyTakesEffectOnce
<1> QED BY <1>1, <1>2, <1>3, TypeInvariant, PTL DEF Spec

------------------------------------------------------------------------------
(* PositionOf, with the frames sent as an argument. *)
PositionIn(s, d) ==
  LET matches == {f \in 1..Len(s) :
                    /\ d.frameNumber = f % FrameMod
                    /\ d.isIdr = s[f].idr
                    /\ DOMAIN d.packets = 0..(s[f].count - 1)
                    /\ \A i \in 0..(s[f].count - 1) : SlotOK(d.packets[i], f, i)}
  IN IF matches = {} THEN 0 ELSE CHOOSE f \in matches : TRUE

(* What the abstract stream has received when out was delivered. *)
Positions(s, out) == [n \in 1..Len(out) |-> PositionIn(s, out[n])]

LastOf(pos) == IF pos = << >> THEN 0 ELSE pos[Len(pos)]

(* Every frame delivered has the position it was sent at. *)
LEMMA PositionIs ==
  ASSUME NoWrap, NEW s, Len(s) \in Nat, Len(s) <= MaxFrames, NEW d, NEW f \in 1..Len(s),
         d.frameNumber = f % FrameMod, d.isIdr = s[f].idr,
         DOMAIN d.packets = 0..(s[f].count - 1),
         \A i \in 0..(s[f].count - 1) : SlotOK(d.packets[i], f, i)
  PROVE  PositionIn(s, d) = f
<1> DEFINE matches == {g \in 1..Len(s) :
                         /\ d.frameNumber = g % FrameMod
                         /\ d.isIdr = s[g].idr
                         /\ DOMAIN d.packets = 0..(s[g].count - 1)
                         /\ \A i \in 0..(s[g].count - 1) : SlotOK(d.packets[i], g, i)}
<1>1. f \in matches
  OBVIOUS
<1>2. ASSUME NEW g \in matches
      PROVE  g = f
  <2>1. g \in 1..Len(s) /\ g % FrameMod = f % FrameMod
    OBVIOUS
  <2>2. g \in 1..MaxFrames /\ f \in 1..MaxFrames
    BY <2>1, SenderAssumption
  <2> QED BY <2>1, <2>2, NumbersDistinct
<1>3. PositionIn(s, d) = IF matches = {} THEN 0 ELSE CHOOSE g \in matches : TRUE
  BY DEF PositionIn
<1> HIDE DEF matches
<1> QED BY <1>1, <1>2, <1>3

LEMMA PositionsType ==
  ASSUME NEW s, Len(s) \in Nat, NEW out \in Seq(DeliveredRecord)
  PROVE  /\ Positions(s, out) \in Seq(Nat)
         /\ Len(Positions(s, out)) = Len(out)
         /\ \A n \in 1..Len(out) : /\ Positions(s, out)[n] = PositionIn(s, out[n])
                                   /\ Positions(s, out)[n] \in 0..Len(s)
<1>1. ASSUME NEW d
      PROVE  PositionIn(s, d) \in 0..Len(s)
  <2> DEFINE matches == {g \in 1..Len(s) :
                           /\ d.frameNumber = g % FrameMod
                           /\ d.isIdr = s[g].idr
                           /\ DOMAIN d.packets = 0..(s[g].count - 1)
                           /\ \A i \in 0..(s[g].count - 1) : SlotOK(d.packets[i], g, i)}
  <2>1. PositionIn(s, d) = IF matches = {} THEN 0 ELSE CHOOSE g \in matches : TRUE
    BY DEF PositionIn
  <2>2. matches \subseteq 0..Len(s)
    OBVIOUS
  <2>3. matches # {} => (CHOOSE g \in matches : TRUE) \in matches
    OBVIOUS
  <2> DEFINE some == CHOOSE g \in matches : TRUE
  <2>4. PositionIn(s, d) = IF matches = {} THEN 0 ELSE some
    BY <2>1
  <2>5. matches # {} => some \in matches
    BY <2>3
  <2> HIDE DEF matches, some
  <2>6. CASE matches = {}
    <3>1. PositionIn(s, d) = 0
      BY <2>4, <2>6
    <3> QED BY <3>1
  <2>7. CASE matches # {}
    <3>1. PositionIn(s, d) = some
      BY <2>4, <2>7
    <3>2. some \in matches
      BY <2>5, <2>7
    <3>3. some \in 0..Len(s)
      BY <3>2, <2>2
    <3> QED BY <3>1, <3>3
  <2> QED BY <2>6, <2>7
<1> QED BY <1>1 DEF Positions

(* Handing over frame f appends f to what the stream has received. *)
LEMMA HandOverIs ==
  ASSUME NoWrap, Len(sent) \in Nat, Len(sent) <= MaxFrames, NEW out \in Seq(DeliveredRecord),
         NEW fr, WellFormed(fr), NEW f \in 1..Len(sent), SlotsOf(fr, f)
  PROVE  /\ ~ IsComplete(fr) => Positions(sent, Deliver(out, fr)) = Positions(sent, out)
         /\ IsComplete(fr) =>
              Positions(sent, Deliver(out, fr)) = Append(Positions(sent, out), f)
<1>1. CASE ~ IsComplete(fr)
  BY <1>1, DeliverIs
<1>2. CASE IsComplete(fr)
  <2> DEFINE d == Assembled(fr)
             after == Deliver(out, fr)
             len == Len(out)
             pos == Positions(sent, out)
             more == Positions(sent, after)
  <2>1. /\ after \in Seq(DeliveredRecord)
        /\ Len(after) = len + 1 /\ after[len + 1] = d /\ len \in Nat
        /\ \A n \in 1..len : after[n] = out[n]
        /\ DOMAIN d.packets = fr.received
        /\ fr.received = 0..(fr.totalPackets - 1)
        /\ d.packets = fr.packets
        /\ d.frameNumber = fr.frameNumber
        /\ d.isIdr = fr.isIdr
    BY <1>2, DeliverIs
  <2> HIDE DEF d, after
  <2>2. PositionIn(sent, d) = f
    BY <2>1, PositionIs DEF SlotsOf
  <2>3. /\ pos \in Seq(Nat) /\ Len(pos) = len
        /\ \A n \in 1..len : pos[n] = PositionIn(sent, out[n])
    BY PositionsType
  <2>4. /\ more \in Seq(Nat) /\ Len(more) = len + 1
        /\ \A n \in 1..(len + 1) : more[n] = PositionIn(sent, after[n])
    <3>1. after \in Seq(DeliveredRecord) /\ Len(after) = len + 1
      BY <2>1
    <3>2. /\ Positions(sent, after) \in Seq(Nat)
          /\ Len(Positions(sent, after)) = Len(after)
          /\ \A n \in 1..Len(after) : Positions(sent, after)[n] = PositionIn(sent, after[n])
      BY <3>1, PositionsType
    <3> QED BY <3>1, <3>2
  <2> HIDE DEF pos, more
  <2>5. /\ Append(pos, f) \in Seq(Nat) /\ Len(Append(pos, f)) = len + 1
        /\ \A n \in 1..len : Append(pos, f)[n] = pos[n]
        /\ Append(pos, f)[len + 1] = f
    BY <2>3, AppendProperties
  <2>6. \A n \in 1..(len + 1) : more[n] = Append(pos, f)[n]
    <3>1. \A n \in 1..(len + 1) : n \in 1..len \/ n = len + 1
      BY <2>1
    <3> QED BY <2>1, <2>2, <2>3, <2>4, <2>5, <3>1
  <2>7. more = Append(pos, f)
    BY <2>4, <2>5, <2>6, SeqEqual
  <2> QED BY <1>2, <2>7 DEF pos, more, after
<1> QED BY <1>1, <1>2

(* No two data packets in flight are the same part of the same frame, and  *)
(* the part is one the frame has.                                          *)
PartsApart(N) ==
  \A p, q \in N : p.type = "data" /\ q.type = "data" =>
    (p.payload.frame = q.payload.frame /\ p.packetIndex = q.packetIndex => p = q)

PartsWithin(N) == \A p \in N : p.type = "data" => p.packetIndex < p.totalPackets

(* Packets of a later frame carry later sequence numbers. *)
FramesInOrder(N) ==
  \A p, q \in N : p.type = "data" /\ q.type = "data" =>
    (p.payload.frame < q.payload.frame => p.sequence < q.sequence)

(* All that is in flight is of frame c, and then missing in fr, or later.  *)
Ahead(fr, c, N) ==
  \A q \in N : q.type = "data" =>
    q.payload.frame >= c /\ (q.payload.frame = c => q.packetIndex \notin fr.received)

(* Only frames after those in pos are pending or in flight. *)
Pending(fr, pos, N) ==
  fr.totalPackets # 0 =>
    \E c \in 1..Len(sent) : fr.frameNumber = c % FrameMod /\ LastOf(pos) < c /\ Ahead(fr, c, N)

Beyond(pos, N) == \A q \in N : q.type = "data" => LastOf(pos) < q.payload.frame

NetInv ==
  /\ IsFiniteSet(net)
  /\ \A p \in net : p.sequence < sequence
  /\ PartsApart(net)
  /\ PartsWithin(net)
  /\ FramesInOrder(net)

OrderInv ==
  /\ NetInv
  /\ dups = 0
  /\ Pending(current, Positions(sent, delivered), net)
  /\ Beyond(Positions(sent, delivered), net)

LEMMA LastAppend ==
  ASSUME NEW pos \in Seq(Nat), NEW f \in Nat
  PROVE  LastOf(Append(pos, f)) = f /\ Append(pos, f) \in Seq(Nat)
BY AppendProperties DEF LastOf

LEMMA LastType ==
  ASSUME NEW pos \in Seq(Nat)
  PROVE  LastOf(pos) \in Nat
BY EmptySeq, ElementOfSeq DEF LastOf

(* Storing or handing over a frame that everything in flight is ahead of   *)
(* moves the stream to it and leaves everything in flight ahead.           *)
LEMMA Advance ==
  ASSUME NoWrap, TransportInv, NetInv, NEW N \in SUBSET net,
         NEW f \in 1..Len(sent), NEW fr, WellFormed(fr), SlotsOf(fr, f), Ahead(fr, f, N),
         NEW out \in Seq(DeliveredRecord), LastOf(Positions(sent, out)) < f
  PROVE  /\ Positions(sent, Deliver(out, fr)) = Positions(sent, out)
            \/ Positions(sent, Deliver(out, fr)) = Append(Positions(sent, out), f)
         /\ Pending(Retained(fr), Positions(sent, Deliver(out, fr)), N)
         /\ Beyond(Positions(sent, Deliver(out, fr)), N)
<1> DEFINE pos == Positions(sent, out)
           after == Positions(sent, Deliver(out, fr))
<1>1. /\ Len(sent) \in Nat /\ Len(sent) <= MaxFrames /\ f \in Nat
      /\ \A q \in N : q.type = "data" => q.payload.frame \in Nat /\ q.packetIndex \in Nat
  <2>1. \A q \in net : q.type = "data" => q \in DataPacket
    BY DEF TransportInv, TypeInv, TypeOK, NetTypeOK, Packet, FecPacket
  <2>2. \A q \in DataPacket : q.payload.frame \in Nat /\ q.packetIndex \in Nat
    BY WidthsAssumption DEF DataPacket, Payload, Byte
  <2> QED BY <2>1, <2>2 DEF TransportInv, TypeInv, TypeOK, SenderTypeOK
<1>2. pos \in Seq(Nat) /\ LastOf(pos) \in Nat
  BY <1>1, PositionsType, LastType
<1>3. LastOf(pos) < f
  OBVIOUS
<1>4. ~ IsComplete(fr) => after = pos
  BY <1>1, HandOverIs
<1>5. IsComplete(fr) => after = Append(pos, f)
  BY <1>1, HandOverIs
<1> HIDE DEF pos, after
<1>6. CASE ~ IsComplete(fr)
  <2>1. Retained(fr) = fr
    BY <1>6 DEF Retained
  <2>2. Pending(fr, pos, N)
    BY <1>3 DEF Pending, SlotsOf
  <2>3. Beyond(pos, N)
    BY <1>1, <1>2, <1>3 DEF Beyond, Ahead
  <2> QED BY <1>4, <1>6, <2>1, <2>2, <2>3 DEF pos, after
<1>7. CASE IsComplete(fr)
  <2>1. LastOf(after) = f
    BY <1>1, <1>2, <1>5, <1>7, LastAppend
  <2>2. Pending(Retained(fr), after, N)
    BY <1>7 DEF Retained, NoFrame, Pending
  <2>3. fr.received = 0..(fr.totalPackets - 1)
    BY <1>7, DeliverIs
  <2>4. ASSUME NEW q \in N, q.type = "data"
        PROVE  q.payload.frame > f
    <3>1. q.payload.frame >= f /\ (q.payload.frame = f => q.packetIndex \notin fr.received)
      BY <2>4 DEF Ahead
    <3>2. ASSUME q.payload.frame = f PROVE FALSE
      <4>1. PICK g \in 1..Len(sent) : DataOf(q, g)
        BY <2>4 DEF TransportInv, NetGenuine
      <4>2. g = f
        BY <3>2, <4>1 DEF DataOf, IsPart
      <4>3. q.packetIndex < fr.totalPackets
        BY <2>4, <4>1, <4>2 DEF NetInv, PartsWithin, DataOf, SlotsOf
      <4>4. fr.totalPackets \in Nat
        BY WidthsAssumption DEF WellFormed, Byte
      <4>5. q.packetIndex \in fr.received
        BY <1>1, <2>3, <2>4, <4>3, <4>4
      <4> QED BY <3>1, <3>2, <4>5
    <3> QED BY <1>1, <2>4, <3>1, <3>2
  <2>5. Beyond(after, N)
    BY <1>1, <2>1, <2>4 DEF Beyond
  <2> QED BY <1>5, <1>7, <2>2, <2>5 DEF pos, after
<1> QED BY <1>6, <1>7

(* With MaxReorder = 0 nothing in flight has an earlier sequence number    *)
(* than the packet that leaves the network.                                *)
LEMMA NothingOvertaken ==
  ASSUME NetInv, MaxReorder = 0, NEW p \in net, AtHead(p)
  PROVE  \A q \in net : ~ (q.sequence < p.sequence)
<1> DEFINE before == {q \in net : q.sequence < p.sequence}
<1>1. IsFiniteSet(before)
  BY FS_Subset DEF NetInv
<1>2. Cardinality(before) \in Nat /\ Cardinality(before) <= 0
  BY <1>1, FS_CardinalityType DEF AtHead
<1>3. Cardinality(before) = 0
  BY <1>2
<1>4. before = {}
  <2> HIDE DEF before
  <2> QED BY <1>1, <1>3, FS_EmptySet
<1> QED BY <1>4

(* A packet of the network leaves only packets of its own frame, in other  *)
(* slots, and of later frames behind.                                      *)
LEMMA LeftBehind ==
  ASSUME TransportInv, NetInv, MaxReorder = 0, NEW p \in net, AtHead(p), p.type = "data"
  PROVE  \A q \in net \ {p} : q.type = "data" =>
           /\ q.payload.frame >= p.payload.frame
           /\ q.payload.frame = p.payload.frame => q.packetIndex # p.packetIndex
<1>1. \A q \in net : q.type = "data" => q.payload.frame \in Nat
  <2>1. \A q \in net : q.type = "data" => q \in DataPacket
    BY DEF TransportInv, TypeInv, TypeOK, NetTypeOK, Packet, FecPacket
  <2> QED BY <2>1 DEF DataPacket, Payload
<1>2. \A q \in net : ~ (q.sequence < p.sequence)
  BY NothingOvertaken
<1>3. \A q \in net : q.type = "data" => ~ (q.payload.frame < p.payload.frame)
  BY <1>2 DEF NetInv, FramesInOrder
<1> QED BY <1>1, <1>3 DEF NetInv, PartsApart

(* What the stream receives when one packet arrives: nothing, the frame    *)
(* the packet completes, the frame it displaces, or both in this order.    *)
Extended(before, after) ==
  \/ after = before
  \/ \E n \in 1..Len(sent) : LastOf(before) < n /\ after = Append(before, n)
  \/ \E m, n \in 1..Len(sent) :
       LastOf(before) < m /\ m < n /\ after = Append(Append(before, m), n)

LEMMA ReceiveOrdered ==
  ASSUME NoWrap, TransportInv, OrderInv, MaxReorder = 0,
         NEW p \in net, AtHead(p), Receive(p), NEW N, N = net \ {p}
  PROVE  /\ Extended(Positions(sent, delivered), Positions(sent, delivered'))
         /\ Pending(current', Positions(sent, delivered'), N)
         /\ Beyond(Positions(sent, delivered'), N)
<1> DEFINE stored == Store(current, p)
           started == Store(StartFrame(p), p)
           pos == Positions(sent, delivered)
<1>1. /\ WellFormed(current) /\ delivered \in Seq(DeliveredRecord) /\ p \in Packet
      /\ ConsistentFrame(current)
      /\ Len(sent) \in Nat /\ Len(sent) <= MaxFrames /\ MaxFrames \in Nat
      /\ NetInv
  BY SenderAssumption
  DEF TransportInv, TypeInv, TypeOK, ReceiverTypeOK, NetTypeOK, SenderTypeOK, ReassemblyConsistent,
      ConsistentFrame, PartsOf, SlotsOf, SlotOK, OrderInv
<1>2. Pending(current, pos, net) /\ Beyond(pos, net)
  BY DEF OrderInv
<1>3. pos \in Seq(Nat) /\ LastOf(pos) \in Nat
  BY <1>1, PositionsType, LastType
<1>4. Pending(current, pos, N) /\ Beyond(pos, N)
  BY <1>2 DEF Pending, Beyond, Ahead
<1>5. ASSUME p.type = "data"
      PROVE  \E f \in 1..Len(sent) :
               /\ p \in DataPacket /\ DataOf(p, f) /\ LastOf(pos) < f
               /\ WellFormed(started) /\ PartsOf(started, f)
               /\ Ahead(started, f, N)
  <2>1. p \in DataPacket
    BY <1>1, <1>5 DEF Packet, FecPacket
  <2>2. PICK f \in 1..Len(sent) : DataOf(p, f)
    BY <1>5 DEF TransportInv, NetGenuine
  <2>3. p.payload.frame = f
    BY <2>2 DEF DataOf, IsPart
  <2>4. WellFormed(started) /\ PartsOf(started, f)
    BY <2>1, <2>2, StartWellFormed, StartParts, StoreWellFormed, StoreParts
  <2>5. started.received \subseteq {p.packetIndex}
    BY <2>1, StartIs, StoreIs
  <2> HIDE DEF started
  <2>6. Ahead(started, f, N)
    BY <1>1, <1>5, <2>3, <2>5, LeftBehind DEF Ahead
  <2>7. LastOf(pos) < f
    BY <1>2, <1>5, <2>3 DEF Beyond
  <2> QED BY <2>1, <2>2, <2>4, <2>6, <2>7
<1>6. ASSUME IsOfCurrent(p) \/ IsPartial(current)
      PROVE  \E c \in 1..Len(sent) :
               /\ PartsOf(current, c) /\ LastOf(pos) < c /\ Ahead(current, c, net)
  <2>1. current.totalPackets # 0
    BY <1>1, <1>6, WidthsAssumption DEF IsOfCurrent, IsPartial, WellFormed, PendingFrame, Byte
  <2>2. PICK g \in 1..Len(sent) : PartsOf(current, g)
    BY <1>1, <2>1 DEF ConsistentFrame
  <2>3. PICK c \in 1..Len(sent) :
          current.frameNumber = c % FrameMod /\ LastOf(pos) < c /\ Ahead(current, c, net)
    BY <1>2, <2>1 DEF Pending
  <2>4. c % FrameMod = g % FrameMod
    BY <2>2, <2>3 DEF PartsOf, SlotsOf
  <2>5. c \in 1..MaxFrames /\ g \in 1..MaxFrames
    BY <1>1
  <2>6. c = g
    BY <2>4, <2>5, NumbersDistinct
  <2> QED BY <2>2, <2>3, <2>6
<1>7. CASE ReceiveUndecryptable(p) \/ ReceiveFec(p)
  <2>1. current' = current /\ delivered' = delivered
    BY <1>7 DEF ReceiveUndecryptable, ReceiveFec, receiverVars
  <2> QED BY <1>4, <2>1 DEF Extended
<1>8. CASE ReceiveForCurrent(p)
  <2>1. /\ p.type = "data" /\ IsOfCurrent(p)
        /\ current' = Retained(stored) /\ delivered' = Deliver(delivered, stored)
    BY <1>8 DEF ReceiveForCurrent
  <2>2. PICK f \in 1..Len(sent) : p \in DataPacket /\ DataOf(p, f)
    BY <1>5, <2>1
  <2>3. PICK c \in 1..Len(sent) :
          PartsOf(current, c) /\ LastOf(pos) < c /\ Ahead(current, c, net)
    BY <1>6, <2>1
  <2>4. f = c
    <3>1. f % FrameMod = c % FrameMod
      BY <2>1, <2>2, <2>3 DEF IsOfCurrent, DataOf, PartsOf, SlotsOf
    <3>2. f \in 1..MaxFrames /\ c \in 1..MaxFrames
      BY <1>1
    <3> QED BY <3>1, <3>2, NumbersDistinct
  <2>5. WellFormed(stored) /\ PartsOf(stored, c)
    BY <1>1, <2>2, <2>3, <2>4, StoreWellFormed, StoreParts
  <2>6. stored.received \subseteq current.received \cup {p.packetIndex}
    BY <1>1, <2>2, StoreIs
  <2> HIDE DEF stored, started
  <2>7. p.payload.frame = c
    BY <2>2, <2>4 DEF DataOf, IsPart
  <2>8. Ahead(stored, c, N)
    BY <1>1, <2>1, <2>3, <2>6, <2>7, LeftBehind DEF Ahead
  <2>9. N \in SUBSET net /\ SlotsOf(stored, c)
    BY <2>5 DEF PartsOf
  <2>10. /\ Positions(sent, delivered') = pos \/ Positions(sent, delivered') = Append(pos, c)
         /\ Pending(current', Positions(sent, delivered'), N)
         /\ Beyond(Positions(sent, delivered'), N)
    BY <1>1, <2>1, <2>3, <2>5, <2>8, <2>9, Advance
  <2> HIDE DEF pos
  <2>11. Extended(pos, Positions(sent, delivered'))
    BY <2>3, <2>10 DEF Extended
  <2> QED BY <2>10, <2>11 DEF pos
<1>9. CASE ReceiveForNext(p)
  <2>1. /\ p.type = "data"
        /\ current' = Retained(started) /\ delivered' = Deliver(delivered, started)
    BY <1>9 DEF ReceiveForNext
  <2>2. PICK f \in 1..Len(sent) :
          /\ LastOf(pos) < f
          /\ WellFormed(started) /\ PartsOf(started, f) /\ Ahead(started, f, N)
    BY <1>5, <2>1
  <2> HIDE DEF stored, started
  <2>3. N \in SUBSET net /\ SlotsOf(started, f)
    BY <2>2 DEF PartsOf
  <2>4. /\ Positions(sent, delivered') = pos \/ Positions(sent, delivered') = Append(pos, f)
        /\ Pending(current', Positions(sent, delivered'), N)
        /\ Beyond(Positions(sent, delivered'), N)
    BY <1>1, <2>1, <2>2, <2>3, Advance
  <2> HIDE DEF pos
  <2>5. Extended(pos, Positions(sent, delivered'))
    BY <2>2, <2>4 DEF Extended
  <2> QED BY <2>4, <2>5 DEF pos
<1>10. CASE ReceiveAndRecover(p)
  <2> DEFINE repaired == Recovered(current, fecStates[FirstUsable(current)])
             first == Deliver(delivered, repaired)
  <2>1. /\ p.type = "data" /\ IsPartial(current) /\ ~ IsOfCurrent(p)
        /\ current' = Retained(started)
        /\ delivered' = Deliver(first, started)
    BY <1>10 DEF ReceiveAndRecover
  <2>2. PICK f \in 1..Len(sent) :
          /\ DataOf(p, f) /\ LastOf(pos) < f
          /\ WellFormed(started) /\ PartsOf(started, f) /\ Ahead(started, f, N)
    BY <1>5, <2>1
  <2>3. PICK c \in 1..Len(sent) :
          PartsOf(current, c) /\ LastOf(pos) < c /\ Ahead(current, c, net)
    BY <1>6, <2>1
  <2>4. c < f
    <3>1. p.payload.frame = f
      BY <2>2 DEF DataOf, IsPart
    <3>2. f >= c
      BY <2>1, <2>3, <3>1 DEF Ahead
    <3>3. current.totalPackets # 0
      BY <1>1, <2>1, WidthsAssumption DEF IsPartial, WellFormed, PendingFrame, Byte
    <3>4. f # c
      BY <2>1, <2>2, <2>3, <3>3 DEF IsOfCurrent, DataOf, PartsOf, SlotsOf
    <3> QED BY <3>2, <3>4
  <2>5. WellFormed(repaired) /\ SlotsOf(repaired, c) /\ IsComplete(repaired)
    BY <1>1, <2>1, <2>3, RecoveredWellFormed, RecoveredSlots
  <2> HIDE DEF stored, started, repaired
  <2>6. /\ first \in Seq(DeliveredRecord)
        /\ Positions(sent, first) = Append(pos, c)
    BY <1>1, <2>5, DeliverIs, HandOverIs
  <2>7. LastOf(Positions(sent, first)) = c
    BY <1>3, <2>6, LastAppend
  <2>8. N \in SUBSET net /\ SlotsOf(started, f)
    BY <2>2 DEF PartsOf
  <2> HIDE DEF first
  <2>9. /\ \/ Positions(sent, delivered') = Positions(sent, first)
           \/ Positions(sent, delivered') = Append(Positions(sent, first), f)
        /\ Pending(current', Positions(sent, delivered'), N)
        /\ Beyond(Positions(sent, delivered'), N)
    <3>1. LastOf(Positions(sent, first)) < f
      BY <2>4, <2>7
    <3>2. /\ \/ Positions(sent, Deliver(first, started)) = Positions(sent, first)
             \/ Positions(sent, Deliver(first, started)) = Append(Positions(sent, first), f)
          /\ Pending(Retained(started), Positions(sent, Deliver(first, started)), N)
          /\ Beyond(Positions(sent, Deliver(first, started)), N)
      <4> HIDE DEF pos
      <4>1. WellFormed(started) /\ Ahead(started, f, N) /\ first \in Seq(DeliveredRecord)
        BY <2>2, <2>6
      <4>2. NetInv /\ f \in 1..Len(sent)
        BY <1>1
      <4> HIDE DEF started, first
      <4> QED BY <2>8, <3>1, <4>1, <4>2, Advance
    <3> QED BY <2>1, <3>2
  <2> HIDE DEF pos
  <2>10. Extended(pos, Positions(sent, delivered'))
    BY <2>3, <2>4, <2>6, <2>9 DEF Extended
  <2> QED BY <2>9, <2>10 DEF pos
<1> QED BY <1>7, <1>8, <1>9, <1>10 DEF Receive

(* A frame has finitely many packets. *)
LEMMA FramePacketsFinite ==
  ASSUME NEW f, NEW k \in PacketCounts, NEW idr
  PROVE  IsFiniteSet(FramePackets(f, k, idr))
<1>1. k \in Nat /\ ParityCount(k) \in Nat
  BY SenderAssumption, WidthsAssumption DEF ParityCount
<1>2. IsFiniteSet(DataPackets(f, k, idr))
  <2> DEFINE packet(i) == [type |-> "data", sequence |-> sequence + i, frameNumber |-> f % FrameMod,
                           packetIndex |-> i % ByteMod, totalPackets |-> k % ByteMod, isIdr |-> idr,
                           payload |-> [frame |-> f, part |-> i, form |-> SentForm]]
             all == 0..(k - 1)
             fun == [i \in all |-> packet(i)]
  <2>1. DataPackets(f, k, idr) = {packet(i) : i \in all}
    BY DEF DataPackets
  <2> HIDE DEF packet
  <2>2. fun \in Surjection(all, {packet(i) : i \in all})
    BY DEF Surjection
  <2>3. IsFiniteSet(all)
    BY <1>1, FS_Interval
  <2> HIDE DEF all, fun
  <2> QED BY <2>1, <2>2, <2>3, FS_Surjection DEF ExistsSurjection
<1>3. IsFiniteSet(FecPackets(f, k))
  <2> DEFINE packet(p) == [type |-> "fec", sequence |-> sequence + k + p, fecGroupId |-> fecGroupId,
                           dataShards |-> k % ByteMod, parityShards |-> ParityCount(k) % ByteMod,
                           payload |-> [frame |-> f, part |-> p, form |-> SentForm]]
             all == 0..(ParityCount(k) - 1)
             fun == [p \in all |-> packet(p)]
  <2>1. FecPackets(f, k) = {packet(p) : p \in all}
    BY DEF FecPackets
  <2> HIDE DEF packet
  <2>2. fun \in Surjection(all, {packet(p) : p \in all})
    BY DEF Surjection
  <2>3. IsFiniteSet(all)
    BY <1>1, FS_Interval
  <2> HIDE DEF all, fun
  <2> QED BY <2>1, <2>2, <2>3, FS_Surjection DEF ExistsSurjection
<1> QED BY <1>2, <1>3, FS_Union DEF FramePackets

(* The packets of a new frame join those of earlier frames in order. *)
LEMMA SendNet ==
  ASSUME NoWrap, TransportInv, NetInv, NEW k \in PacketCounts, NEW idr \in BOOLEAN,
         HostSends(k, idr)
  PROVE  /\ NetInv'
         /\ \A p \in net' : p \in net \/ (p.type = "data" => p.payload.frame = Len(sent) + 1)
<1>0. PICK f \in Nat : f = Len(sent) + 1
  BY DEF TransportInv, TypeInv, TypeOK, SenderTypeOK
<1>1. /\ k \in Nat \ {0} /\ ParityCount(k) \in Nat /\ sequence \in Nat
      /\ k < ByteMod /\ ByteMod \in Nat \ {0}
      /\ sequence' = sequence + k + ParityCount(k)
      /\ net' = net \cup FramePackets(f, k, idr)
  BY <1>0, SenderAssumption, WidthsAssumption
  DEF ParityCount, NoWrap, HostSends, SendFrame, TransportInv, TypeInv, TypeOK, SenderTypeOK
<1>2. \A p \in DataPackets(f, k, idr) :
        \E i \in 0..(k - 1) :
          /\ p = [type |-> "data", sequence |-> sequence + i, frameNumber |-> f % FrameMod,
                  packetIndex |-> i % ByteMod, totalPackets |-> k % ByteMod, isIdr |-> idr,
                  payload |-> [frame |-> f, part |-> i, form |-> SentForm]]
          /\ i % ByteMod = i /\ k % ByteMod = k
  <2>1. \A i \in 0..(k - 1) : i % ByteMod = i
    BY <1>1
  <2>2. k % ByteMod = k
    BY <1>1
  <2> QED BY <2>1, <2>2 DEF DataPackets
<1>3. \A p \in DataPackets(f, k, idr) :
        /\ p.type = "data" /\ p.payload.frame = f
        /\ p.packetIndex \in 0..(k - 1) /\ p.totalPackets = k
        /\ p.sequence = sequence + p.packetIndex
  BY <1>2
<1>4. \A p \in FecPackets(f, k) :
        p.type = "fec" /\ \E i \in 0..(ParityCount(k) - 1) : p.sequence = sequence + k + i
  BY DEF FecPackets
<1>5. \A p \in net' : p \in net \/ p \in DataPackets(f, k, idr) \/ p \in FecPackets(f, k)
  BY <1>1 DEF FramePackets
<1>6. \A p \in net : /\ p.sequence \in Nat /\ p.sequence < sequence
                     /\ p.type = "data" => p.payload.frame \in Nat /\ p.payload.frame < f
  <2>1. \A p \in net : p.sequence \in Nat
    BY DEF TransportInv, TypeInv, TypeOK, NetTypeOK, Packet, DataPacket, FecPacket
  <2>2. \A p \in net : p.type = "data" => p.payload.frame \in 1..Len(sent)
    BY DEF TransportInv, NetGenuine, DataOf, IsPart
  <2>3. Len(sent) \in Nat
    BY DEF TransportInv, TypeInv, TypeOK, SenderTypeOK
  <2> QED BY <1>0, <2>1, <2>2, <2>3 DEF NetInv
<1>7. IsFiniteSet(net')
  BY <1>1, FramePacketsFinite, FS_Union DEF NetInv
<1>8. \A p \in net' : p.sequence < sequence'
  <2>1. \A p \in net : p.sequence < sequence'
    BY <1>1, <1>6
  <2>2. \A p \in DataPackets(f, k, idr) : p.sequence < sequence'
    BY <1>1, <1>3
  <2>3. \A p \in FecPackets(f, k) : p.sequence < sequence'
    BY <1>1, <1>4
  <2> QED BY <1>5, <2>1, <2>2, <2>3
<1>9. PartsApart(net')
  <2> SUFFICES ASSUME NEW p \in net', NEW q \in net', p.type = "data", q.type = "data",
                      p.payload.frame = q.payload.frame, p.packetIndex = q.packetIndex
               PROVE  p = q
    BY DEF PartsApart
  <2>1. CASE p \in net
    <3>1. q \in net
      BY <1>3, <1>4, <1>5, <1>6, <2>1
    <3> QED BY <2>1, <3>1 DEF NetInv, PartsApart
  <2>2. CASE p \in DataPackets(f, k, idr)
    <3>1. q \in DataPackets(f, k, idr)
      BY <1>3, <1>4, <1>5, <1>6, <2>2
    <3>2. PICK i \in 0..(k - 1) :
            /\ p = [type |-> "data", sequence |-> sequence + i, frameNumber |-> f % FrameMod,
                    packetIndex |-> i % ByteMod, totalPackets |-> k % ByteMod, isIdr |-> idr,
                    payload |-> [frame |-> f, part |-> i, form |-> SentForm]]
            /\ i % ByteMod = i
      BY <1>2, <2>2
    <3>3. PICK j \in 0..(k - 1) :
            /\ q = [type |-> "data", sequence |-> sequence + j, frameNumber |-> f % FrameMod,
                    packetIndex |-> j % ByteMod, totalPackets |-> k % ByteMod, isIdr |-> idr,
                    payload |-> [frame |-> f, part |-> j, form |-> SentForm]]
            /\ j % ByteMod = j
      BY <1>2, <3>1
    <3>4. i = j
      BY <3>2, <3>3
    <3> QED BY <3>2, <3>3, <3>4
  <2> QED BY <1>4, <1>5, <2>1, <2>2
<1>10. PartsWithin(net')
  BY <1>1, <1>3, <1>4, <1>5 DEF NetInv, PartsWithin
<1>11. FramesInOrder(net')
  <2> SUFFICES ASSUME NEW p \in net', NEW q \in net', p.type = "data", q.type = "data",
                      p.payload.frame < q.payload.frame
               PROVE  p.sequence < q.sequence
    BY DEF FramesInOrder
  <2>1. p \in net
    BY <1>3, <1>4, <1>5, <1>6
  <2>2. CASE q \in net
    BY <2>1, <2>2 DEF NetInv, FramesInOrder
  <2>3. CASE q \in DataPackets(f, k, idr)
    BY <1>1, <1>3, <1>6, <2>1, <2>3
  <2> QED BY <1>4, <1>5, <2>2, <2>3
<1>12. NetInv'
  BY <1>7, <1>8, <1>9, <1>10, <1>11 DEF NetInv, PartsApart, PartsWithin, FramesInOrder
<1> QED BY <1>0, <1>3, <1>4, <1>5, <1>12

(* Sending changes neither what the stream has received nor that only     *)
(* later frames are to come.                                               *)
LEMMA SendOrdered ==
  ASSUME NoWrap, TransportInv, OrderInv, TransportInv',
         NEW k \in PacketCounts, NEW idr \in BOOLEAN, HostSends(k, idr)
  PROVE  /\ OrderInv'
         /\ Positions(sent', delivered') = Positions(sent, delivered)
<1>0. PICK f \in Nat : f = Len(sent) + 1
  BY DEF TransportInv, TypeInv, TypeOK, SenderTypeOK
<1>1. /\ sent' = Append(sent, [count |-> k, idr |-> idr])
      /\ sent \in Seq([count : PacketCounts, idr : BOOLEAN])
      /\ delivered \in Seq(DeliveredRecord)
      /\ Len(sent) \in Nat /\ Len(sent) <= MaxFrames /\ Len(sent') <= MaxFrames
      /\ UNCHANGED <<current, delivered, dups>>
  BY DEF HostSends, SendFrame, TransportInv, TypeInv, TypeOK, SenderTypeOK, receiverVars
<1>2. /\ Len(sent') = f
      /\ \A g \in 1..Len(sent) : g \in 1..Len(sent') /\ sent'[g] = sent[g]
  BY <1>0, <1>1
<1> DEFINE pos == Positions(sent, delivered)
           pos2 == Positions(sent', delivered)
<1>3. pos2 = pos
  <2>1. /\ pos \in Seq(Nat) /\ Len(pos) = Len(delivered)
        /\ \A n \in 1..Len(delivered) : pos[n] = PositionIn(sent, delivered[n])
    BY <1>1, PositionsType
  <2>2. /\ pos2 \in Seq(Nat) /\ Len(pos2) = Len(delivered)
        /\ \A n \in 1..Len(delivered) : pos2[n] = PositionIn(sent', delivered[n])
    BY <1>0, <1>1, <1>2, PositionsType
  <2>3. ASSUME NEW n \in 1..Len(delivered)
        PROVE  PositionIn(sent, delivered[n]) = PositionIn(sent', delivered[n])
    <3> DEFINE d == delivered[n]
    <3>1. PICK g \in 1..Len(sent) :
            /\ d.frameNumber = g % FrameMod /\ d.isIdr = sent[g].idr
            /\ DOMAIN d.packets = 0..(sent[g].count - 1)
            /\ \A i \in 0..(sent[g].count - 1) : SlotOK(d.packets[i], g, i)
      BY DEF TransportInv, DeliveredWhole, WholeFrame
    <3> HIDE DEF d
    <3>2. PositionIn(sent, d) = g
      BY <1>1, <3>1, PositionIs
    <3>3. /\ d.isIdr = sent'[g].idr /\ g \in 1..Len(sent')
          /\ DOMAIN d.packets = 0..(sent'[g].count - 1)
          /\ \A i \in 0..(sent'[g].count - 1) : SlotOK(d.packets[i], g, i)
      BY <1>2, <3>1
    <3>4. Len(sent') \in Nat
      BY <1>2
    <3>5. PositionIn(sent', d) = g
      BY <1>1, <3>1, <3>3, <3>4, PositionIs
    <3> QED BY <3>2, <3>5 DEF d
  <2> HIDE DEF pos, pos2
  <2> QED BY <2>1, <2>2, <2>3, SeqEqual
<1>4. LastOf(pos) \in Nat /\ LastOf(pos) < f
  <2>1. /\ pos \in Seq(Nat) /\ Len(pos) = Len(delivered)
        /\ \A n \in 1..Len(delivered) : pos[n] \in 0..Len(sent)
    BY <1>1, PositionsType
  <2> HIDE DEF pos
  <2>2. pos # << >> => Len(pos) \in 1..Len(delivered)
    BY <2>1, EmptySeq
  <2> QED BY <1>0, <1>1, <2>1, <2>2 DEF LastOf
<1>5. /\ NetInv'
      /\ \A p \in net' : p \in net \/ (p.type = "data" => p.payload.frame = f)
  BY <1>0, SendNet DEF OrderInv
<1>6. Pending(current, pos, net) /\ Beyond(pos, net) /\ dups = 0
  BY DEF OrderInv
<1> HIDE DEF pos, pos2
<1>7. Beyond(pos, net')
  BY <1>4, <1>5, <1>6 DEF Beyond
<1>8. current.totalPackets # 0 =>
        \E c \in 1..Len(sent') :
          current.frameNumber = c % FrameMod /\ LastOf(pos) < c /\ Ahead(current, c, net')
  <2> SUFFICES ASSUME current.totalPackets # 0
               PROVE  \E c \in 1..Len(sent') :
                        /\ current.frameNumber = c % FrameMod
                        /\ LastOf(pos) < c /\ Ahead(current, c, net')
    OBVIOUS
  <2>1. PICK c \in 1..Len(sent) :
          current.frameNumber = c % FrameMod /\ LastOf(pos) < c /\ Ahead(current, c, net)
    BY <1>6 DEF Pending
  <2>2. c < f /\ f > c
    BY <1>0, <1>1
  <2>3. Ahead(current, c, net')
    BY <1>5, <2>1, <2>2 DEF Ahead
  <2> QED BY <1>2, <2>1, <2>3
<1>9. Positions(sent, delivered)' = pos
  BY <1>1, <1>3 DEF pos2
<1>10. Pending(current, Positions(sent, delivered), net)'
  BY <1>1, <1>8, <1>9 DEF Pending
<1>11. Beyond(Positions(sent, delivered), net)'
  BY <1>7, <1>9 DEF Beyond
<1> QED BY <1>1, <1>5, <1>6, <1>9, <1>10, <1>11 DEF OrderInv, pos

(* A packet that arrives or is lost leaves the rest in order. *)
LEMMA OrderLess ==
  ASSUME NetInv, net' \subseteq net, UNCHANGED sequence
  PROVE  NetInv'
BY FS_Subset DEF NetInv, PartsApart, PartsWithin, FramesInOrder

LEMMA ReceivedIs ==
  Received = Positions(sent, delivered) /\ Received' = Positions(sent, delivered)'
BY DEF Received, Positions, PositionOf, PositionIn, WholeFrame

(* Without reordering and duplication the video path is an in-order stream *)
(* of the frames sent: whatever is lost, repaired, rightly or not, and     *)
(* whenever the key takes effect, the decoder is given whole frames in the *)
(* order they were sent and none of them twice.                            *)
THEOREM ImplementsStream ==
  ASSUME NoWrap, MaxReorder = 0, MaxDup = 0 PROVE Spec => InOrderStream
<1> DEFINE pos == Positions(sent, delivered)
<1>1. Init => OrderInv /\ Stream!Init
  <2> SUFFICES ASSUME Init PROVE OrderInv /\ Stream!Init
    OBVIOUS
  <2>1. Len(delivered) = 0 /\ delivered \in Seq(DeliveredRecord) /\ Len(sent) = 0
    BY DEF Init, SenderInit, ReceiverInit
  <2>2. Positions(sent, delivered) = << >>
    <3>1. Positions(sent, delivered) \in Seq(Nat) /\ Len(Positions(sent, delivered)) = 0
      <4>1. Len(sent) \in Nat
        BY <2>1
      <4>2. /\ Positions(sent, delivered) \in Seq(Nat)
            /\ Len(Positions(sent, delivered)) = Len(delivered)
        BY <2>1, <4>1, PositionsType
      <4> QED BY <2>1, <4>2
    <3> QED BY <3>1, EmptySeq
  <2>3. NetInv
    BY FS_EmptySet DEF Init, NetInv, PartsApart, PartsWithin, FramesInOrder
  <2>4. Stream!Init
    BY <2>2, ReceivedIs DEF Stream!Init, Init, SenderInit
  <2> QED BY <2>3, <2>4 DEF Init, ReceiverInit, NoFrame, OrderInv, Pending, Beyond
<1>2. TransportInv /\ OrderInv /\ TransportInv' /\ [Next]_vars =>
        OrderInv' /\ [Stream!Next]_Stream!vars
  <2> SUFFICES ASSUME TransportInv, OrderInv, TransportInv', [Next]_vars
               PROVE  OrderInv' /\ [Stream!Next]_Stream!vars
    OBVIOUS
  <2>0. /\ Received = Positions(sent, delivered)
        /\ Received' = Positions(sent', delivered')
    BY ReceivedIs
  <2>1. ASSUME NEW k \in PacketCounts, NEW idr \in BOOLEAN, HostSends(k, idr)
        PROVE  OrderInv' /\ [Stream!Next]_Stream!vars
    <3>1. OrderInv' /\ Received' = Received
      BY <2>0, <2>1, SendOrdered
    <3>2. sent' = Append(sent, [count |-> k, idr |-> idr])
      BY <2>1 DEF HostSends, SendFrame
    <3>3. Stream!Send([count |-> k, idr |-> idr])
      BY <3>1, <3>2 DEF Stream!Send
    <3> QED BY <3>1, <3>3 DEF Stream!Next
  <2>2. ASSUME NEW p \in net, Arrive(p)
        PROVE  OrderInv' /\ [Stream!Next]_Stream!vars
    <3>1. /\ AtHead(p) /\ Receive(p) /\ net' = net \ {p}
          /\ UNCHANGED <<sent, sequence, dups>>
      BY <2>2 DEF Arrive, senderVars
    <3>2. /\ Extended(Positions(sent, delivered), Positions(sent, delivered'))
          /\ Pending(current', Positions(sent, delivered'), net')
          /\ Beyond(Positions(sent, delivered'), net')
      BY <3>1, ReceiveOrdered
    <3>3. NetInv' /\ dups' = 0
      BY <3>1, OrderLess DEF OrderInv
    <3>4. Pending(current, Positions(sent, delivered), net)'
      BY <3>1, <3>2 DEF Pending
    <3>5. Beyond(Positions(sent, delivered), net)'
      BY <3>1, <3>2
    <3>6. OrderInv'
      BY <3>3, <3>4, <3>5 DEF OrderInv
    <3>7. Extended(Received, Received')
      BY <2>0, <3>1, <3>2
    <3>8. Received \in Seq(Nat) /\ Stream!Last = LastOf(Received)
      <4>1. Len(sent) \in Nat /\ delivered \in Seq(DeliveredRecord)
        BY DEF TransportInv, TypeInv, TypeOK, SenderTypeOK
      <4> QED BY <2>0, <4>1, PositionsType DEF Stream!Last, LastOf
    <3>9. CASE Received' = Received
      BY <3>1, <3>6, <3>9 DEF Stream!vars
    <3>10. ASSUME NEW n \in 1..Len(sent), LastOf(Received) < n, Received' = Append(Received, n)
           PROVE  Stream!Next
      BY <3>1, <3>8, <3>10 DEF Stream!HandOver, Stream!Next
    <3>11. ASSUME NEW m \in 1..Len(sent), NEW n \in 1..Len(sent), LastOf(Received) < m, m < n,
                  Received' = Append(Append(Received, m), n)
           PROVE  Stream!Next
      <4>1. Append(Append(Received, m), n) = Received \o <<m, n>>
        BY <3>8
      <4> QED BY <3>1, <3>8, <3>11, <4>1 DEF Stream!HandOverTwo, Stream!Next
    <3> QED BY <3>6, <3>7, <3>9, <3>10, <3>11 DEF Extended
  <2>3. ASSUME UNCHANGED <<sent, sequence, current, delivered, dups>>, net' \subseteq net
        PROVE  OrderInv' /\ [Stream!Next]_Stream!vars
    <3>1. NetInv'
      BY <2>3, OrderLess DEF OrderInv
    <3>2. Received' = Received
      BY <2>0, <2>3
    <3>3. OrderInv'
      BY <2>3, <3>1 DEF OrderInv, Pending, Beyond, Ahead
    <3> QED BY <2>3, <3>2, <3>3 DEF Stream!vars
  <2>4. ASSUME NEW p \in net, ArriveAndRepeat(p)
        PROVE  FALSE
    BY <2>4 DEF ArriveAndRepeat, OrderInv
  <2>5. ASSUME NEW p \in net, Lose(p)
        PROVE  OrderInv' /\ [Stream!Next]_Stream!vars
    BY <2>3, <2>5 DEF Lose, senderVars, receiverVars
  <2>6. CASE InstallKey
    BY <2>3, <2>6 DEF InstallKey, AllocateCrypto, InitCrypto, InitCryptoFails, senderVars, netVars
  <2>7. CASE UNCHANGED vars
    BY <2>3, <2>7 DEF vars, senderVars, receiverVars, netVars
  <2> QED BY <2>1, <2>2, <2>4, <2>5, <2>6, <2>7, SenderAssumption DEF Next
<1> QED BY <1>1, <1>2, TransportInvariant, PTL DEF Spec, InOrderStream, Stream!Spec

------------------------------------------------------------------------------
LEMMA NetInvariant == ASSUME NoWrap PROVE Spec => []NetInv
<1>1. Init => NetInv
  BY FS_EmptySet DEF Init, NetInv, PartsApart, PartsWithin, FramesInOrder
<1>2. TransportInv /\ NetInv /\ [Next]_vars => NetInv'
  <2> SUFFICES ASSUME TransportInv, NetInv, [Next]_vars PROVE NetInv'
    OBVIOUS
  <2>1. ASSUME NEW k \in PacketCounts, NEW idr \in BOOLEAN, HostSends(k, idr)
        PROVE  NetInv'
    BY <2>1, SendNet
  <2>2. ASSUME NEW p \in net, Arrive(p) \/ ArriveAndRepeat(p) \/ Lose(p)
        PROVE  NetInv'
    BY <2>2, OrderLess DEF Arrive, ArriveAndRepeat, Lose, senderVars
  <2>3. CASE InstallKey
    BY <2>3, OrderLess DEF InstallKey, senderVars, netVars
  <2>4. CASE UNCHANGED vars
    BY <2>4, OrderLess DEF vars, senderVars, netVars
  <2> QED BY <2>1, <2>2, <2>3, <2>4, SenderAssumption DEF Next
<1> QED BY <1>1, <1>2, TransportInvariant, PTL DEF Spec

(* DeliveriesOf, of any sequence of frames. *)
DeliveriesIn(out, f) == {n \in 1..Len(out) : out[n].frameNumber = f % FrameMod}

(* The first packet of frame f is filled in fr, or in flight. *)
HasFirst(fr, f) == fr.frameNumber = f % FrameMod /\ 0 \in fr.received

FirstIn(N, f) == \E p \in N : p.type = "data" /\ p.payload.frame = f /\ p.packetIndex = 0

Bit(b) == IF b THEN 1 ELSE 0

(* Each delivery of a frame uses up a copy of its first packet. *)
CopiesInv ==
  \A f \in 1..Len(sent) :
    Cardinality(DeliveriesIn(delivered, f)) + Bit(HasFirst(current, f)) + Bit(FirstIn(net, f))
      <= 1 + dups

LEMMA DeliveriesFinite ==
  ASSUME NEW out \in Seq(DeliveredRecord), NEW f
  PROVE  IsFiniteSet(DeliveriesIn(out, f)) /\ Cardinality(DeliveriesIn(out, f)) \in Nat
<1>1. IsFiniteSet(1..Len(out))
  BY FS_Interval
<1>2. DeliveriesIn(out, f) \in SUBSET (1..Len(out))
  BY DEF DeliveriesIn
<1> QED BY <1>1, <1>2, FS_Subset, FS_CardinalityType

(* A delivery takes the first packet with it. *)
LEMMA DeliverCopies ==
  ASSUME NEW out \in Seq(DeliveredRecord), NEW fr, WellFormed(fr), fr.totalPackets # 0, NEW f
  PROVE  Cardinality(DeliveriesIn(Deliver(out, fr), f)) + Bit(HasFirst(Retained(fr), f))
           = Cardinality(DeliveriesIn(out, f)) + Bit(HasFirst(fr, f))
<1>1. CASE ~ IsComplete(fr)
  BY <1>1, DeliverIs DEF Retained
<1>2. CASE IsComplete(fr)
  <2> DEFINE after == Deliver(out, fr)
             len == Len(out)
             d == Assembled(fr)
  <2>1. /\ Len(after) = len + 1 /\ after[len + 1] = d /\ len \in Nat
        /\ \A n \in 1..len : after[n] = out[n]
        /\ fr.received = 0..(fr.totalPackets - 1)
        /\ d.frameNumber = fr.frameNumber
    BY <1>2, DeliverIs
  <2>2. 0 \in fr.received
    <3>1. fr.totalPackets \in Nat
      BY WidthsAssumption DEF WellFormed, Byte
    <3> QED BY <2>1, <3>1
  <2>3. ~ HasFirst(Retained(fr), f)
    BY <1>2 DEF Retained, NoFrame, HasFirst
  <2> HIDE DEF after, d
  <2>4. \A n : n \in 1..Len(after) <=> (n \in 1..len \/ n = len + 1)
    BY <2>1
  <2>5. CASE fr.frameNumber = f % FrameMod
    <3>1. DeliveriesIn(after, f) = DeliveriesIn(out, f) \cup {len + 1}
      BY <2>1, <2>4, <2>5 DEF DeliveriesIn
    <3>2. len + 1 \notin DeliveriesIn(out, f)
      BY <2>1 DEF DeliveriesIn
    <3>3. Cardinality(DeliveriesIn(after, f)) = Cardinality(DeliveriesIn(out, f)) + 1
      BY <3>1, <3>2, DeliveriesFinite, FS_AddElement
    <3>4. HasFirst(fr, f)
      BY <2>2, <2>5 DEF HasFirst
    <3>5. Bit(HasFirst(fr, f)) = 1 /\ Bit(HasFirst(Retained(fr), f)) = 0
      BY <2>3, <3>4 DEF Bit
    <3>6. Cardinality(DeliveriesIn(out, f)) \in Nat
      BY DeliveriesFinite
    <3> QED BY <3>3, <3>5, <3>6 DEF after
  <2>6. CASE fr.frameNumber # f % FrameMod
    <3>1. DeliveriesIn(after, f) = DeliveriesIn(out, f)
      BY <2>1, <2>4, <2>6 DEF DeliveriesIn
    <3>2. ~ HasFirst(fr, f)
      BY <2>6 DEF HasFirst
    <3>3. Bit(HasFirst(fr, f)) = 0 /\ Bit(HasFirst(Retained(fr), f)) = 0
      BY <2>3, <3>2 DEF Bit
    <3> QED BY <3>1, <3>3 DEF after
  <2> QED BY <2>5, <2>6
<1> QED BY <1>1, <1>2

(* Storing a packet adds a copy only if it is the frame's first. *)
LEMMA StoreCopies ==
  ASSUME NEW fr, WellFormed(fr), NEW p \in DataPacket, p.frameNumber = fr.frameNumber, NEW f
  PROVE  Bit(HasFirst(Store(fr, p), f))
           <= Bit(HasFirst(fr, f)) + Bit(p.frameNumber = f % FrameMod /\ p.packetIndex = 0)
<1>1. /\ Store(fr, p).frameNumber = fr.frameNumber
      /\ Store(fr, p).received \subseteq fr.received \cup {p.packetIndex}
  BY StoreIs
<1>2. HasFirst(Store(fr, p), f) =>
        HasFirst(fr, f) \/ (p.frameNumber = f % FrameMod /\ p.packetIndex = 0)
  BY <1>1 DEF HasFirst
<1> QED BY <1>2 DEF Bit

(* What a received packet adds to the copies of frame f delivered or       *)
(* pending: one, if it is the first of that frame.                         *)
LEMMA ReceiveCopies ==
  ASSUME NoWrap, TransportInv, NothingRebuilt, NEW p \in net, Receive(p), NEW f \in 1..Len(sent)
  PROVE  Cardinality(DeliveriesIn(delivered', f)) + Bit(HasFirst(current', f))
           <= Cardinality(DeliveriesIn(delivered, f)) + Bit(HasFirst(current, f))
              + Bit(p.payload.frame = f /\ p.packetIndex = 0)
<1> DEFINE stored == Store(current, p)
           started == Store(StartFrame(p), p)
           mine == Bit(p.payload.frame = f /\ p.packetIndex = 0)
<1>1. /\ WellFormed(current)
      /\ delivered \in Seq(DeliveredRecord)
      /\ p \in DataPacket
      /\ Len(sent) \in Nat /\ Len(sent) <= MaxFrames /\ MaxFrames \in Nat
  BY SenderAssumption
  DEF TransportInv, TypeInv, TypeOK, ReceiverTypeOK, NetTypeOK, SenderTypeOK, NothingRebuilt,
      Packet, FecPacket
<1>2. PICK g \in 1..Len(sent) : DataOf(p, g)
  BY DEF TransportInv, NetGenuine, NothingRebuilt
<1>3. p.payload.frame = g /\ p.frameNumber = g % FrameMod
  BY <1>2 DEF DataOf, IsPart
<1>4. (p.frameNumber = f % FrameMod) <=> (p.payload.frame = f)
  <2>1. f \in 1..MaxFrames /\ g \in 1..MaxFrames
    BY <1>1
  <2> QED BY <1>3, <2>1, NumbersDistinct
<1>5. mine = Bit(p.frameNumber = f % FrameMod /\ p.packetIndex = 0)
  BY <1>4 DEF Bit
<1>6. \A b : Bit(b) \in {0, 1}
  BY DEF Bit
<1>7. Cardinality(DeliveriesIn(delivered, f)) \in Nat
  BY <1>1, DeliveriesFinite
<1>8. p.totalPackets # 0
  <2>1. sent \in Seq([count : PacketCounts, idr : BOOLEAN])
    BY DEF TransportInv, TypeInv, TypeOK, SenderTypeOK
  <2>2. sent[g] \in [count : PacketCounts, idr : BOOLEAN]
    <3> DEFINE X == [count : PacketCounts, idr : BOOLEAN]
    <3>1. sent \in Seq(X)
      BY <2>1
    <3> HIDE DEF X
    <3>2. sent[g] \in X
      BY <3>1
    <3> QED BY <3>2 DEF X
  <2>3. sent[g].count \in PacketCounts
    BY <2>2
  <2> QED BY <1>2, <2>3, SenderAssumption DEF DataOf
<1> HIDE DEF mine
<1>9. CASE ReceiveUndecryptable(p)
  <2>1. current' = current /\ delivered' = delivered
    BY <1>9 DEF ReceiveUndecryptable, receiverVars
  <2>2. mine \in {0, 1}
    BY <1>6 DEF mine
  <2> QED BY <1>6, <1>7, <2>1, <2>2 DEF mine
<1>10. CASE ReceiveForCurrent(p)
  <2>1. /\ current' = Retained(stored) /\ delivered' = Deliver(delivered, stored)
        /\ IsOfCurrent(p)
    BY <1>10 DEF ReceiveForCurrent
  <2>2. WellFormed(stored) /\ stored.totalPackets # 0
    BY <1>1, <2>1, StoreIs DEF IsOfCurrent
  <2>3. Bit(HasFirst(stored, f)) <= Bit(HasFirst(current, f)) + mine
    BY <1>1, <1>5, <2>1, StoreCopies DEF IsOfCurrent
  <2> HIDE DEF stored, started
  <2>4. Cardinality(DeliveriesIn(delivered', f)) + Bit(HasFirst(current', f))
          = Cardinality(DeliveriesIn(delivered, f)) + Bit(HasFirst(stored, f))
    BY <1>1, <2>1, <2>2, DeliverCopies
  <2>5. mine \in {0, 1}
    BY <1>6 DEF mine
  <2> QED BY <1>6, <1>7, <2>3, <2>4, <2>5 DEF mine
<1>11. CASE ReceiveForNext(p)
  <2>1. current' = Retained(started) /\ delivered' = Deliver(delivered, started)
    BY <1>11 DEF ReceiveForNext
  <2>2. /\ WellFormed(StartFrame(p)) /\ StartFrame(p).frameNumber = p.frameNumber
        /\ StartFrame(p).totalPackets # 0 /\ StartFrame(p).received = {}
    BY <1>1, <1>8, StartIs
  <2>3. WellFormed(started) /\ started.totalPackets # 0
    BY <1>1, <2>2, StoreIs
  <2>4. Bit(HasFirst(StartFrame(p), f)) = 0
    BY <2>2 DEF Bit, HasFirst
  <2>5. Bit(HasFirst(started, f)) <= Bit(HasFirst(StartFrame(p), f)) + mine
    BY <1>1, <1>5, <2>2, StoreCopies
  <2> HIDE DEF stored, started
  <2>6. Cardinality(DeliveriesIn(delivered', f)) + Bit(HasFirst(current', f))
          = Cardinality(DeliveriesIn(delivered, f)) + Bit(HasFirst(started, f))
    BY <1>1, <2>1, <2>3, DeliverCopies
  <2>7. mine \in {0, 1}
    BY <1>6 DEF mine
  <2> QED BY <1>6, <1>7, <2>4, <2>5, <2>6, <2>7 DEF mine
<1>12. ~ ReceiveAndRecover(p)
  BY DEF NothingRebuilt, UsableStates, Usable, ReceiveAndRecover
<1>13. ~ ReceiveFec(p)
  BY DEF ReceiveFec, NothingRebuilt
<1> QED BY <1>9, <1>10, <1>11, <1>12, <1>13 DEF Receive

(* Without FEC a frame reaches the decoder once, and once more for each    *)
(* packet the network repeats, however packets are lost and overtaken and  *)
(* whenever the key takes effect.                                          *)
THEOREM CopiesBounded ==
  ASSUME NoWrap, FecPercent = 0
  PROVE  Spec => []DeliveredAtMostCopies
<1>0. /\ \A b : Bit(b) \in {0, 1}
      /\ Bit(TRUE) = 1 /\ Bit(FALSE) = 0
  BY DEF Bit
<1>1. Init => CopiesInv
  BY DEF Init, SenderInit, CopiesInv
<1>2. TransportInv /\ NetInv /\ NothingRebuilt /\ TransportInv' /\ CopiesInv /\ [Next]_vars
        => CopiesInv'
  <2> SUFFICES ASSUME TransportInv, NetInv, NothingRebuilt, TransportInv', CopiesInv, [Next]_vars
               PROVE  CopiesInv'
    OBVIOUS
  <2>0. /\ dups \in Nat /\ delivered \in Seq(DeliveredRecord)
        /\ Len(sent) \in Nat /\ Len(sent') <= MaxFrames /\ MaxFrames \in Nat
    BY SenderAssumption DEF TransportInv, TypeInv, TypeOK, NetTypeOK, SenderTypeOK
  <2>1. ASSUME NEW k \in PacketCounts, NEW idr \in BOOLEAN, HostSends(k, idr)
        PROVE  CopiesInv'
    <3>1. /\ sent' = Append(sent, [count |-> k, idr |-> idr])
          /\ sent \in Seq([count : PacketCounts, idr : BOOLEAN])
          /\ UNCHANGED <<current, delivered, dups>>
      BY <2>1 DEF HostSends, SendFrame, receiverVars, TransportInv, TypeInv, TypeOK, SenderTypeOK
    <3>2. Len(sent') = Len(sent) + 1
      BY <3>1
    <3>3. \A p \in net' : p \in net \/ (p.type = "data" => p.payload.frame = Len(sent) + 1)
      BY <2>1, SendNet
    <3>4. ASSUME NEW f \in 1..Len(sent)
          PROVE  Cardinality(DeliveriesIn(delivered, f)) + Bit(HasFirst(current, f))
                   + Bit(FirstIn(net', f)) <= 1 + dups
      <4>1. Bit(FirstIn(net', f)) <= Bit(FirstIn(net, f))
        <5>1. f # Len(sent) + 1
          BY <2>0
        <5>2. FirstIn(net', f) => FirstIn(net, f)
          BY <3>3, <5>1 DEF FirstIn
        <5> QED BY <5>2 DEF Bit
      <4>2. Cardinality(DeliveriesIn(delivered, f)) \in Nat
        BY <2>0, DeliveriesFinite
      <4> QED BY <1>0, <2>0, <4>1, <4>2 DEF CopiesInv
    <3>5. ASSUME NEW f \in Nat, f = Len(sent) + 1
          PROVE  Cardinality(DeliveriesIn(delivered, f)) + Bit(HasFirst(current, f))
                   + Bit(FirstIn(net', f)) <= 1 + dups
      <4>1. ASSUME NEW g \in 1..Len(sent) PROVE g % FrameMod # f % FrameMod
        <5>1. f \in 1..MaxFrames /\ g \in 1..MaxFrames /\ f # g
          BY <2>0, <3>2, <3>5
        <5> QED BY <5>1, NumbersDistinct
      <4>2. DeliveriesIn(delivered, f) = {}
        BY <4>1 DEF DeliveriesIn, TransportInv, DeliveredWhole, WholeFrame
      <4>3. ~ HasFirst(current, f)
        <5>1. WellFormed(current)
          BY DEF TransportInv, TypeInv, TypeOK, ReceiverTypeOK
        <5>2. 0 \in current.received => current.totalPackets # 0
          BY <5>1, WidthsAssumption DEF WellFormed, PendingFrame, Byte
        <5> QED BY <4>1, <5>2 DEF HasFirst, TransportInv, ReassemblyConsistent
      <4>4. Cardinality(DeliveriesIn(delivered, f)) = 0
        BY <4>2, FS_EmptySet
      <4>5. Bit(HasFirst(current, f)) = 0
        BY <4>3 DEF Bit
      <4> QED BY <1>0, <2>0, <4>4, <4>5
    <3>6. \A f \in 1..Len(sent') : f \in 1..Len(sent) \/ f = Len(sent) + 1
      BY <2>0, <3>2
    <3>7. \A f \in 1..Len(sent') :
            Cardinality(DeliveriesIn(delivered, f)) + Bit(HasFirst(current, f))
              + Bit(FirstIn(net', f)) <= 1 + dups
      BY <2>0, <3>4, <3>5, <3>6
    <3> QED BY <3>1, <3>7 DEF CopiesInv, DeliveriesIn, HasFirst, FirstIn
  <2>2. ASSUME NEW p \in net, Receive(p), sent' = sent,
               \/ net' = net \ {p} /\ dups' = dups
               \/ net' = net /\ dups' = dups + 1
        PROVE  CopiesInv'
    <3> SUFFICES ASSUME NEW f \in 1..Len(sent)
                 PROVE  Cardinality(DeliveriesIn(delivered', f)) + Bit(HasFirst(current', f))
                          + Bit(FirstIn(net', f)) <= 1 + dups'
      BY <2>2 DEF CopiesInv, DeliveriesIn, HasFirst, FirstIn
    <3> DEFINE mine == Bit(p.payload.frame = f /\ p.packetIndex = 0)
    <3>1. Cardinality(DeliveriesIn(delivered', f)) + Bit(HasFirst(current', f))
            <= Cardinality(DeliveriesIn(delivered, f)) + Bit(HasFirst(current, f)) + mine
      BY <2>2, ReceiveCopies
    <3>2. Cardinality(DeliveriesIn(delivered, f)) + Bit(HasFirst(current, f)) + Bit(FirstIn(net, f))
            <= 1 + dups
      BY DEF CopiesInv
    <3>3. mine \in {0, 1}
      BY <1>0
    <3>4. p.type = "data"
      BY DEF NothingRebuilt
    <3>5. net' = net \ {p} => Bit(FirstIn(net', f)) + mine <= Bit(FirstIn(net, f))
      <4> SUFFICES ASSUME net' = net \ {p}
                   PROVE  Bit(FirstIn(net', f)) + mine <= Bit(FirstIn(net, f))
        OBVIOUS
      <4>1. CASE p.payload.frame = f /\ p.packetIndex = 0
        <5>1. FirstIn(net, f)
          BY <3>4, <4>1 DEF FirstIn
        <5>2. ~ FirstIn(net', f)
          BY <3>4, <4>1 DEF FirstIn, NetInv, PartsApart
        <5>3. Bit(FirstIn(net, f)) = 1 /\ Bit(FirstIn(net', f)) = 0
          BY <5>1, <5>2 DEF Bit
        <5> QED BY <3>3, <5>3
      <4>2. CASE ~ (p.payload.frame = f /\ p.packetIndex = 0)
        <5>1. FirstIn(net', f) => FirstIn(net, f)
          BY DEF FirstIn
        <5>2. mine = 0
          BY <4>2 DEF Bit
        <5>3. Bit(FirstIn(net', f)) <= Bit(FirstIn(net, f))
          BY <5>1 DEF Bit
        <5> HIDE DEF mine
        <5> QED BY <1>0, <5>2, <5>3
      <4> QED BY <4>1, <4>2
    <3>6. /\ Cardinality(DeliveriesIn(delivered, f)) \in Nat
          /\ Cardinality(DeliveriesIn(delivered', f)) \in Nat
      <4>1. delivered' \in Seq(DeliveredRecord)
        BY DEF TransportInv, TypeInv
      <4> QED BY <2>0, <4>1, DeliveriesFinite
    <3> HIDE DEF mine
    <3>7. CASE net' = net \ {p} /\ dups' = dups
      BY <1>0, <2>0, <3>1, <3>2, <3>3, <3>5, <3>6, <3>7
    <3>8. CASE net' = net /\ dups' = dups + 1
      BY <1>0, <2>0, <3>1, <3>2, <3>3, <3>6, <3>8
    <3> QED BY <2>2, <3>7, <3>8
  <2>3. ASSUME NEW p \in net, Arrive(p) \/ ArriveAndRepeat(p)
        PROVE  CopiesInv'
    BY <2>2, <2>3 DEF Arrive, ArriveAndRepeat, senderVars
  <2>4. ASSUME UNCHANGED <<sent, current, delivered, dups>>, net' \subseteq net
        PROVE  CopiesInv'
    <3> SUFFICES ASSUME NEW f \in 1..Len(sent)
                 PROVE  Cardinality(DeliveriesIn(delivered, f)) + Bit(HasFirst(current, f))
                          + Bit(FirstIn(net', f)) <= 1 + dups
      BY <2>4 DEF CopiesInv, DeliveriesIn, HasFirst, FirstIn
    <3>1. FirstIn(net', f) => FirstIn(net, f)
      BY <2>4 DEF FirstIn
    <3>2. Bit(FirstIn(net', f)) <= Bit(FirstIn(net, f))
      BY <3>1 DEF Bit
    <3>3. Cardinality(DeliveriesIn(delivered, f)) \in Nat
      BY <2>0, DeliveriesFinite
    <3> QED BY <1>0, <2>0, <3>2, <3>3 DEF CopiesInv
  <2>5. ASSUME NEW p \in net, Lose(p)
        PROVE  CopiesInv'
    BY <2>4, <2>5 DEF Lose, senderVars, receiverVars
  <2>6. CASE InstallKey
    BY <2>4, <2>6 DEF InstallKey, AllocateCrypto, InitCrypto, InitCryptoFails, senderVars, netVars
  <2>7. CASE UNCHANGED vars
    BY <2>4, <2>7 DEF vars, senderVars, receiverVars, netVars
  <2> QED BY <2>1, <2>3, <2>5, <2>6, <2>7, SenderAssumption DEF Next
<1>3. TransportInv /\ CopiesInv => DeliveredAtMostCopies
  <2> SUFFICES ASSUME TransportInv, CopiesInv, NEW f \in 1..Len(sent)
               PROVE  Cardinality(DeliveriesOf(f)) <= 1 + dups
    BY DEF DeliveredAtMostCopies
  <2>1. dups \in Nat /\ delivered \in Seq(DeliveredRecord)
    BY DEF TransportInv, TypeInv, TypeOK, NetTypeOK
  <2>2. Cardinality(DeliveriesIn(delivered, f)) \in Nat
    BY <2>1, DeliveriesFinite
  <2>3. DeliveriesOf(f) = DeliveriesIn(delivered, f)
    BY DEF DeliveriesOf, DeliveriesIn
  <2> QED BY <1>0, <2>1, <2>2, <2>3 DEF CopiesInv
<1> QED
  BY <1>1, <1>2, <1>3, TransportInvariant, NetInvariant, NothingRebuiltInvariant, PTL DEF Spec

------------------------------------------------------------------------------
(* A parity packet names the group of its frame, its count and its parity. *)
ParityOf(p, f) ==
  /\ p.payload.frame = f
  /\ p.fecGroupId = (f - 1) % GroupMod
  /\ p.dataShards = sent[f].count
  /\ p.parityShards = ParityCount(sent[f].count)
  /\ p.payload.part < p.parityShards

(* A state that is in use was announced last by a frame whose parity goes   *)
(* to it; it holds a shard of that frame, and none of a later one.          *)
Announced(fs, g) ==
  fs.isRs =>
    \E h \in 1..Len(sent) :
      /\ ParitySlot(h) = g
      /\ fs.dataShards = sent[h].count
      /\ fs.parityShards = ParityCount(sent[h].count)
      /\ \E q \in fs.parity : q.frame = h
      /\ \A q \in fs.parity : q.frame <= h

(* In use or not, a state holds shards of frames whose parity goes to it.   *)
ShardsOf(fs, g) ==
  /\ \A q \in fs.parity : q.form = "plain" /\ q.frame \in 1..Len(sent) /\ ParitySlot(q.frame) = g
  /\ \A q, r \in fs.parity : q.part = r.part => q = r

(* Shard part of frame f is in N, or in its state unless a later frame's is. *)
Kept(N, states, f, part) ==
  \/ \E p \in N : p.type = "fec" /\ p.payload.frame = f /\ p.payload.part = part
  \/ \E q \in states[ParitySlot(f)].parity : q.part = part /\ q.frame >= f

(* Nothing is encrypted in transit, and nothing pending was rebuilt. *)
ClearInv ==
  /\ crypto = "none"
  /\ \A p \in net : p.payload.form = "plain"
  /\ \A i \in current.received : current.packets[i].form = "plain"

ParityInv ==
  /\ fecGroupId = Len(sent) % GroupMod
  /\ \A p \in net : p.type = "fec" => \E f \in 1..Len(sent) : ParityOf(p, f)
  /\ \A g \in 0..(RingSize - 1) : Announced(fecStates[g], g) /\ ShardsOf(fecStates[g], g)
  /\ \A f \in 1..Len(sent) : \A part \in 0..(ParityCount(sent[f].count) - 1) :
       Kept(net \cup lost, fecStates, f, part)

(* The packets of a later frame follow those of an earlier one. *)
SequenceInv ==
  /\ \A p \in net : p.payload.frame \in 1..Len(sent)
  /\ \A p, q \in net : p.payload.frame < q.payload.frame => p.sequence < q.sequence

(* What the receiver holds is of no later frame than what is in flight.     *)
CurrentBehind(fr, N) ==
  fr.totalPackets # 0 =>
    \E c \in 1..Len(sent) : fr.frameNumber = c % FrameMod /\ \A p \in N : c <= p.payload.frame

ShardsBehind(states, N) ==
  \A g \in 0..(RingSize - 1) : \A q \in states[g].parity, p \in N : q.frame <= p.payload.frame

RepairInv ==
  /\ ClearInv
  /\ ParityInv
  /\ SequenceInv
  /\ CurrentBehind(current, net)
  /\ ShardsBehind(fecStates, net)

(* The packet at the head of the network leaves no earlier frame's behind. *)
LEMMA HeadIsFirst ==
  ASSUME TransportInv, NetInv, SequenceInv, MaxReorder = 0, NEW p \in net, AtHead(p)
  PROVE  /\ p.payload.frame \in Nat
         /\ \A q \in net : q.payload.frame \in Nat /\ p.payload.frame <= q.payload.frame
<1>1. \A q \in net : q.payload.frame \in Nat
  BY DEF TransportInv, TypeInv, TypeOK, SenderTypeOK, SequenceInv
<1>2. \A q \in net : ~ (q.sequence < p.sequence)
  BY NothingOvertaken
<1>3. \A q \in net : ~ (q.payload.frame < p.payload.frame)
  BY <1>2 DEF SequenceInv
<1> QED BY <1>1, <1>3

(* A frame without a rebuilt slot is clean. *)
LEMMA CleanParts ==
  ASSUME NEW fr, WellFormed(fr), NEW f, PartsOf(fr, f), IsComplete(fr),
         NEW out \in Seq(DeliveredRecord)
  PROVE  ~ HasCorrupt(Assembled(fr))
<1>1. /\ DOMAIN Assembled(fr).packets = fr.received
      /\ Assembled(fr).packets = fr.packets
  BY DeliverIs
<1> QED BY <1>1 DEF HasCorrupt, PartsOf, IsPart

(* What recovery makes of a frame f is whole, and rebuilt as it was sent    *)
(* if every shard used is of f.                                             *)
LEMMA RepairedIs ==
  ASSUME TypeInv, ClearInv, IsPartial(current), NEW f \in 1..Len(sent), PartsOf(current, f),
         NEW g \in 0..(RingSize - 1), ShardsOf(fecStates[g], g)
  PROVE  LET d == Assembled(Recovered(current, fecStates[g]))
         IN  /\ WholeFrame(d, f)
             /\ HasCorrupt(d) => \E q \in UsedParity(current, fecStates[g]) : q.frame # f
<1> DEFINE fs == fecStates[g]
           re == Recovered(current, fs)
           d == Assembled(re)
<1>1. WellFormed(current) /\ ShardsOf(fs, g)
  BY DEF TypeInv, TypeOK, ReceiverTypeOK
<1> HIDE DEF fs
<1>2. /\ WellFormed(re) /\ IsComplete(re)
      /\ re.frameNumber = current.frameNumber
      /\ re.totalPackets = current.totalPackets
      /\ re.isIdr = current.isIdr
      /\ re.received = 0..(current.totalPackets - 1)
      /\ (CHOOSE j \in current.received : TRUE) \in current.received
      /\ \A i \in current.received : re.packets[i] = current.packets[i]
      /\ \A i \in (0..(current.totalPackets - 1)) \ current.received :
           re.packets[i] = Rebuilt(current, fs, i)
  BY <1>1, RecoveredIs
<1> HIDE DEF re
<1>3. /\ DOMAIN d.packets = 0..(current.totalPackets - 1)
      /\ d.packets = re.packets
      /\ d.frameNumber = current.frameNumber
      /\ d.isIdr = current.isIdr
  <2>1. delivered \in Seq(DeliveredRecord)
    BY DEF TypeInv
  <2>2. /\ DOMAIN Assembled(re).packets = re.received
        /\ Assembled(re).packets = re.packets
        /\ Assembled(re).frameNumber = re.frameNumber
        /\ Assembled(re).isIdr = re.isIdr
    <3>1. WellFormed(re) /\ IsComplete(re)
      BY <1>2
    <3> QED BY <2>1, <3>1, DeliverIs
  <2> QED BY <1>2, <2>2
<1>4. WholeFrame(d, f)
  BY <1>3 DEF WholeFrame, PartsOf, SlotsOf
<1> HIDE DEF d
<1>5. ASSUME HasCorrupt(d)
      PROVE  ~ SameEncoding(current, fs)
  <2>1. PICK i \in 0..(current.totalPackets - 1) : re.packets[i].form = "corrupt"
    BY <1>3, <1>5 DEF HasCorrupt
  <2>2. i \notin current.received
    BY <1>2, <2>1 DEF ClearInv
  <2>3. Rebuilt(current, fs, i).form = "corrupt"
    BY <1>2, <2>1, <2>2
  <2> DEFINE c == CHOOSE j \in current.received : TRUE
  <2>4. current.packets[c].form = "plain"
    BY <1>2 DEF ClearInv
  <2>5. ASSUME SameEncoding(current, fs)
        PROVE  Rebuilt(current, fs, i).form \in {"padded", "plain"}
    BY <2>4, <2>5 DEF Rebuilt
  <2> HIDE DEF c
  <2> QED BY <2>3, <2>5
<1>6. ASSUME ~ SameEncoding(current, fs)
      PROVE  \E q \in UsedParity(current, fs) : q.frame # f
  <2>1. PICK i \in current.received, q \in UsedParity(current, fs) :
          ~ (q.frame = current.packets[i].frame /\ q.form = current.packets[i].form)
    BY <1>6 DEF SameEncoding
  <2>2. q \in fs.parity
    BY <2>1 DEF UsedParity, Available
  <2>3. q.form = "plain" /\ current.packets[i].form = "plain"
    BY <1>1, <2>1, <2>2 DEF ShardsOf, ClearInv
  <2>4. current.packets[i].frame = f
    BY <2>1 DEF PartsOf, IsPart
  <2> QED BY <2>1, <2>3, <2>4
<1> QED BY <1>4, <1>5, <1>6 DEF d, re, fs

(* A repair that goes wrong uses a leftover: the announcement names either  *)
(* another frame of the right count, or this one, and then the shard that   *)
(* is not its own stands where its own was lost.                            *)
LEMMA RepairLeftover ==
  ASSUME NoWrap, TransportInv, RepairInv, IsPartial(current), UsableStates(current) # {},
         NEW f \in 1..Len(sent), PartsOf(current, f), \A p \in net : f < p.payload.frame,
         HasCorrupt(Assembled(Recovered(current, fecStates[FirstUsable(current)])))
  PROVE  UsesLeftover(Assembled(Recovered(current, fecStates[FirstUsable(current)])))
<1> DEFINE g == FirstUsable(current)
           fs == fecStates[g]
           d == Assembled(Recovered(current, fs))
<1> SUFFICES UsesLeftover(d)
  OBVIOUS
<1>1. g \in 0..(RingSize - 1) /\ Usable(current, fs)
  BY FirstUsableIs
<1>2. TypeInv /\ ClearInv /\ Announced(fs, g) /\ ShardsOf(fs, g)
  BY <1>1 DEF TransportInv, RepairInv, ParityInv
<1>3. WholeFrame(d, f) /\ (HasCorrupt(d) => \E q \in UsedParity(current, fs) : q.frame # f)
  <2> HIDE DEF g
  <2> QED BY <1>1, <1>2, RepairedIs
<1>4. PICK q \in UsedParity(current, fs) : q.frame # f
  BY <1>3
<1> HIDE DEF g, fs, d
<1>5. q \in fs.parity /\ q.part < fs.parityShards
  BY <1>4 DEF UsedParity, Available
<1>6. PICK h \in 1..Len(sent) :
        /\ ParitySlot(h) = g
        /\ fs.dataShards = sent[h].count
        /\ fs.parityShards = ParityCount(sent[h].count)
        /\ \E r \in fs.parity : r.frame = h
        /\ \A r \in fs.parity : r.frame <= h
  BY <1>1, <1>2 DEF Usable, Announced
<1>7. sent[h].count = sent[f].count
  BY <1>1, <1>6 DEF Usable, PartsOf, SlotsOf
<1>8. ASSUME NEW r \in fs.parity, r.frame # f,
             \/ sent[r.frame].count = sent[f].count
             \/ r \in UsedParity(current, fs) /\ r.frame < f /\ g = ParitySlot(f) /\ LostShard(f, r.part)
      PROVE  UsesLeftover(d)
  BY <1>3, <1>8 DEF UsesLeftover, g, fs
<1>9. CASE h # f
  BY <1>6, <1>7, <1>8, <1>9
<1>10. CASE h = f
  <2>1. Len(sent) \in Nat /\ q.frame \in 1..Len(sent) /\ q.frame <= f
    BY <1>2, <1>5, <1>6, <1>10 DEF ShardsOf, TransportInv, TypeInv, TypeOK, SenderTypeOK
  <2>2. q.frame < f
    BY <1>4, <2>1
  <2>3. q.part \in 0..(ParityCount(sent[f].count) - 1)
    <3>1. fs \in FecState /\ q \in Payload
      BY <1>1, <1>5 DEF TransportInv, TypeInv, TypeOK, ReceiverTypeOK, FecState, fs
    <3>2. q.part \in Nat /\ fs.parityShards \in Nat
      BY <3>1, WidthsAssumption DEF FecState, Payload, Byte
    <3> QED BY <1>5, <1>6, <1>10, <3>2
  <2>4. Kept(net \cup lost, fecStates, f, q.part)
    BY <2>3 DEF RepairInv, ParityInv
  <2>5. CASE \E p \in net \cup lost : p.type = "fec" /\ p.payload.frame = f /\ p.payload.part = q.part
    <3>1. PICK p \in net \cup lost : p.type = "fec" /\ p.payload.frame = f /\ p.payload.part = q.part
      BY <2>5
    <3>2. p \notin net
      BY <2>1, <3>1
    <3>3. LostShard(f, q.part)
      BY <3>1, <3>2 DEF LostShard, LostParity
    <3> QED BY <1>4, <1>5, <1>6, <1>8, <1>10, <2>2, <3>3
  <2>6. CASE \E r \in fecStates[ParitySlot(f)].parity : r.part = q.part /\ r.frame >= f
    <3>1. PICK r \in fs.parity : r.part = q.part /\ r.frame >= f
      BY <1>6, <1>10, <2>6 DEF fs
    <3>2. r = q
      BY <1>2, <1>5, <3>1 DEF ShardsOf
    <3> QED BY <2>1, <2>2, <3>1, <3>2
  <2> QED BY <2>4, <2>5, <2>6 DEF Kept
<1> QED BY <1>9, <1>10

(* Of all the ways to receive a packet only a repair hands over a frame     *)
(* with a corrupt slot.                                                     *)
LEMMA ReceiveLeftover ==
  ASSUME NoWrap, MaxReorder = 0, TransportInv, NetInv, RepairInv,
         NEW p \in net, AtHead(p), Receive(p)
  PROVE  \A n \in HandedOver : HasCorrupt(delivered'[n]) => UsesLeftover(delivered'[n])
<1> DEFINE stored == Store(current, p)
           started == Store(StartFrame(p), p)
<1>1. /\ WellFormed(current) /\ delivered \in Seq(DeliveredRecord) /\ p \in Packet
      /\ ConsistentFrame(current)
      /\ Len(delivered) \in Nat
      /\ Len(sent) \in Nat /\ Len(sent) <= MaxFrames /\ MaxFrames \in Nat
  BY SenderAssumption
  DEF TransportInv, TypeInv, TypeOK, ReceiverTypeOK, NetTypeOK, SenderTypeOK, ReassemblyConsistent,
      ConsistentFrame, PartsOf, SlotsOf, SlotOK
<1>2. ASSUME NEW out \in Seq(DeliveredRecord), NEW fr, WellFormed(fr), NEW f, PartsOf(fr, f),
             NEW n \in (Len(out) + 1)..Len(Deliver(out, fr))
      PROVE  ~ HasCorrupt(Deliver(out, fr)[n])
  <2>1. CASE ~ IsComplete(fr)
    <3>1. Deliver(out, fr) = out
      BY <1>2, <2>1, DeliverIs
    <3> QED BY <1>2, <3>1
  <2>2. CASE IsComplete(fr)
    <3>1. /\ Len(Deliver(out, fr)) = Len(out) + 1
          /\ Deliver(out, fr)[Len(out) + 1] = Assembled(fr)
      BY <1>2, <2>2, DeliverIs
    <3>2. ~ HasCorrupt(Assembled(fr))
      BY <1>2, <2>2, CleanParts
    <3>3. n = Len(out) + 1
      BY <1>2, <3>1
    <3> QED BY <3>1, <3>2, <3>3
  <2> QED BY <2>1, <2>2
<1>3. ASSUME p.type = "data"
      PROVE  \E f \in 1..Len(sent) :
               p \in DataPacket /\ DataOf(p, f) /\ WellFormed(started) /\ PartsOf(started, f)
  <2>1. p \in DataPacket
    BY <1>1, <1>3 DEF Packet, FecPacket
  <2>2. PICK f \in 1..Len(sent) : DataOf(p, f)
    BY <1>3 DEF TransportInv, NetGenuine
  <2>3. WellFormed(started) /\ PartsOf(started, f)
    BY <2>1, <2>2, StartWellFormed, StartParts, StoreWellFormed, StoreParts
  <2> QED BY <2>1, <2>2, <2>3
<1>4. CASE ReceiveUndecryptable(p) \/ ReceiveFec(p)
  <2>1. delivered' = delivered
    BY <1>4 DEF ReceiveUndecryptable, ReceiveFec, receiverVars
  <2> QED BY <1>1, <2>1 DEF HandedOver
<1>5. CASE ReceiveForCurrent(p)
  <2>1. p.type = "data" /\ IsOfCurrent(p) /\ delivered' = Deliver(delivered, stored)
    BY <1>5 DEF ReceiveForCurrent
  <2>2. PICK f \in 1..Len(sent) : p \in DataPacket /\ DataOf(p, f)
    BY <1>3, <2>1
  <2>3. PICK c \in 1..Len(sent) : PartsOf(current, c)
    BY <1>1, <2>1 DEF IsOfCurrent, ConsistentFrame
  <2>4. f = c
    <3>1. f % FrameMod = c % FrameMod
      BY <2>1, <2>2, <2>3 DEF IsOfCurrent, DataOf, PartsOf, SlotsOf
    <3>2. f \in 1..MaxFrames /\ c \in 1..MaxFrames
      BY <1>1
    <3> QED BY <3>1, <3>2, NumbersDistinct
  <2>5. WellFormed(stored) /\ PartsOf(stored, c)
    BY <1>1, <2>2, <2>3, <2>4, StoreWellFormed, StoreParts
  <2> HIDE DEF stored
  <2> QED BY <1>1, <1>2, <2>1, <2>5 DEF HandedOver
<1>6. CASE ReceiveForNext(p)
  <2>1. p.type = "data" /\ delivered' = Deliver(delivered, started)
    BY <1>6 DEF ReceiveForNext
  <2>2. PICK f \in 1..Len(sent) : WellFormed(started) /\ PartsOf(started, f)
    BY <1>3, <2>1
  <2> HIDE DEF started
  <2> QED BY <1>1, <1>2, <2>1, <2>2 DEF HandedOver
<1>7. CASE ReceiveAndRecover(p)
  <2> DEFINE g == FirstUsable(current)
             repaired == Recovered(current, fecStates[g])
             d == Assembled(repaired)
             first == Deliver(delivered, repaired)
  <2>1. /\ p.type = "data" /\ ~ IsOfCurrent(p)
        /\ IsPartial(current) /\ UsableStates(current) # {}
        /\ delivered' = Deliver(first, started)
    BY <1>7 DEF ReceiveAndRecover
  <2>2. current.totalPackets # 0
    BY <1>1, <2>1, WidthsAssumption DEF IsPartial, WellFormed, PendingFrame, Byte
  <2>3. PICK c \in 1..Len(sent) : PartsOf(current, c)
    BY <1>1, <2>2 DEF ConsistentFrame
  <2>4. PICK f \in 1..Len(sent) : DataOf(p, f) /\ WellFormed(started) /\ PartsOf(started, f)
    BY <1>3, <2>1
  <2>5. \A q \in net : c < q.payload.frame
    <3>1. PICK b \in 1..Len(sent) : current.frameNumber = b % FrameMod /\ b <= p.payload.frame
      BY <2>2 DEF RepairInv, CurrentBehind
    <3>2. b % FrameMod = c % FrameMod
      BY <2>3, <3>1 DEF PartsOf, SlotsOf
    <3>3. b \in 1..MaxFrames /\ c \in 1..MaxFrames
      BY <1>1
    <3>4. b = c
      BY <3>2, <3>3, NumbersDistinct
    <3>5. p.payload.frame = f
      BY <2>4 DEF DataOf, IsPart
    <3>6. f # c
      BY <2>1, <2>2, <2>3, <2>4 DEF IsOfCurrent, DataOf, PartsOf, SlotsOf
    <3>7. \A q \in net : q.payload.frame \in Nat /\ f <= q.payload.frame
      BY <3>5, HeadIsFirst DEF RepairInv
    <3>8. c < f
      BY <3>1, <3>4, <3>5, <3>6
    <3> QED BY <3>7, <3>8
  <2>6. HasCorrupt(d) => UsesLeftover(d)
    BY <2>1, <2>3, <2>5, RepairLeftover
  <2>7. WellFormed(repaired) /\ IsComplete(repaired)
    BY <1>1, <2>1, RecoveredWellFormed
  <2> HIDE DEF repaired, started
  <2>8. /\ first \in Seq(DeliveredRecord)
        /\ Len(first) = Len(delivered) + 1
        /\ first[Len(delivered) + 1] = d
    BY <1>1, <2>7, DeliverIs
  <2> HIDE DEF d, first
  <2>9. delivered'[Len(delivered) + 1] = d
    <3>1. CASE ~ IsComplete(started)
      BY <2>1, <2>4, <2>8, <3>1, DeliverIs
    <3>2. CASE IsComplete(started)
      <4>1. \A n \in 1..Len(first) : Deliver(first, started)[n] = first[n]
        BY <2>4, <2>8, <3>2, DeliverIs
      <4>2. Len(delivered) + 1 \in 1..Len(first)
        BY <1>1, <2>8
      <4> QED BY <2>1, <2>8, <4>1, <4>2
    <3> QED BY <3>1, <3>2
  <2>10. \A n \in (Len(first) + 1)..Len(delivered') : ~ HasCorrupt(delivered'[n])
    BY <1>2, <2>1, <2>4, <2>8
  <2>11. ASSUME NEW n \in HandedOver
         PROVE  n = Len(delivered) + 1 \/ n \in (Len(first) + 1)..Len(delivered')
    <3>1. Len(delivered') \in Nat
      BY <2>1, <2>4, <2>8, DeliverType
    <3> QED BY <1>1, <2>8, <3>1 DEF HandedOver
  <2> QED BY <2>6, <2>9, <2>10, <2>11
<1> QED BY <1>4, <1>5, <1>6, <1>7 DEF Receive

(* A parity packet joins its state: it replaces the shard of its index, of  *)
(* an earlier frame, and announces its own.                                 *)
LEMMA FecRepaired ==
  ASSUME NoWrap, MaxReorder = 0, TransportInv, NetInv, RepairInv,
         NEW p \in net, AtHead(p), ReceiveFec(p),
         UNCHANGED <<senderVars, lost>>, net \ {p} \subseteq net', net' \subseteq net
  PROVE  RepairInv'
<1> DEFINE g == p.fecGroupId % RingSize
           fs == fecStates[g]
           kept == {q \in fs.parity : q.part # p.payload.part}
           next == [isRs |-> TRUE, dataShards |-> p.dataShards, parityShards |-> p.parityShards,
                    parity |-> IF p.payload.part < p.parityShards
                               THEN kept \cup {p.payload} ELSE fs.parity]
<1>1. /\ p.type = "fec" /\ fecStates' = [fecStates EXCEPT ![g] = next]
      /\ UNCHANGED <<current, crypto, delivered, sent, fecGroupId, lost>>
  BY DEF ReceiveFec, senderVars
<1>2. PICK f \in 1..Len(sent) : ParityOf(p, f)
  BY <1>1 DEF RepairInv, ParityInv
<1>3. /\ Len(sent) \in Nat
      /\ p \in FecPacket
      /\ fecStates \in [0..(RingSize - 1) -> FecState]
  BY <1>1 DEF TransportInv, TypeInv, TypeOK, ReceiverTypeOK, NetTypeOK, SenderTypeOK, Packet, DataPacket
<1>4. g \in 0..(RingSize - 1) /\ g = ParitySlot(f)
  BY <1>2, <1>3, WidthsAssumption DEF FecPacket, ParityOf, ParitySlot
<1>5. /\ next.isRs /\ next.dataShards = sent[f].count /\ next.parityShards = ParityCount(sent[f].count)
      /\ next.parity = kept \cup {p.payload}
      /\ p.payload.frame = f
  BY <1>2 DEF ParityOf
<1>6. ShardsOf(fs, g) /\ \A q \in fs.parity : q.frame \in Nat /\ q.frame <= f
  BY <1>2, <1>3, <1>4 DEF RepairInv, ParityInv, ShardsBehind, ShardsOf, ParityOf
<1>7. p.payload.form = "plain"
  BY DEF RepairInv, ClearInv
<1>8. \A q \in kept : q \in fs.parity /\ q.part # p.payload.part
  OBVIOUS
<1> HIDE DEF g, fs, kept, next
<1>9. Announced(next, g)
  <2>1. \A q \in next.parity : q.frame <= f
    BY <1>3, <1>5, <1>6, <1>8
  <2> QED BY <1>4, <1>5, <2>1 DEF Announced
<1>10. ShardsOf(next, g)
  <2>1. \A q \in next.parity : q.form = "plain" /\ q.frame \in 1..Len(sent) /\ ParitySlot(q.frame) = g
    BY <1>4, <1>5, <1>6, <1>7, <1>8 DEF ShardsOf
  <2>2. \A q, r \in next.parity : q.part = r.part => q = r
    BY <1>5, <1>6, <1>8 DEF ShardsOf
  <2> QED BY <2>1, <2>2 DEF ShardsOf
<1>11. \A h \in 0..(RingSize - 1) : fecStates'[h] = IF h = g THEN next ELSE fecStates[h]
  BY <1>1, <1>3, <1>4
<1>12. \A h \in 0..(RingSize - 1) : Announced(fecStates'[h], h) /\ ShardsOf(fecStates'[h], h)
  BY <1>9, <1>10, <1>11 DEF RepairInv, ParityInv
<1>13. ASSUME NEW e \in 1..Len(sent), NEW part \in 0..(ParityCount(sent[e].count) - 1)
       PROVE  Kept(net' \cup lost, fecStates', e, part)
  <2> DEFINE h == ParitySlot(e)
  <2>1. h \in 0..(RingSize - 1)
    BY <1>3, WidthsAssumption DEF ParitySlot
  <2> HIDE DEF h
  <2>2. Kept(net \cup lost, fecStates, e, part)
    BY <1>13 DEF RepairInv, ParityInv
  <2>3. CASE p.payload.frame = e /\ p.payload.part = part
    <3>1. h = g
      BY <1>4, <1>5, <2>3 DEF h
    <3>2. p.payload \in fecStates'[h].parity
      BY <1>5, <1>11, <2>1, <3>1
    <3> QED BY <1>3, <2>3, <3>2 DEF Kept, h
  <2>4. CASE \E r \in net \cup lost : r # p /\ r.type = "fec" /\ r.payload.frame = e /\ r.payload.part = part
    BY <2>4 DEF Kept
  <2>5. CASE \E x \in fecStates[h].parity : x.part = part /\ x.frame >= e
    <3>1. PICK x \in fecStates[h].parity : x.part = part /\ x.frame >= e
      BY <2>5
    <3>2. CASE h # g
      BY <1>11, <2>1, <3>1, <3>2 DEF Kept, h
    <3>3. CASE h = g /\ part # p.payload.part
      <4>1. x \in kept
        BY <3>1, <3>3 DEF kept, fs
      <4> QED BY <1>5, <1>11, <2>1, <3>1, <3>3, <4>1 DEF Kept, h
    <3>4. CASE h = g /\ part = p.payload.part
      <4>1. x.frame \in Nat /\ x.frame <= f
        BY <1>6, <3>1, <3>4 DEF fs
      <4>2. p.payload.frame >= e
        BY <1>3, <1>5, <3>1, <4>1
      <4> QED BY <1>5, <1>11, <2>1, <3>4, <4>2 DEF Kept, h
    <3> QED BY <3>2, <3>3, <3>4
  <2> QED BY <2>2, <2>3, <2>4, <2>5 DEF Kept, h
<1>14. ParityInv'
  <2>1. (\A q \in net : q.type = "fec" => \E e \in 1..Len(sent) : ParityOf(q, e))'
    BY <1>1 DEF RepairInv, ParityInv, ParityOf
  <2>2. (\A h \in 0..(RingSize - 1) : Announced(fecStates[h], h) /\ ShardsOf(fecStates[h], h))'
    BY <1>1, <1>12 DEF Announced, ShardsOf
  <2>3. (\A e \in 1..Len(sent) : \A part \in 0..(ParityCount(sent[e].count) - 1) :
           Kept(net \cup lost, fecStates, e, part))'
    BY <1>1, <1>13 DEF Kept
  <2> QED BY <1>1, <2>1, <2>2, <2>3 DEF RepairInv, ParityInv
<1>15. ShardsBehind(fecStates', net')
  <2> SUFFICES ASSUME NEW h \in 0..(RingSize - 1), NEW x \in fecStates'[h].parity, NEW q \in net'
               PROVE  x.frame <= q.payload.frame
    BY DEF ShardsBehind
  <2>1. q \in net
    OBVIOUS
  <2>2. CASE x \in fecStates[h].parity
    BY <2>1, <2>2 DEF RepairInv, ShardsBehind
  <2>3. CASE x = p.payload
    BY <2>1, <2>3, HeadIsFirst DEF RepairInv
  <2> QED BY <1>5, <1>8, <1>11, <2>2, <2>3 DEF fs
<1>16. ClearInv' /\ SequenceInv' /\ CurrentBehind(current, net)'
  BY <1>1 DEF RepairInv, ClearInv, SequenceInv, CurrentBehind
<1>17. ShardsBehind(fecStates, net)'
  BY <1>15 DEF ShardsBehind
<1> QED BY <1>14, <1>16, <1>17 DEF RepairInv

(* A data packet leaves the shards alone; a repair only marks one state     *)
(* used.                                                                    *)
LEMMA DataStates ==
  ASSUME TypeInv, NEW p \in net, Receive(p), p.type = "data"
  PROVE  \A h \in 0..(RingSize - 1) :
           /\ fecStates'[h].parity = fecStates[h].parity
           /\ fecStates'[h].isRs => fecStates'[h] = fecStates[h]
<1>1. CASE ReceiveAndRecover(p)
  <2> DEFINE g == FirstUsable(current)
             used == [fecStates[g] EXCEPT !.isRs = FALSE, !.dataShards = 0]
  <2>1. UsableStates(current) # {} /\ fecStates' = [fecStates EXCEPT ![g] = used]
    BY <1>1 DEF ReceiveAndRecover
  <2>2. g \in 0..(RingSize - 1)
    BY <2>1, FirstUsableIs
  <2> HIDE DEF g
  <2>3. fecStates \in [0..(RingSize - 1) -> FecState] /\ fecStates[g] \in FecState
    BY <2>2 DEF TypeInv, TypeOK, ReceiverTypeOK
  <2>4. used.parity = fecStates[g].parity /\ used.isRs = FALSE
    BY <2>3 DEF FecState
  <2> HIDE DEF used
  <2> QED BY <2>1, <2>2, <2>3, <2>4
<1>2. CASE ~ ReceiveAndRecover(p)
  <2>1. fecStates' = fecStates
    BY <1>2 DEF Receive, ReceiveUndecryptable, ReceiveForCurrent, ReceiveForNext, ReceiveFec, receiverVars
  <2> QED BY <2>1
<1> QED BY <1>1, <1>2

(* What is pending after a data packet is of its frame or as it was. *)
LEMMA DataCurrent ==
  ASSUME NoWrap, ~ Encrypted, MaxReorder = 0, TransportInv, NetInv, RepairInv,
         NEW p \in net, AtHead(p), Receive(p), p.type = "data"
  PROVE  /\ crypto' = crypto
         /\ \A i \in current'.received : current'.packets[i].form = "plain"
         /\ CurrentBehind(current', net)
<1> DEFINE stored == Store(current, p)
           started == Store(StartFrame(p), p)
           plain(fr) == \A i \in fr.received : fr.packets[i].form = "plain"
<1>1. /\ WellFormed(current) /\ plain(current) /\ CurrentBehind(current, net)
      /\ p \in DataPacket
  BY DEF TransportInv, TypeInv, TypeOK, ReceiverTypeOK, NetTypeOK, RepairInv, ClearInv, Packet, FecPacket
<1>2. crypto' = crypto
  BY DEF Receive, ReceiveUndecryptable, ReceiveForCurrent, ReceiveForNext, ReceiveAndRecover, ReceiveFec,
         receiverVars
<1>3. Opened(p).form = "plain"
  BY DEF Opened, RepairInv, ClearInv
<1>4. plain(NoFrame) /\ CurrentBehind(NoFrame, net)
  BY DEF NoFrame, CurrentBehind
<1>5. plain(started) /\ CurrentBehind(started, net)
  <2>1. PICK f \in 1..Len(sent) : DataOf(p, f)
    BY DEF TransportInv, NetGenuine
  <2>2. started.frameNumber = p.frameNumber /\ \A i \in started.received : started.packets[i] = Opened(p)
    BY <1>1, StartIs, StoreIs
  <2>3. p.payload.frame = f /\ p.frameNumber = f % FrameMod
    BY <2>1 DEF DataOf, IsPart
  <2>4. \A q \in net : f <= q.payload.frame
    BY <2>3, HeadIsFirst DEF RepairInv
  <2> HIDE DEF started
  <2> QED BY <1>3, <2>2, <2>3, <2>4 DEF CurrentBehind
<1>6. plain(stored) /\ CurrentBehind(stored, net)
  <2>1. /\ stored.frameNumber = current.frameNumber
        /\ stored.totalPackets = current.totalPackets
        /\ \A i \in stored.received : \/ i \in current.received /\ stored.packets[i] = current.packets[i]
                                      \/ stored.packets[i] = Opened(p)
    BY <1>1, StoreIs
  <2> HIDE DEF stored
  <2> QED BY <1>1, <1>3, <2>1 DEF CurrentBehind
<1>7. current' \in {current, NoFrame, stored, started}
  BY DEF Receive, ReceiveUndecryptable, ReceiveForCurrent, ReceiveForNext, ReceiveAndRecover, ReceiveFec,
         receiverVars, Retained
<1> HIDE DEF stored, started
<1> QED BY <1>1, <1>2, <1>4, <1>5, <1>6, <1>7

(* A data packet keeps what repairs rest on. *)
LEMMA DataRepaired ==
  ASSUME NoWrap, ~ Encrypted, MaxReorder = 0, TransportInv, NetInv, RepairInv,
         NEW p \in net, AtHead(p), Receive(p), p.type = "data",
         UNCHANGED <<senderVars, lost>>, net \ {p} \subseteq net', net' \subseteq net
  PROVE  RepairInv'
<1>1. UNCHANGED <<sent, fecGroupId, lost>>
  BY DEF senderVars
<1>2. \A h \in 0..(RingSize - 1) :
        /\ fecStates'[h].parity = fecStates[h].parity
        /\ fecStates'[h].isRs => fecStates'[h] = fecStates[h]
  BY DataStates DEF TransportInv
<1>3. ClearInv' /\ CurrentBehind(current, net)'
  <2>1. /\ crypto' = crypto
        /\ \A i \in current'.received : current'.packets[i].form = "plain"
        /\ CurrentBehind(current', net)
    BY DataCurrent
  <2> QED BY <1>1, <2>1 DEF RepairInv, ClearInv, CurrentBehind
<1>4. SequenceInv'
  BY <1>1 DEF RepairInv, SequenceInv
<1>5. ShardsBehind(fecStates, net)'
  BY <1>2 DEF RepairInv, ShardsBehind
<1>6. ASSUME NEW e \in 1..Len(sent), NEW part \in 0..(ParityCount(sent[e].count) - 1)
      PROVE  Kept(net' \cup lost, fecStates', e, part)
  <2>1. ParitySlot(e) \in 0..(RingSize - 1)
    <3>1. Len(sent) \in Nat
      BY DEF TransportInv, TypeInv, TypeOK, SenderTypeOK
    <3> QED BY <3>1, WidthsAssumption DEF ParitySlot
  <2>2. Kept(net \cup lost, fecStates, e, part)
    BY <1>6 DEF RepairInv, ParityInv
  <2> QED BY <1>2, <2>1, <2>2 DEF Kept
<1>7. \A h \in 0..(RingSize - 1) : Announced(fecStates'[h], h) /\ ShardsOf(fecStates'[h], h)
  <2> SUFFICES ASSUME NEW h \in 0..(RingSize - 1)
               PROVE  Announced(fecStates'[h], h) /\ ShardsOf(fecStates'[h], h)
    OBVIOUS
  <2>1. Announced(fecStates[h], h) /\ ShardsOf(fecStates[h], h)
    BY DEF RepairInv, ParityInv
  <2>2. /\ fecStates'[h].parity = fecStates[h].parity
        /\ fecStates'[h].isRs => fecStates'[h] = fecStates[h]
    BY <1>2
  <2>3. ShardsOf(fecStates'[h], h)
    BY <2>1, <2>2 DEF ShardsOf
  <2>4. Announced(fecStates'[h], h)
    BY <2>1, <2>2 DEF Announced
  <2> QED BY <2>3, <2>4
<1>8. ParityInv'
  <2>1. (\A q \in net : q.type = "fec" => \E e \in 1..Len(sent) : ParityOf(q, e))'
    BY <1>1 DEF RepairInv, ParityInv, ParityOf
  <2>2. (\A h \in 0..(RingSize - 1) : Announced(fecStates[h], h) /\ ShardsOf(fecStates[h], h))'
    BY <1>1, <1>7 DEF Announced, ShardsOf
  <2>3. (\A e \in 1..Len(sent) : \A part \in 0..(ParityCount(sent[e].count) - 1) :
           Kept(net \cup lost, fecStates, e, part))'
    BY <1>1, <1>6 DEF Kept
  <2> QED BY <1>1, <2>1, <2>2, <2>3 DEF RepairInv, ParityInv
<1> QED BY <1>3, <1>4, <1>5, <1>8 DEF RepairInv

(* Euclidean division is unique. *)
LEMMA RemainderIs ==
  ASSUME NEW m \in Nat \ {0}, NEW q \in Nat, NEW r \in 0..(m - 1), NEW n \in Nat, n = m * q + r
  PROVE  n % m = r
<1> DEFINE x == n \div m
           y == n % m
<1>1. x \in Nat /\ y \in 0..(m - 1) /\ n = m * x + y
  OBVIOUS
<1> HIDE DEF x, y
<1>2. m * (x - q) = r - y
  BY <1>1
<1>3. CASE x - q >= 1
  <2>1. m * (x - q) >= m
    BY <1>1, <1>3
  <2> QED BY <1>1, <1>2, <2>1
<1>4. CASE x - q <= -1
  <2>1. m * (x - q) <= -m
    BY <1>1, <1>4
  <2> QED BY <1>1, <1>2, <2>1
<1>5. CASE x = q
  BY <1>1, <1>5 DEF y
<1> QED BY <1>1, <1>3, <1>4, <1>5

(* Wrapping at every step or once gives the same number. *)
LEMMA CountWraps ==
  ASSUME NEW m \in Nat \ {0}, NEW n \in Nat
  PROVE  ((n % m) + 1) % m = (n + 1) % m
<1> DEFINE q == n \div m
           r == n % m
<1>1. q \in Nat /\ r \in 0..(m - 1) /\ n = m * q + r
  OBVIOUS
<1> HIDE DEF q, r
<1>2. CASE r + 1 < m
  <2>1. r + 1 \in 0..(m - 1) /\ n + 1 = m * q + (r + 1) /\ r + 1 = m * 0 + (r + 1)
    BY <1>1, <1>2
  <2>2. (n + 1) % m = r + 1
    BY <1>1, <2>1, RemainderIs
  <2>3. (r + 1) % m = r + 1
    BY <1>1, <2>1, RemainderIs
  <2> QED BY <2>2, <2>3 DEF r
<1>3. CASE r + 1 = m
  <2>1. n + 1 = m * (q + 1) + 0 /\ r + 1 = m * 1 + 0 /\ 0 \in 0..(m - 1)
    BY <1>1, <1>3
  <2>2. (n + 1) % m = 0
    BY <1>1, <2>1, RemainderIs
  <2>3. (r + 1) % m = 0
    BY <1>1, <2>1, RemainderIs
  <2> QED BY <2>2, <2>3 DEF r
<1> QED BY <1>1, <1>2, <1>3

(* Sending gives the parity of a frame that frame's count and group, and    *)
(* puts all of it in flight behind what is there.                           *)
LEMMA SendRepaired ==
  ASSUME NoWrap, ~ Encrypted, TransportInv, NetInv, RepairInv,
         NEW k \in PacketCounts, NEW idr \in BOOLEAN, HostSends(k, idr)
  PROVE  RepairInv'
<1>0. PICK f \in Nat : f = Len(sent) + 1
  BY DEF TransportInv, TypeInv, TypeOK, SenderTypeOK
<1>1. /\ sent' = Append(sent, [count |-> k, idr |-> idr])
      /\ sent \in Seq([count : PacketCounts, idr : BOOLEAN])
      /\ Len(sent) \in Nat /\ k \in Nat \ {0} /\ sequence \in Nat
      /\ GroupMod \in Nat \ {0} /\ ByteMod \in Nat \ {0} /\ k < ByteMod
      /\ UNCHANGED <<current, fecStates, crypto, delivered, lost>>
  BY SenderAssumption, WidthsAssumption
  DEF HostSends, SendFrame, TransportInv, TypeInv, TypeOK, SenderTypeOK, receiverVars, NoWrap
<1>2. /\ Len(sent') = f /\ f \in 1..Len(sent')
      /\ \A g \in 1..Len(sent) : g \in 1..Len(sent') /\ sent'[g] = sent[g]
      /\ \A g \in 1..Len(sent') : g \in 1..Len(sent) \/ g = f
      /\ sent'[f] = [count |-> k, idr |-> idr]
  BY <1>0, <1>1
<1>3. fecGroupId' = Len(sent') % GroupMod /\ fecGroupId = (f - 1) % GroupMod
  <2>1. ((Len(sent) % GroupMod) + 1) % GroupMod = (Len(sent) + 1) % GroupMod
    BY <1>1, CountWraps
  <2> QED BY <1>0, <1>2, <2>1 DEF HostSends, SendFrame, RepairInv, ParityInv
<1>4. ParityCount(k) \in 0..(ByteMod - 1) /\ ParityCount(k) % ByteMod = ParityCount(k) /\ k % ByteMod = k
  <2>1. (k * FecPercent) \div 100 \in Nat
    <3>1. k * FecPercent \in Nat
      BY <1>1, SenderAssumption
    <3> QED BY <3>1
  <2>2. ParityCount(k) \in 0..(ByteMod - 1)
    BY <1>1, <2>1 DEF ParityCount
  <2> DEFINE m == ParityCount(k)
  <2>3. m \in 0..(ByteMod - 1)
    BY <2>2
  <2> HIDE DEF m
  <2>4. m % ByteMod = m /\ k % ByteMod = k
    BY <1>1, <2>3
  <2> QED BY <2>2, <2>4 DEF m
<1>5. \A p \in net' : p \in net \/ p \in DataPackets(f, k, idr) \/ p \in FecPackets(f, k)
  BY <1>0 DEF HostSends, FramePackets
<1>6. \A p \in DataPackets(f, k, idr) :
        /\ p.payload.form = "plain" /\ p.type = "data" /\ p.payload.frame = f
        /\ p.sequence \in Nat /\ p.sequence >= sequence
  BY <1>1 DEF DataPackets, SentForm
<1>7. ASSUME NEW p \in FecPackets(f, k)
      PROVE  /\ p.payload.form = "plain" /\ p.type = "fec" /\ p.payload.frame = f
             /\ p.sequence \in Nat /\ p.sequence >= sequence
             /\ p.fecGroupId = (f - 1) % GroupMod
             /\ p.dataShards = k /\ p.parityShards = ParityCount(k)
             /\ p.payload.part < p.parityShards
  <2>1. PICK i \in 0..(ParityCount(k) - 1) :
          p = [type |-> "fec", sequence |-> sequence + k + i, fecGroupId |-> fecGroupId,
               dataShards |-> k % ByteMod, parityShards |-> ParityCount(k) % ByteMod,
               payload |-> [frame |-> f, part |-> i, form |-> SentForm]]
    BY DEF FecPackets
  <2>2. i \in Nat /\ i < ParityCount(k)
    BY <1>4
  <2> QED BY <1>1, <1>3, <1>4, <2>1, <2>2 DEF SentForm
<1>8. \A p \in net : p.payload.frame \in Nat /\ p.payload.frame < f /\ p.sequence \in Nat /\ p.sequence < sequence
  <2>1. \A p \in net : p.sequence \in Nat
    BY DEF TransportInv, TypeInv, TypeOK, NetTypeOK, Packet, DataPacket, FecPacket
  <2> QED BY <1>0, <1>1, <2>1 DEF RepairInv, SequenceInv, NetInv
<1>9. ClearInv'
  BY <1>1, <1>5, <1>6, <1>7 DEF RepairInv, ClearInv
<1>10. SequenceInv'
  <2>1. \A p \in net' : p.payload.frame \in 1..Len(sent')
    BY <1>2, <1>5, <1>6, <1>7 DEF RepairInv, SequenceInv
  <2>2. \A p \in net' : p \in net \/ (p.payload.frame = f /\ p.sequence \in Nat /\ p.sequence >= sequence)
    BY <1>5, <1>6, <1>7
  <2>3. \A p, q \in net' : p.payload.frame < q.payload.frame => p.sequence < q.sequence
    BY <1>0, <1>1, <1>8, <2>2 DEF RepairInv, SequenceInv
  <2> QED BY <2>1, <2>3 DEF SequenceInv
<1>11. CurrentBehind(current, net)'
  <2>1. \A p \in net' : p \in net \/ p.payload.frame = f
    BY <1>5, <1>6, <1>7
  <2>2. CurrentBehind(current, net)
    BY DEF RepairInv
  <2>3. ASSUME current.totalPackets # 0
        PROVE  \E c \in 1..Len(sent') : current.frameNumber = c % FrameMod
                                        /\ \A p \in net' : c <= p.payload.frame
    <3>1. PICK c \in 1..Len(sent) : current.frameNumber = c % FrameMod
                                    /\ \A p \in net : c <= p.payload.frame
      BY <2>2, <2>3 DEF CurrentBehind
    <3>2. c <= f
      BY <1>0, <1>1
    <3> QED BY <1>2, <2>1, <3>1, <3>2
  <2> QED BY <1>1, <2>3 DEF CurrentBehind
<1>12. ShardsBehind(fecStates, net)'
  <2>1. \A p \in net' : p \in net \/ p.payload.frame = f
    BY <1>5, <1>6, <1>7
  <2>2. \A g \in 0..(RingSize - 1) : \A q \in fecStates[g].parity : q.frame <= f
    BY <1>0, <1>1 DEF RepairInv, ParityInv, ShardsOf
  <2>3. \A g \in 0..(RingSize - 1) : \A q \in fecStates[g].parity, p \in net' : q.frame <= p.payload.frame
    BY <2>1, <2>2 DEF RepairInv, ShardsBehind
  <2> QED BY <1>1, <2>3 DEF ShardsBehind
<1>13. ParityInv'
  <2>1. \A p \in net' : p.type = "fec" =>
          \E g \in 1..Len(sent') :
            /\ p.payload.frame = g
            /\ p.fecGroupId = (g - 1) % GroupMod
            /\ p.dataShards = sent'[g].count
            /\ p.parityShards = ParityCount(sent'[g].count)
            /\ p.payload.part < p.parityShards
    <3>1. \A p \in net : p.type = "fec" => \E g \in 1..Len(sent) : ParityOf(p, g)
      BY DEF RepairInv, ParityInv
    <3>2. sent'[f].count = k
      BY <1>2
    <3>3. ASSUME NEW p \in net', p.type = "fec"
          PROVE  \E g \in 1..Len(sent') :
                   /\ p.payload.frame = g
                   /\ p.fecGroupId = (g - 1) % GroupMod
                   /\ p.dataShards = sent'[g].count
                   /\ p.parityShards = ParityCount(sent'[g].count)
                   /\ p.payload.part < p.parityShards
      <4>1. CASE p \in net
        BY <1>2, <3>1, <3>3, <4>1 DEF ParityOf
      <4>2. CASE p \in FecPackets(f, k)
        BY <1>2, <1>7, <3>2, <4>2
      <4> QED BY <1>5, <1>6, <3>3, <4>1, <4>2
    <3> QED BY <3>3
  <2>2. \A g \in 0..(RingSize - 1) : Announced(fecStates[g], g) /\ ShardsOf(fecStates[g], g)
    BY DEF RepairInv, ParityInv
  <2>3. \A g \in 0..(RingSize - 1) :
          /\ fecStates[g].isRs =>
               \E h \in 1..Len(sent') :
                 /\ ParitySlot(h) = g
                 /\ fecStates[g].dataShards = sent'[h].count
                 /\ fecStates[g].parityShards = ParityCount(sent'[h].count)
                 /\ \E q \in fecStates[g].parity : q.frame = h
                 /\ \A q \in fecStates[g].parity : q.frame <= h
          /\ \A q \in fecStates[g].parity :
               q.form = "plain" /\ q.frame \in 1..Len(sent') /\ ParitySlot(q.frame) = g
          /\ \A q, r \in fecStates[g].parity : q.part = r.part => q = r
    BY <1>2, <2>2 DEF Announced, ShardsOf
  <2>4. ASSUME NEW e \in 1..Len(sent'), NEW part \in 0..(ParityCount(sent'[e].count) - 1)
        PROVE  Kept(net' \cup lost, fecStates, e, part)
    <3>1. CASE e \in 1..Len(sent)
      <4>1. Kept(net \cup lost, fecStates, e, part)
        BY <1>2, <2>4, <3>1 DEF RepairInv, ParityInv
      <4> QED BY <4>1 DEF Kept, HostSends
    <3>2. CASE e = f
      <4>1. part \in 0..(ParityCount(k) - 1)
        BY <1>2, <2>4, <3>2
      <4> DEFINE p == [type |-> "fec", sequence |-> sequence + k + part, fecGroupId |-> fecGroupId,
                       dataShards |-> k % ByteMod, parityShards |-> ParityCount(k) % ByteMod,
                       payload |-> [frame |-> f, part |-> part, form |-> SentForm]]
      <4>2. p \in FecPackets(f, k)
        BY <4>1 DEF FecPackets
      <4>3. p \in net'
        BY <1>0, <4>2 DEF HostSends, FramePackets
      <4>4. p.type = "fec" /\ p.payload.frame = f /\ p.payload.part = part
        OBVIOUS
      <4> HIDE DEF p
      <4> QED BY <3>2, <4>3, <4>4 DEF Kept
    <3> QED BY <1>2, <3>1, <3>2
  <2>5. (\A p \in net : p.type = "fec" => \E g \in 1..Len(sent) : ParityOf(p, g))'
    BY <2>1 DEF ParityOf
  <2>6. (\A g \in 0..(RingSize - 1) : Announced(fecStates[g], g) /\ ShardsOf(fecStates[g], g))'
    BY <1>1, <2>3 DEF Announced, ShardsOf
  <2>7. (\A e \in 1..Len(sent) : \A part \in 0..(ParityCount(sent[e].count) - 1) :
           Kept(net \cup lost, fecStates, e, part))'
    BY <1>1, <2>4 DEF Kept
  <2> QED BY <1>3, <2>5, <2>6, <2>7 DEF ParityInv
<1> QED BY <1>9, <1>10, <1>11, <1>12, <1>13 DEF RepairInv

(* A packet that is lost is remembered as lost. *)
LEMMA LoseRepaired ==
  ASSUME RepairInv, UNCHANGED <<senderVars, receiverVars>>, net' \subseteq net,
         net \cup lost \subseteq net' \cup lost'
  PROVE  RepairInv'
<1>1. UNCHANGED <<sent, fecGroupId, current, fecStates, crypto, delivered>>
  BY DEF senderVars, receiverVars
<1>2. (\A f \in 1..Len(sent) : \A part \in 0..(ParityCount(sent[f].count) - 1) :
         Kept(net \cup lost, fecStates, f, part))'
  BY <1>1 DEF RepairInv, ParityInv, Kept
<1>3. (\A g \in 0..(RingSize - 1) : Announced(fecStates[g], g) /\ ShardsOf(fecStates[g], g))'
  BY <1>1 DEF RepairInv, ParityInv, Announced, ShardsOf
<1>4. (\A p \in net : p.type = "fec" => \E f \in 1..Len(sent) : ParityOf(p, f))'
  BY <1>1 DEF RepairInv, ParityInv, ParityOf
<1>5. ParityInv'
  BY <1>1, <1>2, <1>3, <1>4 DEF RepairInv, ParityInv
<1>6. ClearInv' /\ SequenceInv' /\ CurrentBehind(current, net)' /\ ShardsBehind(fecStates, net)'
  BY <1>1 DEF RepairInv, ClearInv, SequenceInv, CurrentBehind, ShardsBehind
<1> QED BY <1>5, <1>6 DEF RepairInv

(* Without encryption and reordering a repair goes wrong only where a       *)
(* leftover is taken for the frame's own parity: the state chosen holds a   *)
(* shard of another frame of as many packets, or, being the frame's own, an *)
(* older shard used in place of one that was lost.  That is so for every    *)
(* ring and group size, however many frames have gone through the ring.     *)
THEOREM WrongRepairsUseLeftovers ==
  ASSUME NoWrap, ~ Encrypted, MaxReorder = 0 PROVE Spec => WrongRepairNeedsLeftover
<1>1. Init => RepairInv
  <2> SUFFICES ASSUME Init PROVE RepairInv
    OBVIOUS
  <2>1. GroupMod \in Nat \ {0} /\ sent = << >> /\ fecGroupId = 0 /\ Len(sent) = 0
    BY WidthsAssumption DEF Init, SenderInit
  <2>2. ParityInv
    BY <2>1 DEF Init, ReceiverInit, NoFec, ParityInv, Announced, ShardsOf
  <2>3. ClearInv /\ SequenceInv /\ CurrentBehind(current, net) /\ ShardsBehind(fecStates, net)
    BY DEF Init, ReceiverInit, NoFrame, NoFec, ClearInv, SequenceInv, CurrentBehind, ShardsBehind
  <2> QED BY <2>2, <2>3 DEF RepairInv
<1>2. TransportInv /\ NetInv /\ RepairInv /\ [Next]_vars =>
        RepairInv' /\ \A n \in HandedOver : HasCorrupt(delivered'[n]) => UsesLeftover(delivered'[n])
  <2> SUFFICES ASSUME TransportInv, NetInv, RepairInv, [Next]_vars
               PROVE  /\ RepairInv'
                      /\ \A n \in HandedOver : HasCorrupt(delivered'[n]) => UsesLeftover(delivered'[n])
    OBVIOUS
  <2>0. ASSUME delivered' = delivered
        PROVE  HandedOver = {}
    <3>1. Len(delivered) \in Nat
      BY DEF TransportInv, TypeInv
    <3> QED BY <2>0, <3>1 DEF HandedOver
  <2>1. ASSUME NEW k \in PacketCounts, NEW idr \in BOOLEAN, HostSends(k, idr)
        PROVE  RepairInv' /\ delivered' = delivered
    BY <2>1, SendRepaired DEF HostSends, receiverVars
  <2>2. ASSUME NEW p \in net, Arrive(p) \/ ArriveAndRepeat(p)
        PROVE  /\ RepairInv'
               /\ \A n \in HandedOver : HasCorrupt(delivered'[n]) => UsesLeftover(delivered'[n])
    <3>1. /\ AtHead(p) /\ Receive(p) /\ UNCHANGED <<senderVars, lost>>
          /\ net \ {p} \subseteq net' /\ net' \subseteq net
      BY <2>2 DEF Arrive, ArriveAndRepeat
    <3>2. \A n \in HandedOver : HasCorrupt(delivered'[n]) => UsesLeftover(delivered'[n])
      BY <3>1, ReceiveLeftover
    <3>3. RepairInv'
      <4>1. CASE ReceiveFec(p)
        BY <3>1, <4>1, FecRepaired
      <4>2. CASE ~ ReceiveFec(p)
        <5>1. p.type = "data" \/ p.type = "fec"
          BY DEF TransportInv, TypeInv, TypeOK, NetTypeOK, Packet, DataPacket, FecPacket
        <5>2. p.type = "data"
          BY <3>1, <4>2, <5>1 DEF Receive, ReceiveUndecryptable, ReceiveForCurrent, ReceiveForNext,
                                  ReceiveAndRecover
        <5> QED BY <3>1, <5>2, DataRepaired
      <4> QED BY <4>1, <4>2
    <3> QED BY <3>2, <3>3
  <2>3. ASSUME NEW p \in net, Lose(p)
        PROVE  RepairInv' /\ delivered' = delivered
    BY <2>3, LoseRepaired DEF Lose, receiverVars
  <2>4. ~ InstallKey
    BY DEF InstallKey, AllocateCrypto, InitCrypto, InitCryptoFails, RepairInv, ClearInv
  <2>5. ASSUME UNCHANGED vars
        PROVE  RepairInv' /\ delivered' = delivered
    BY <2>5, LoseRepaired DEF vars, netVars, receiverVars
  <2> QED BY <2>0, <2>1, <2>2, <2>3, <2>4, <2>5, SenderAssumption DEF Next
<1> QED BY <1>1, <1>2, TransportInvariant, NetInvariant, PTL DEF Spec, WrongRepairNeedsLeftover
=============================================================================
