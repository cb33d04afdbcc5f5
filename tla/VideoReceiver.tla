---------------------------- MODULE VideoReceiver ----------------------------
(***************************************************************************)
(* VideoReceiver (src/common/transport/video_receiver.cpp): the receive    *)
(* thread reassembles one frame at a time in m_currentFrame, keeps parity  *)
(* in a ring of FEC states, and tries to repair a partial frame only when  *)
(* a packet of another frame arrives.  SetEncryptionKey runs on the        *)
(* session's thread after the receive thread has started.                  *)
(***************************************************************************)
EXTENDS VideoPackets, Sequences

VARIABLES
  current,     (* m_currentFrame                                              *)
  fecStates,   (* RecvLoop's ring of RsFecState                               *)
  crypto,      (* m_crypto: absent, allocated without a key, usable, released *)
  delivered    (* frames handed to the callback, in order                     *)

receiverVars == <<current, fecStates, crypto, delivered>>

(* What an unfilled slot holds. *)
NoPayload == [frame |-> 0, part |-> 0, form |-> "empty"]

(* PendingFrame{}. *)
NoFrame ==
  [frameNumber |-> 0, totalPackets |-> 0, receivedCount |-> 0, isIdr |-> FALSE,
   packets |-> [i \in 0..(0 - 1) |-> NoPayload], received |-> {}]

(* RsFecState as constructed: parity holds the shards with parityPresent,  *)
(* each under its index.                                                   *)
NoFec == [isRs |-> FALSE, dataShards |-> 0, parityShards |-> 0, parity |-> {}]

ReceiverInit ==
  /\ current = NoFrame
  /\ fecStates = [g \in 0..(RingSize - 1) |-> NoFec]
  /\ crypto = "none"
  /\ delivered = << >>

------------------------------------------------------------------------------
(* SetEncryptionKey: the object is visible to the receive thread before    *)
(* Init has given it a key.                                                *)

AllocateCrypto ==
  /\ Encrypted
  /\ crypto = "none"
  /\ crypto' = "allocated"
  /\ UNCHANGED <<current, fecStates, delivered>>

InitCrypto ==
  /\ crypto = "allocated"
  /\ crypto' = "ready"
  /\ UNCHANGED <<current, fecStates, delivered>>

(* Init fails: the object is released and SetEncryptionKey reports nothing. *)
InitCryptoFails ==
  /\ crypto = "allocated"
  /\ crypto' = "failed"
  /\ UNCHANGED <<current, fecStates, delivered>>

------------------------------------------------------------------------------
(* Decrypting a data packet: without m_crypto the payload is taken as it   *)
(* came, and an object without a key fails every packet.                   *)
Decryptable(p) ==
  \/ crypto \in {"none", "failed"}
  \/ crypto = "ready" /\ p.payload.form = "cipher"

OpenedFirstOnly(p) ==
  IF crypto = "ready" /\ p.packetIndex = 0 THEN [p.payload EXCEPT !.form = "plain"] ELSE p.payload

Opened(p) == IF crypto = "ready" THEN [p.payload EXCEPT !.form = "plain"] ELSE p.payload

StoreAgain(fr, p) ==
  IF p.packetIndex < fr.totalPackets
  THEN [fr EXCEPT !.packets = [@ EXCEPT ![p.packetIndex] = Opened(p)],
                  !.received = @ \cup {p.packetIndex},
                  !.receivedCount = @ + 1]
  ELSE fr

(* Storing a packet in a frame's slot; a filled or unknown slot is left.   *)
Store(fr, p) ==
  IF p.packetIndex < fr.totalPackets /\ p.packetIndex \notin fr.received
  THEN [fr EXCEPT !.packets = [@ EXCEPT ![p.packetIndex] = Opened(p)],
                  !.received = @ \cup {p.packetIndex},
                  !.receivedCount = @ + 1]
  ELSE fr

StartFrameOneSlotMore(p) ==
  [frameNumber |-> p.frameNumber, totalPackets |-> p.totalPackets, receivedCount |-> 0,
   isIdr |-> p.isIdr, packets |-> [i \in 0..p.totalPackets |-> NoPayload], received |-> {}]

StartFrameCountKept(p) ==
  [frameNumber |-> p.frameNumber, totalPackets |-> p.totalPackets,
   receivedCount |-> current.receivedCount, isIdr |-> p.isIdr,
   packets |-> [i \in 0..(p.totalPackets - 1) |-> NoPayload], received |-> {}]

StartFrame(p) ==
  [frameNumber   |-> p.frameNumber,
   totalPackets  |-> p.totalPackets,
   receivedCount |-> 0,
   isIdr         |-> p.isIdr,
   packets       |-> [i \in 0..(p.totalPackets - 1) |-> NoPayload],
   received      |-> {}]

IsComplete(fr) == fr.receivedCount = fr.totalPackets

(* TryAssembleFrame: hand the frame over, then reset m_currentFrame. *)
Assembled(fr) == [frameNumber |-> fr.frameNumber, packets |-> fr.packets, isIdr |-> fr.isIdr]

Deliver(out, fr) == IF IsComplete(fr) THEN Append(out, Assembled(fr)) ELSE out

Retained(fr) == IF IsComplete(fr) THEN NoFrame ELSE fr

------------------------------------------------------------------------------
(* TryRsFecRecovery. *)

Missing(fr) == (0..(fr.totalPackets - 1)) \ fr.received

Available(fs) == {q \in fs.parity : q.part < fs.parityShards}

UsableAnySize(fr, fs) ==
  /\ fs.isRs
  /\ fs.dataShards # 0
  /\ Missing(fr) # {}
  /\ Cardinality(Missing(fr)) <= Cardinality(Available(fs))

UsableWithSpare(fr, fs) ==
  /\ fs.isRs
  /\ fs.dataShards # 0
  /\ fs.dataShards = fr.totalPackets
  /\ Missing(fr) # {}
  /\ Cardinality(Missing(fr)) < Cardinality(Available(fs))

(* A state is chosen by its shard count alone. *)
Usable(fr, fs) ==
  /\ fs.isRs
  /\ fs.dataShards # 0
  /\ fs.dataShards = fr.totalPackets
  /\ Missing(fr) # {}
  /\ Cardinality(Missing(fr)) <= Cardinality(Available(fs))

UsableStates(fr) == {g \in 0..(RingSize - 1) : Usable(fr, fecStates[g])}

FirstUsable(fr) == CHOOSE g \in UsableStates(fr) : \A h \in UsableStates(fr) : g <= h

(* The decoder takes the first k shards present: all the data shards, then *)
(* parity shards in index order.                                           *)
UsedParity(fr, fs) ==
  {q \in Available(fs) :
     Cardinality({r \in Available(fs) : r.part < q.part}) < Cardinality(Missing(fr))}

(* Decoding inverts the encoding when every shard used comes from one      *)
(* encoding: the same frame, in the form the sender computed parity over.  *)
SameEncoding(fr, fs) ==
  \A i \in fr.received, q \in UsedParity(fr, fs) :
    /\ q.frame = fr.packets[i].frame
    /\ q.form = fr.packets[i].form

(* A rebuilt shard keeps the padding to the common shard size, which only  *)
(* the last one needed.                                                    *)
Rebuilt(fr, fs, i) ==
  IF SameEncoding(fr, fs)
  THEN LET shard == fr.packets[CHOOSE j \in fr.received : TRUE] IN
       [frame |-> shard.frame, part |-> i,
        form  |-> IF i = fr.totalPackets - 1 THEN "padded" ELSE shard.form]
  ELSE [frame |-> 0, part |-> i, form |-> "corrupt"]

Recovered(fr, fs) ==
  [fr EXCEPT !.packets = [i \in 0..(fr.totalPackets - 1) |->
                            IF i \in fr.received THEN fr.packets[i] ELSE Rebuilt(fr, fs, i)],
             !.received = 0..(fr.totalPackets - 1),
             !.receivedCount = @ + Cardinality(Missing(fr))]

------------------------------------------------------------------------------
(* RecvLoop, one iteration per packet. *)

IsPartial(fr) == 0 < fr.receivedCount /\ fr.receivedCount < fr.totalPackets

IsOfAnyCurrent(p) == current.totalPackets # 0

IsOfCurrent(p) == p.frameNumber = current.frameNumber /\ current.totalPackets # 0

(* The packet fails authentication, or the object has no key yet: skipped. *)
ReceiveUndecryptable(p) ==
  /\ p.type = "data"
  /\ ~ Decryptable(p)
  /\ UNCHANGED receiverVars

ReceiveForCurrent(p) ==
  /\ p.type = "data"
  /\ Decryptable(p)
  /\ IsOfCurrent(p)
  /\ current' = Retained(Store(current, p))
  /\ delivered' = Deliver(delivered, Store(current, p))
  /\ UNCHANGED <<fecStates, crypto>>

NextGetsPartial(p) ==
  /\ p.type = "data"
  /\ Decryptable(p)
  /\ ~ IsOfCurrent(p)
  /\ ~ (IsPartial(current) /\ UsableStates(current) # {})
  /\ current' = Retained(Store(StartFrame(p), p))
  /\ delivered' = Deliver(IF IsPartial(current) THEN Append(delivered, Assembled(current))
                          ELSE delivered, Store(StartFrame(p), p))
  /\ UNCHANGED <<fecStates, crypto>>

NextSkipsFirst(p) ==
  /\ p.type = "data"
  /\ Decryptable(p)
  /\ ~ IsOfCurrent(p)
  /\ ~ (IsPartial(current) /\ UsableStates(current) # {})
  /\ current' = StartFrame(p)
  /\ UNCHANGED <<fecStates, crypto, delivered>>

(* A packet of another frame; the frame it displaces is not repairable. *)
ReceiveForNext(p) ==
  /\ p.type = "data"
  /\ Decryptable(p)
  /\ ~ IsOfCurrent(p)
  /\ ~ (IsPartial(current) /\ UsableStates(current) # {})
  /\ current' = Retained(Store(StartFrame(p), p))
  /\ delivered' = Deliver(delivered, Store(StartFrame(p), p))
  /\ UNCHANGED <<fecStates, crypto>>

RecoverAfterNext(p) ==
  /\ p.type = "data"
  /\ Decryptable(p)
  /\ ~ IsOfCurrent(p)
  /\ IsPartial(current) /\ UsableStates(current) # {}
  /\ LET g == FirstUsable(current)
         repaired == Recovered(current, fecStates[g])
     IN /\ fecStates' = [fecStates EXCEPT ![g].isRs = FALSE, ![g].dataShards = 0]
        /\ delivered' = Deliver(Deliver(delivered, Store(StartFrame(p), p)), repaired)
  /\ current' = Retained(Store(StartFrame(p), p))
  /\ UNCHANGED crypto

(* A packet of another frame; the frame it displaces is repaired from the  *)
(* first usable FEC state, delivered, and that state marked used.          *)
ReceiveAndRecover(p) ==
  /\ p.type = "data"
  /\ Decryptable(p)
  /\ ~ IsOfCurrent(p)
  /\ IsPartial(current) /\ UsableStates(current) # {}
  /\ LET g == FirstUsable(current)
         repaired == Recovered(current, fecStates[g])
     IN /\ fecStates' = [fecStates EXCEPT ![g].isRs = FALSE, ![g].dataShards = 0]
        /\ delivered' = Deliver(Deliver(delivered, repaired), Store(StartFrame(p), p))
  /\ current' = Retained(Store(StartFrame(p), p))
  /\ UNCHANGED crypto

(* Parity joins whatever the ring slot already holds. *)
ReceiveFec(p) ==
  /\ p.type = "fec"
  /\ LET g == p.fecGroupId % RingSize
         fs == fecStates[g]
         kept == {q \in fs.parity : q.part # p.payload.part}
     IN fecStates' = [fecStates EXCEPT ![g] =
          [isRs |-> TRUE, dataShards |-> p.dataShards, parityShards |-> p.parityShards,
           parity |-> IF p.payload.part < p.parityShards
                      THEN kept \cup {p.payload} ELSE fs.parity]]
  /\ UNCHANGED <<current, crypto, delivered>>

Receive(p) ==
  \/ ReceiveUndecryptable(p)
  \/ ReceiveForCurrent(p)
  \/ ReceiveForNext(p)
  \/ ReceiveAndRecover(p)
  \/ ReceiveFec(p)

------------------------------------------------------------------------------
(* A frame being reassembled from n data packets. *)
PendingFrame(n) ==
  [frameNumber : FrameNumber, totalPackets : {n}, receivedCount : Nat, isIdr : BOOLEAN,
   packets : [0..(n - 1) -> Payload], received : SUBSET (0..(n - 1))]

WellFormed(fr) ==
  /\ fr.totalPackets \in Byte
  /\ fr \in PendingFrame(fr.totalPackets)
  /\ fr.receivedCount = Cardinality(fr.received)

FecState ==
  [isRs : BOOLEAN, dataShards : Byte, parityShards : Byte, parity : SUBSET Payload]

DeliveredFrame(n) ==
  [frameNumber : FrameNumber, packets : [0..(n - 1) -> Payload], isIdr : BOOLEAN]

ReceiverTypeOK ==
  /\ WellFormed(current)
  /\ fecStates \in [0..(RingSize - 1) -> FecState]
  /\ crypto \in {"none", "allocated", "ready", "failed"}
  /\ \A n \in 1..Len(delivered) : \E k \in Byte : delivered[n] \in DeliveredFrame(k)
=============================================================================
