---------------------------- MODULE FrameFeedback ----------------------------
(***************************************************************************)
(* The client's report of decoded frames (client/client_session.cpp): the  *)
(* decode thread updates a bitmap and a frame number one after the other,  *)
(* the feedback thread reads both into a packet, without a lock.  A frame  *)
(* that was received but never decoded, overwritten before the decode      *)
(* thread took it or dropped while it waits for an IDR, counts as lost.    *)
(***************************************************************************)
EXTENDS Integers, FiniteSets

CONSTANTS
  FrameModulus,    (* stands for 2^16, the frame numbers of a report         *)
  MapBits,         (* 64, the bits of m_recvBitmap                           *)
  Jumps,           (* how far the next frame decoded is ahead of the newest  *)
  MaxFrames        (* bound: frames decoded                                  *)

ASSUME FeedbackAssumption ==
  /\ MapBits \in Nat \ {0}
  /\ FrameModulus \in Nat /\ MapBits < FrameModulus
  /\ Jumps \subseteq Nat \ {0}
  /\ MaxFrames \in Nat

VARIABLES
  lastFrameRecv,   (* m_lastFrameRecv                                        *)
  recvBitmap,      (* m_recvBitmap: the bits set                             *)
  decoding,        (* the frame OnFrameDecoded has yet to record, or NoFrame *)
  report,          (* the number the feedback thread has read, and whether   *)
                   (* the decode thread has not written since (history)      *)
  sent,            (* the last packet sent                                   *)
  basis,           (* history: the frame the bitmap's bit 0 stands for       *)
  kept,            (* history: frames decoded since one last came late       *)
  newest,          (* the newest frame decoded                               *)
  lapped,          (* a gap of a whole lap misplaced the bits                *)
  frames           (* frames decoded so far                                  *)

historyVars == <<basis, kept, newest, lapped, frames>>
feedbackVars == <<lastFrameRecv, recvBitmap, decoding, report, sent, historyVars>>

NoFrame == 0
NoReport == [last |-> 0, clean |-> FALSE]
NoPacket == [last |-> 0, map |-> {}, clean |-> FALSE, of |-> 0, kept |-> {}, lapped |-> FALSE]

(* Mutant of Number: the whole frame number is kept. *)
NumberWide(frame) == frame

(* The cast to uint16_t. *)
Number(frame) == frame % FrameModulus

FeedbackInit ==
  /\ lastFrameRecv = 0 /\ recvBitmap = {}
  /\ decoding = NoFrame
  /\ report = NoReport
  /\ sent = NoPacket
  /\ basis = NoFrame /\ kept = {} /\ newest = 0 /\ lapped = FALSE
  /\ frames = 0

(* Bits k for the frames decoded k before the one bit 0 stands for.         *)
Kept == {k \in 0..(MapBits - 1) : basis - k \in kept}

(* Mutant of Shifted: the shift of a 64-bit register takes the gap modulo   *)
(* 64.                                                                      *)
ShiftedMasked(gap) == {b \in 0..(MapBits - 1) : b - (gap % MapBits) \in recvBitmap}

(* A gap of 64 or more, as any late frame leaves, clears the bitmap.        *)
Shifted(gap) == IF gap >= MapBits THEN {} ELSE {b \in 0..(MapBits - 1) : b - gap \in recvBitmap}

(* How far apart two numbers may not be for their gap to show it.           *)
Lap(distance) == distance \notin (MapBits - FrameModulus)..(FrameModulus - 1)

(* OnFrameDecoded: the bitmap is shifted, ...                               *)
ShiftBitmap(frame) ==
  LET gap == Number(frame - lastFrameRecv)
  IN /\ decoding = NoFrame
     /\ decoding' = frame
     /\ recvBitmap' = Shifted(gap)
     /\ basis' = frame
     /\ kept' = IF frame < basis THEN {frame} ELSE kept \cup {frame}
     /\ newest' = IF frame > newest THEN frame ELSE newest
     /\ frames' = frames + 1
     /\ lapped' = (gap < MapBits /\ (lapped \/ (basis # NoFrame /\ Lap(frame - basis))))
     /\ report' = [report EXCEPT !.clean = FALSE]
     /\ UNCHANGED <<lastFrameRecv, sent>>

(* ... gets bit 0, which a build may write on its own, ...                  *)
SetBit ==
  /\ recvBitmap' = recvBitmap \cup {0}
  /\ UNCHANGED <<lastFrameRecv, decoding, report, sent, historyVars>>

(* ... and the frame number follows.                                        *)
RecordNumber ==
  /\ decoding' = NoFrame
  /\ lastFrameRecv' = Number(decoding)
  /\ UNCHANGED <<recvBitmap, report, sent, historyVars>>

(* FeedbackSendLoop: the number is read, then the bitmap, and sent.         *)
ReadNumber ==
  /\ report' = [last |-> lastFrameRecv, clean |-> decoding = NoFrame]
  /\ UNCHANGED <<lastFrameRecv, recvBitmap, decoding, sent, historyVars>>

SendReport ==
  /\ sent' = [last |-> report.last, map |-> recvBitmap, clean |-> report.clean,
              of |-> Number(basis), kept |-> Kept, lapped |-> lapped]
  /\ report' = NoReport
  /\ UNCHANGED <<lastFrameRecv, recvBitmap, decoding, historyVars>>

FrameNumbers == 0..(FrameModulus - 1)

FeedbackTypeOK ==
  /\ lastFrameRecv \in FrameNumbers
  /\ recvBitmap \subseteq 0..(MapBits - 1)
  /\ decoding \in Nat /\ basis \in Nat /\ newest \in Nat /\ frames \in Nat
  /\ kept \subseteq 1..newest /\ lapped \in BOOLEAN
  /\ report \in [last: FrameNumbers, clean: BOOLEAN]
  /\ sent.last \in FrameNumbers /\ sent.map \subseteq 0..(MapBits - 1)
  /\ sent.clean \in BOOLEAN /\ sent.lapped \in BOOLEAN
=============================================================================
