---------------------------- MODULE FrameStream ----------------------------
(***************************************************************************)
(* What the video transport promises the decoder: every frame it hands     *)
(* over is one the encoder submitted, whole and with its own IDR flag.     *)
(* Frames may be missing.  With InOrder they come in the order they were   *)
(* sent and at most once; without it nothing is said about order.          *)
(***************************************************************************)
EXTENDS Naturals, Sequences

CONSTANTS
  Frame,     (* what a frame is to the decoder *)
  InOrder

VARIABLES
  sent,      (* frames submitted so far *)
  received   (* for each frame handed over, its position in sent; 0 for none *)

vars == <<sent, received>>

Init == sent = << >> /\ received = << >>

Send(f) ==
  /\ sent' = Append(sent, f)
  /\ UNCHANGED received

Last == IF received = << >> THEN 0 ELSE received[Len(received)]

HandOver(n) ==
  /\ InOrder => n > Last
  /\ received' = Append(received, n)
  /\ UNCHANGED sent

(* One packet may complete the frame before it as well as its own. *)
HandOverTwo(m, n) ==
  /\ InOrder => m > Last /\ n > m
  /\ received' = received \o <<m, n>>
  /\ UNCHANGED sent

Next ==
  \/ \E f \in Frame : Send(f)
  \/ \E n \in 1..Len(sent) : HandOver(n)
  \/ \E m, n \in 1..Len(sent) : HandOverTwo(m, n)

Spec == Init /\ [][Next]_vars
=============================================================================
