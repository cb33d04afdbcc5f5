------------------------------ MODULE InputPath ------------------------------
(***************************************************************************)
(* Input from the client's devices to the host's desktop: InputSender and  *)
(* InputReceiver with UDP between them, which loses, reorders and          *)
(* duplicates packets; nothing acknowledges or repeats them.               *)
(***************************************************************************)
EXTENDS InputReceiver, FiniteSetsExt

vars == <<userVars, clientVars, senderVars, receiverVars, events, causes>>

Init == SenderInit /\ ReceiverInit

(* RecvLoop takes a packet, of which the network may keep a copy.  Late is  *)
(* a packet sent before one that has left the network.                      *)
Late(i) == \E j \in (i + 1)..Len(sent) : j \notin flight

Fate(i, cs) ==
  /\ i \in flight
  /\ \/ ~ Late(i) /\ flight' = flight \ {i} /\ Excuses(cs)
     \/ Late(i) /\ flight' = flight \ {i} /\ Excuses(cs \cup {"overtaken"})
     \/ ~ Late(i) /\ "doubled" \notin causes /\ Excuses(cs \cup {"doubled"}) /\ UNCHANGED flight

Receive(i) ==
  /\ Fate(i, {})
  /\ Readable(sent[i])
  /\ Inject(sent[i].msg)
  /\ UNCHANGED <<userVars, clientVars, sequence, sending, sent, events>>

(* The virtual pad cannot be added.                                         *)
ReceiveUnadded(i) ==
  /\ Fate(i, {"unadded"})
  /\ Readable(sent[i])
  /\ sent[i].msg.kind = "pad" /\ PadNotAdded
  /\ UNCHANGED <<userVars, clientVars, sequence, sending, sent, events>>

ReceiveUnreadable(i) ==
  /\ i \in flight
  /\ flight' = flight \ {i}
  /\ ~ Readable(sent[i])
  /\ InjectCiphertext(sent[i].msg.kind)
  /\ causes' = causes \cup {"key_gap"}
  /\ UNCHANGED <<userVars, clientVars, sequence, sending, sent, events>>

(* External: the network. *)
Lose(i) ==
  /\ i \in flight
  /\ flight' = flight \ {i}
  /\ \/ Excuse("lost")
     \/ Late(i) /\ causes' = causes \cup {"lost"}
  /\ UNCHANGED <<userVars, clientVars, sequence, sending, sent, receiverVars, events>>

SetEncryptionKey ==
  /\ AllocateCrypto \/ InitCrypto
  /\ UNCHANGED <<userVars, clientVars, senderVars, events, causes>>

Next ==
  \/ (SenderStep \/ UserStep) /\ UNCHANGED receiverVars
  \/ \E i \in 1..MaxSends : Receive(i) \/ ReceiveUnadded(i) \/ ReceiveUnreadable(i) \/ Lose(i)
  \/ SetEncryptionKey

Spec == Init /\ [][Next]_vars

------------------------------------------------------------------------------
Delta(msg) == IF msg.kind = "motion" THEN msg.delta ELSE 0

Quiet(kinds) ==
  /\ \A t \in Threads : sending[t] # Idle => sending[t].msg.kind \notin kinds
  /\ \A i \in flight : sent[i].msg.kind \notin kinds

(* A key or button the host holds down although the user does not, or the   *)
(* other way round, with nothing under way any more, has a cause: a packet  *)
(* lost, late or undecryptable, the focus elsewhere, the client stopped.    *)
(* F1 stays on the client; the extra buttons are not injected.              *)
StuckKeyNeedsCause ==
  causes \subseteq {"renumbered", "doubled", "unadded"} /\ Quiet({"key"}) => down = held \cap Keys

(* The virtual pad stands as the real one does, whatever the poll thread    *)
(* skipped, unless the pad is unplugged: that the client never tells.  It   *)
(* is missing only until the first state, or if it could not be added.      *)
PadFollows ==
  /\ causes \subseteq {"focus", "doubled", "unadded"}
  /\ plugged /\ number = polled /\ Quiet({"pad"})
  => pad = stick \/ (pad = NoPad /\ (number = 0 \/ "unadded" \in causes))

(* All motion the window saw is injected, waits or is under way, modulo the *)
(* width of a motion packet: a move too large for int16_t wraps.            *)
MotionConserved ==
  LET pending == IF sending["poll"] = Idle THEN 0 ELSE Delta(sending["poll"].msg)
      flying == MapThenSumSet(LAMBDA i : Delta(sent[i].msg), flight)
  IN  causes \subseteq {"focus", "renumbered", "overtaken", "unadded"}
        => (moved - (accum + pending + flying + turned)) % Width = 0
=============================================================================
