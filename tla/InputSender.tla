----------------------------- MODULE InputSender -----------------------------
(***************************************************************************)
(* The client's half of the input path: WndProc (client/main.cpp), the     *)
(* poll thread of client/input/input_capture.cpp and SendInput of          *)
(* common/transport/input_sender.cpp, which the window, poll and decode    *)
(* threads call without a lock.                                            *)
(***************************************************************************)
EXTENDS Integers, Sequences, FiniteSets

CONSTANTS
  Sessions,        (* who may have been given the session key                *)
  Keys,            (* keys and mouse buttons the host can inject              *)
  XButtons,        (* the fourth and fifth mouse button                      *)
  PanelKey,        (* F1                                                     *)
  Sticks,          (* positions of the game pad; 0 is the centre             *)
  Moves,           (* what the mouse moves by at once                        *)
  SeqModulus,      (* stands for 2^16, the sequence numbers of input packets *)
  Width,           (* stands for 2^16, the values of an int16_t              *)
  MaxEvents,       (* bound: what the user does                              *)
  MaxSends,        (* bound: packets                                         *)
  MaxCauses        (* bound: kinds of mishaps outside the program            *)

ASSUME InputAssumption ==
  /\ Sessions \subseteq [client : BOOLEAN, host : BOOLEAN]
  /\ 0 \in Sticks /\ Sticks \subseteq Nat /\ Moves \subseteq Int
  /\ SeqModulus \in Nat \ {0} /\ Width \in Nat \ {0}
  /\ MaxEvents \in Nat /\ MaxSends \in Nat /\ MaxCauses \in Nat

(* F1 and the extra buttons are not among what the host injects. *)
ASSUME KeysAssumption == PanelKey \notin Keys \cup XButtons /\ Keys \cap XButtons = {}

Threads == {"window", "poll", "decode"}

VARIABLES
  keys,            (* which ends have been given the session key             *)
  running,         (* g_running                                              *)
  focused,         (* the window receives the keyboard                       *)
  held,            (* what the user holds down                               *)
  plugged, stick, number,     (* the game pad and its dwPacketNumber         *)
  polled,          (* prevState's dwPacketNumber                             *)
  moved, accum,    (* mouse motion passed on, and m_mouseAccum               *)
  sequence,        (* m_sequence                                             *)
  sending,         (* the SendInput each thread is in                        *)
  sent, flight,    (* the packets sent, and those still under way            *)
  events,
  causes           (* what happened that excuses the host                    *)

userVars == <<focused, held, plugged, stick, number>>
clientVars == <<keys, running, polled, moved, accum>>
senderVars == <<sequence, sending, sent, flight>>

Idle == [phase |-> "idle"]

SenderInit ==
  /\ keys \in Sessions
  /\ running = TRUE
  /\ focused = TRUE
  /\ held = {}
  /\ plugged = TRUE /\ stick = 0 /\ number = 0
  /\ polled = 0
  /\ moved = 0 /\ accum = 0
  /\ sequence = 0
  /\ sending = [t \in Threads |-> Idle]
  /\ sent = <<>> /\ flight = {}
  /\ events = 0
  /\ causes = {}

Event == running /\ events < MaxEvents /\ events' = events + 1
Excuses(cs) == causes' = causes \cup cs /\ (cs = {} \/ Cardinality(causes') <= MaxCauses)
Excuse(c) == Excuses({c})

(* The cast to int16_t. *)
Narrow(x) == ((x + Width \div 2) % Width) - Width \div 2

------------------------------------------------------------------------------
(* SendInput: the sequence number is read, ...                              *)
Begin(t, msg) ==
  /\ sending[t] = Idle
  /\ Len(sent) < MaxSends
  /\ sending' = [sending EXCEPT ![t] = [phase |-> "read", msg |-> msg, seq |-> sequence]]
  /\ UNCHANGED <<sequence, sent, flight>>

(* ... written back, not atomically, ...                                    *)
Count(t) ==
  /\ sending[t].phase = "read"
  /\ sequence' = (sending[t].seq + 1) % SeqModulus
  /\ sending' = [sending EXCEPT ![t].phase = "taken"]
  /\ UNCHANGED <<userVars, clientVars, sent, flight, events, causes>>

(* ... and the packet goes out, its payload encrypted if there is a key and *)
(* a payload and Encrypt does not fail; after Shutdown the socket is closed. *)
Packet(p, sealed) == [msg |-> p.msg, seq |-> p.seq, sealed |-> sealed]

Transmit(t) ==
  /\ sending[t].phase = "taken"
  /\ sending' = [sending EXCEPT ![t] = Idle]
  /\ IF running
       THEN /\ \E sealed \in BOOLEAN :
                 /\ sealed => keys.client /\ sending[t].msg.kind # "idr"
                 /\ sent' = Append(sent, Packet(sending[t], sealed))
            /\ flight' = flight \cup {Len(sent) + 1}
       ELSE UNCHANGED <<sent, flight>>
  /\ UNCHANGED <<userVars, clientVars, sequence, events, causes>>

------------------------------------------------------------------------------
(* Window thread.  WndProc is called for one message after the other.       *)

WindowSends(msg) == Begin("window", msg) /\ UNCHANGED causes
WindowIgnores == sending["window"] = Idle /\ UNCHANGED <<senderVars, causes>>

KeyMessage(k, press) == [kind |-> "key", key |-> k, press |-> press]

(* The overlay sees every message first but keeps none of a key or button:  *)
(* ImGui's handler returns 0 for them.  F1 shows and hides it.              *)
KeyDown(k) == IF k = PanelKey THEN WindowIgnores ELSE WindowSends(KeyMessage(k, TRUE))

(* Mutant of KeyUp: as for a key that goes down, bit 30 (the key was down   *)
(* before) makes WndProc drop the message.                                  *)
KeyUpOnce(k) == IF k \in held THEN WindowIgnores ELSE WindowSends(KeyMessage(k, FALSE))

KeyUp(k) == WindowSends(KeyMessage(k, FALSE))

(* Auto-repeat is not forwarded: a key goes down once.                      *)
Press(k) ==
  /\ Event
  /\ k \notin held
  /\ held' = held \cup {k}
  /\ IF focused THEN KeyDown(k) ELSE UNCHANGED senderVars /\ Excuse("focus")
  /\ UNCHANGED <<keys, running, focused, plugged, stick, number, polled, moved, accum>>

Release(k) ==
  /\ Event
  /\ k \in held
  /\ held' = held \ {k}
  /\ IF focused THEN KeyUp(k) ELSE UNCHANGED senderVars /\ Excuse("focus")
  /\ UNCHANGED <<keys, running, focused, plugged, stick, number, polled, moved, accum>>

MouseMoves(d) ==
  /\ Event
  /\ moved' = moved + d
  /\ accum' = accum + d
  /\ UNCHANGED <<userVars, keys, running, polled, senderVars, causes>>

(* External: another window gets the keyboard, or this one again.           *)
FocusChanges ==
  /\ Event
  /\ focused' = ~ focused
  /\ UNCHANGED <<held, plugged, stick, number, clientVars, senderVars, causes>>

(* ESC or the window is closed: g_session->Stop() joins the poll thread.    *)
StopClient ==
  /\ running
  /\ sending["window"] = Idle /\ sending["poll"] = Idle
  /\ running' = FALSE
  /\ Excuse("stop")
  /\ UNCHANGED <<userVars, keys, polled, moved, accum, senderVars, events>>

------------------------------------------------------------------------------
(* Poll thread, and the decoder's request for an IDR frame. *)

(* Mutant of PollPad: a new state is sent the next time it changes.         *)
PollPadLate ==
  /\ running /\ plugged /\ number # polled
  /\ polled' = number
  /\ IF polled = 0 THEN UNCHANGED senderVars ELSE Begin("poll", [kind |-> "pad", stick |-> stick])
  /\ UNCHANGED <<userVars, keys, running, moved, accum, events, causes>>

PollPad ==
  /\ running /\ plugged /\ number # polled
  /\ Begin("poll", [kind |-> "pad", stick |-> stick])
  /\ polled' = number
  /\ UNCHANGED <<userVars, keys, running, moved, accum, events, causes>>

(* Mutant of Motion: a move that is too large is cut short.                 *)
Saturated(x) == IF x < -(Width \div 2) THEN -(Width \div 2)
                ELSE IF x >= Width \div 2 THEN (Width \div 2) - 1 ELSE x

Motion(x) == Narrow(x)

FlushMouse ==
  /\ running /\ accum # 0
  /\ Begin("poll", [kind |-> "motion", delta |-> Motion(accum)])
  /\ accum' = 0
  /\ UNCHANGED <<userVars, keys, running, polled, moved, events, causes>>

RequestIdr ==
  /\ Event
  /\ Begin("decode", [kind |-> "idr"])
  /\ UNCHANGED <<userVars, clientVars, causes>>

(* External: the pad.  XInput counts its states, and after a new plug-in    *)
(* may count from the start; what it does unplugged nobody learns.          *)
PadChanges(s) ==
  /\ Event
  /\ plugged /\ s # stick
  /\ stick' = s
  /\ number' = number + 1
  /\ UNCHANGED <<focused, held, plugged, clientVars, senderVars, causes>>

PadUnplugged ==
  /\ Event
  /\ plugged
  /\ plugged' = FALSE
  /\ UNCHANGED <<focused, held, stick, number, clientVars, senderVars, causes>>

PadPlugged ==
  /\ Event
  /\ ~ plugged
  /\ plugged' = TRUE
  /\ \/ stick' = 0 /\ number' = number + 1 /\ UNCHANGED causes
     \/ stick' = 0 /\ number' = 0 /\ Excuse("renumbered")
  /\ UNCHANGED <<focused, held, clientVars, senderVars>>

SenderStep ==
  \/ \E t \in Threads : Count(t) \/ Transmit(t)
  \/ PollPad \/ FlushMouse

UserStep ==
  \/ \E k \in Keys \cup XButtons \cup {PanelKey} : Press(k) \/ Release(k)
  \/ \E d \in Moves : MouseMoves(d)
  \/ FocusChanges \/ StopClient \/ RequestIdr
  \/ \E s \in Sticks : PadChanges(s)
  \/ PadUnplugged \/ PadPlugged
=============================================================================
