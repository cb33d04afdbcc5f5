--------------------------- MODULE InputPathProofs ---------------------------
(***************************************************************************)
(* Proofs about InputPath for any keys, moves, pad positions and widths.   *)
(* Three threads send without a lock: what the host holds down, where its  *)
(* pad stands and how far its mouse turned follow what the user did,       *)
(* unless the network, the host's pad driver or the user interfered.       *)
(***************************************************************************)
EXTENDS InputPath, SequenceTheorems, FiniteSetTheorems, WellFoundedInduction, TLAPS

Numbers == 0..(SeqModulus - 1)

Message ==
  [kind : {"key"}, key : Keys \cup XButtons, press : BOOLEAN]
    \cup [kind : {"key"}, key : {PanelKey}, press : {FALSE}]
    \cup [kind : {"pad"}, stick : Sticks]
    \cup [kind : {"motion"}, delta : Int]
    \cup [kind : {"idr"}]

(* What each thread sends. *)
Kinds == [window |-> {"key"}, poll |-> {"pad", "motion"}, decode |-> {"idr"}]

Sends == [phase : {"read", "taken"}, msg : Message, seq : Numbers]
Packets == [msg : Message, seq : Numbers, sealed : BOOLEAN]

SenderTyped ==
  /\ keys \in [client : BOOLEAN, host : BOOLEAN]
  /\ stick \in Sticks
  /\ accum \in Int
  /\ sequence \in Numbers
  /\ sending \in [Threads -> {Idle} \cup Sends]
  /\ sent \in Seq(Packets)

------------------------------------------------------------------------------
LEMMA NarrowIsInt == \A x \in Int : Narrow(x) \in Int
  BY InputAssumption DEF Narrow

LEMMA InitTyped == Init => SenderTyped
  BY InputAssumption, EmptySeq DEF Init, SenderInit, SenderTyped, Idle, Numbers

(* A packet leaves the network. *)
Landing(i) == Receive(i) \/ ReceiveUnadded(i) \/ ReceiveUnreadable(i) \/ Lose(i)

(* What a step does to the numbering: a thread reads the number, counts it  *)
(* up or transmits with it, or nothing of it changes.                       *)
Numbering ==
  \/ \E t \in Threads, msg \in Message : msg.kind \in Kinds[t] /\ Begin(t, msg)
  \/ \E t \in Threads : Count(t)
  \/ \E t \in Threads : Transmit(t)
  \/ UNCHANGED <<sequence, sending, sent>>

LEMMA PressNumbers ==
  ASSUME NEW k \in Keys \cup XButtons \cup {PanelKey}, Press(k) \/ Release(k)
  PROVE  Numbering
<1>1. /\ KeyMessage(k, FALSE) \in Message
      /\ k # PanelKey => KeyMessage(k, TRUE) \in Message
      /\ \A press \in BOOLEAN : KeyMessage(k, press).kind \in Kinds["window"]
  BY DEF KeyMessage, Message, Kinds
<1>2. "window" \in Threads
  BY DEF Threads
<1> QED
  BY <1>1, <1>2 DEF Press, Release, KeyDown, KeyUp, WindowSends, WindowIgnores, senderVars, Numbering

LEMMA PollNumbers == SenderTyped /\ (PollPad \/ FlushMouse) => Numbering
<1>1. SenderTyped => [kind |-> "pad", stick |-> stick] \in Message
  BY DEF SenderTyped, Message
<1>2. SenderTyped => [kind |-> "motion", delta |-> Motion(accum)] \in Message
  BY NarrowIsInt DEF SenderTyped, Message, Motion
<1>3. "poll" \in Threads /\ "pad" \in Kinds["poll"] /\ "motion" \in Kinds["poll"]
  BY DEF Threads, Kinds
<1> QED BY <1>1, <1>2, <1>3 DEF PollPad, FlushMouse, Numbering

LEMMA RequestNumbers == RequestIdr => Numbering
<1>1. [kind |-> "idr"] \in Message
  BY DEF Message
<1>2. "decode" \in Threads /\ "idr" \in Kinds["decode"]
  BY DEF Threads, Kinds
<1> QED BY <1>1, <1>2 DEF RequestIdr, Numbering

LEMMA UserNumbers == UserStep => Numbering
<1> SUFFICES ASSUME UserStep PROVE Numbering
  OBVIOUS
<1>1. CASE \E k \in Keys \cup XButtons \cup {PanelKey} : Press(k) \/ Release(k)
  BY <1>1, PressNumbers
<1>2. CASE RequestIdr
  BY <1>2, RequestNumbers
<1>3. CASE \/ \E d \in Moves : MouseMoves(d)
           \/ FocusChanges \/ StopClient
           \/ \E s \in Sticks : PadChanges(s)
           \/ PadUnplugged \/ PadPlugged
  BY <1>3 DEF MouseMoves, FocusChanges, StopClient, PadChanges, PadUnplugged, PadPlugged, senderVars, Numbering
<1> QED BY <1>1, <1>2, <1>3 DEF UserStep

LEMMA StepNumbers == SenderTyped /\ [Next]_vars => Numbering
<1> SUFFICES ASSUME SenderTyped, [Next]_vars PROVE Numbering
  OBVIOUS
<1>1. CASE SenderStep
  BY <1>1, PollNumbers DEF SenderStep, Numbering
<1>2. CASE UserStep
  BY <1>2, UserNumbers
<1>3. CASE \E i \in 1..MaxSends : Landing(i)
  BY <1>3 DEF Landing, Receive, ReceiveUnadded, ReceiveUnreadable, Lose, Numbering
<1>4. CASE SetEncryptionKey \/ UNCHANGED vars
  BY <1>4 DEF SetEncryptionKey, senderVars, vars, Numbering
<1> QED BY <1>1, <1>2, <1>3, <1>4 DEF Next, Landing

(* No step takes back what has happened. *)
LEMMA CausesGrow == [Next]_vars => causes \subseteq causes'
<1> SUFFICES ASSUME [Next]_vars PROVE causes \subseteq causes'
  OBVIOUS
<1>1. CASE SenderStep
  BY <1>1 DEF SenderStep, Count, Transmit, PollPad, FlushMouse
<1>2. CASE UserStep
  <2>1. CASE \E k \in Keys \cup XButtons \cup {PanelKey} : Press(k) \/ Release(k)
    BY <2>1 DEF Press, Release, KeyDown, KeyUp, WindowSends, WindowIgnores, Excuse, Excuses
  <2> QED
    BY <1>2, <2>1 DEF UserStep, MouseMoves, FocusChanges, StopClient, RequestIdr, PadChanges, PadUnplugged,
                      PadPlugged, Excuse, Excuses
<1>3. CASE \E i \in 1..MaxSends : Landing(i)
  BY <1>3 DEF Landing, Receive, ReceiveUnadded, ReceiveUnreadable, Lose, Fate, Excuse, Excuses
<1>4. CASE SetEncryptionKey \/ UNCHANGED vars
  BY <1>4 DEF SetEncryptionKey, vars
<1> QED BY <1>1, <1>2, <1>3, <1>4 DEF Next, Landing

------------------------------------------------------------------------------
(* The types of what the numbering does not involve. *)
LEMMA UserTyped ==
  SenderTyped /\ [Next]_vars => keys' = keys /\ stick' \in Sticks /\ accum' \in Int
<1> SUFFICES ASSUME SenderTyped, [Next]_vars
             PROVE  keys' = keys /\ stick' \in Sticks /\ accum' \in Int
  OBVIOUS
<1> USE InputAssumption DEF SenderTyped
<1>1. CASE SenderStep
  BY <1>1 DEF SenderStep, Count, Transmit, PollPad, FlushMouse, userVars, clientVars
<1>2. CASE UserStep
  <2>1. CASE \E k \in Keys \cup XButtons \cup {PanelKey} : Press(k) \/ Release(k)
    BY <2>1 DEF Press, Release
  <2>2. CASE \E d \in Moves : MouseMoves(d)
    BY <2>2 DEF MouseMoves, userVars
  <2>3. CASE FocusChanges \/ StopClient \/ RequestIdr \/ PadUnplugged \/ PadPlugged
    BY <2>3 DEF FocusChanges, StopClient, RequestIdr, PadUnplugged, PadPlugged, userVars, clientVars
  <2>4. CASE \E s \in Sticks : PadChanges(s)
    BY <2>4 DEF PadChanges, clientVars
  <2> QED BY <1>2, <2>1, <2>2, <2>3, <2>4 DEF UserStep
<1>3. CASE \E i \in 1..MaxSends : Landing(i)
  BY <1>3 DEF Landing, Receive, ReceiveUnadded, ReceiveUnreadable, Lose, userVars, clientVars
<1>4. CASE SetEncryptionKey \/ UNCHANGED vars
  BY <1>4 DEF SetEncryptionKey, userVars, clientVars, vars
<1> QED BY <1>1, <1>2, <1>3, <1>4 DEF Next, Landing

LEMMA IdlePhase == Idle.phase = "idle"
  BY DEF Idle

LEMMA StepTyped == SenderTyped /\ [Next]_vars => SenderTyped'
<1> SUFFICES ASSUME SenderTyped, [Next]_vars PROVE SenderTyped'
  OBVIOUS
<1>1. Numbering
  BY StepNumbers
<1>2. keys' = keys /\ stick' \in Sticks /\ accum' \in Int
  BY UserTyped
<1>3. \A t \in Threads : sending[t].phase # "idle" => sending[t] \in Sends
  BY IdlePhase DEF SenderTyped
<1>4. ASSUME NEW t \in Threads, NEW msg \in Message, Begin(t, msg)
      PROVE  SenderTyped'
  <2>1. [phase |-> "read", msg |-> msg, seq |-> sequence] \in Sends
    BY DEF SenderTyped, Sends
  <2> QED BY <1>2, <1>4, <2>1 DEF Begin, SenderTyped
<1>5. ASSUME NEW t \in Threads, Count(t)
      PROVE  SenderTyped'
  <2>1. sending[t] \in Sends
    BY <1>3, <1>5 DEF Count
  <2>2. sequence' \in Numbers /\ UNCHANGED sent
    BY <1>5, <2>1, InputAssumption DEF Count, Sends, Numbers
  <2>3. sending' = [sending EXCEPT ![t] = [sending[t] EXCEPT !.phase = "taken"]]
    BY <1>5 DEF Count
  <2>4. [sending[t] EXCEPT !.phase = "taken"] \in Sends
    BY <2>1 DEF Sends
  <2> QED BY <1>2, <2>2, <2>3, <2>4 DEF SenderTyped
<1>6. ASSUME NEW t \in Threads, Transmit(t)
      PROVE  SenderTyped'
  <2>1. sending[t] \in Sends
    BY <1>3, <1>6 DEF Transmit
  <2>2. \A sealed \in BOOLEAN : Packet(sending[t], sealed) \in Packets
    BY <2>1 DEF Packet, Packets, Sends
  <2>3. sent' = sent \/ \E sealed \in BOOLEAN : sent' = Append(sent, Packet(sending[t], sealed))
    BY <1>6 DEF Transmit
  <2>4. sent' \in Seq(Packets)
    BY <2>2, <2>3, AppendProperties DEF SenderTyped
  <2>5. UNCHANGED sequence /\ sending' = [sending EXCEPT ![t] = Idle]
    BY <1>6 DEF Transmit
  <2> QED BY <1>2, <2>4, <2>5 DEF SenderTyped
<1>7. CASE UNCHANGED <<sequence, sending, sent>>
  BY <1>2, <1>7 DEF SenderTyped
<1> QED BY <1>1, <1>4, <1>5, <1>6, <1>7 DEF Numbering

------------------------------------------------------------------------------
(* What the packets say of a key, a button or the pad, as a number: 1 for   *)
(* down, where the pad stands.                                              *)
Subject == [kind : {"key"}, key : Keys] \cup [kind : {"pad"}]
KeySubject(k) == [kind |-> "key", key |-> k]
Pad == [kind |-> "pad"]

About(msg, c) == msg.kind = c.kind /\ (c.kind = "key" => msg.key = c.key)

Level(b) == IF b THEN 1 ELSE 0
ValueOf(msg) == IF msg.kind = "key" THEN Level(msg.press) ELSE msg.stick
Nothing(c) == IF c.kind = "key" THEN 0 ELSE NoPad

(* The last of the first n packets of s that is about c, and what it says.  *)
Latest(s, c, n, i) ==
  i \in 1..n /\ About(s[i].msg, c) /\ \A j \in (i + 1)..n : ~ About(s[j].msg, c)

Value(s, c, n) ==
  IF \E i \in 1..n : Latest(s, c, n, i)
  THEN ValueOf(s[CHOOSE i \in 1..n : Latest(s, c, n, i)].msg)
  ELSE Nothing(c)

LEMMA LatestUnique ==
  ASSUME NEW s, NEW c, NEW n \in Nat, NEW i \in 1..n, Latest(s, c, n, i),
         NEW j \in 1..n, Latest(s, c, n, j)
  PROVE  i = j
BY DEF Latest

LEMMA ValueIs ==
  ASSUME NEW s, NEW c, NEW n \in Nat, NEW i \in 1..n, Latest(s, c, n, i)
  PROVE  Value(s, c, n) = ValueOf(s[i].msg)
<1> DEFINE j == CHOOSE k \in 1..n : Latest(s, c, n, k)
<1>1. j \in 1..n /\ Latest(s, c, n, j)
  OBVIOUS
<1>2. j = i
  BY <1>1, LatestUnique
<1> QED BY <1>2 DEF Value

(* Packets that are not about c leave what is said of it.                   *)
LEMMA ValueKept ==
  ASSUME NEW s, NEW t, NEW c, NEW m \in Nat, NEW n \in Nat, m <= n,
         \A i \in 1..m : t[i].msg = s[i].msg,
         \A i \in (m + 1)..n : ~ About(t[i].msg, c)
  PROVE  Value(t, c, n) = Value(s, c, m)
<1>1. ASSUME NEW i \in 1..m, Latest(s, c, m, i)
      PROVE  i \in 1..n /\ Latest(t, c, n, i)
  BY <1>1 DEF Latest
<1>2. ASSUME NEW i \in 1..n, Latest(t, c, n, i)
      PROVE  i \in 1..m /\ Latest(s, c, m, i)
  BY <1>2 DEF Latest
<1>3. CASE \E i \in 1..m : Latest(s, c, m, i)
  <2>1. PICK i \in 1..m : Latest(s, c, m, i)
    BY <1>3
  <2>2. i \in 1..n /\ Latest(t, c, n, i)
    BY <1>1, <2>1
  <2>3. Value(t, c, n) = ValueOf(t[i].msg) /\ Value(s, c, m) = ValueOf(s[i].msg)
    BY <2>1, <2>2, ValueIs
  <2> QED BY <2>3
<1>4. CASE ~ \E i \in 1..m : Latest(s, c, m, i)
  BY <1>2, <1>4 DEF Value
<1> QED BY <1>3, <1>4

LEMMA ValueNew ==
  ASSUME NEW s, NEW c, NEW n \in Nat \ {0}, About(s[n].msg, c)
  PROVE  Value(s, c, n) = ValueOf(s[n].msg)
<1>1. n \in 1..n /\ Latest(s, c, n, n)
  BY DEF Latest
<1> QED BY <1>1, ValueIs

------------------------------------------------------------------------------
(* The host stands as the first n packets say, for an n behind which        *)
(* nothing has left the network, unless a packet before n that is about c   *)
(* is still under way and may change it.                                    *)
HostValue(c) == IF c.kind = "key" THEN Level(c.key \in down) ELSE pad

(* The pad may be missing all the same, if it could not be added.           *)
PadMissing == pad = NoPad /\ "unadded" \in causes
HostIs(c, value) == HostValue(c) = value \/ (c.kind = "pad" /\ PadMissing)

StandsAt(c, n) ==
  /\ \A j \in (n + 1)..Len(sent) : j \in flight
  /\ (\A i \in 1..(n - 1) : About(sent[i].msg, c) => i \notin flight) => HostIs(c, Value(sent, c, n))

Faithful == {"lost", "overtaken", "key_gap"} \cap causes = {}

HostFollows ==
  /\ down \subseteq Keys /\ flight \subseteq 1..Len(sent)
  /\ Faithful => \A c \in Subject : \E n \in 0..Len(sent) : StandsAt(c, n)

LEMMA InitFollows == Init => HostFollows
<1> SUFFICES ASSUME Init PROVE HostFollows
  OBVIOUS
<1>1. down = {} /\ pad = NoPad /\ flight = {} /\ Len(sent) = 0
  BY EmptySeq DEF Init, SenderInit, ReceiverInit
<1>2. ASSUME NEW c \in Subject PROVE StandsAt(c, 0)
  <2>1. HostValue(c) = Nothing(c)
    BY <1>1 DEF HostValue, Nothing, Level, Subject
  <2>2. Value(sent, c, 0) = Nothing(c)
    BY DEF Value
  <2> QED BY <1>1, <2>1, <2>2 DEF StandsAt, HostIs
<1> QED BY <1>1, <1>2 DEF HostFollows

(* What a step does to what the host has been told. *)
LEMMA HostMoves ==
  ASSUME [Next]_vars
  PROVE  \/ UNCHANGED <<sent, flight, down, pad>>
         \/ \E t \in Threads : Transmit(t) /\ UNCHANGED <<down, pad>>
         \/ \E i \in 1..MaxSends : Landing(i)
<1>1. CASE SenderStep /\ UNCHANGED receiverVars
  BY <1>1 DEF SenderStep, Count, PollPad, FlushMouse, Begin, receiverVars
<1>2. CASE UserStep /\ UNCHANGED receiverVars
  <2>1. CASE \E k \in Keys \cup XButtons \cup {PanelKey} : Press(k) \/ Release(k)
    BY <1>2, <2>1 DEF Press, Release, KeyDown, KeyUp, WindowSends, WindowIgnores, Begin, senderVars, receiverVars
  <2> QED
    BY <1>2, <2>1 DEF UserStep, MouseMoves, FocusChanges, StopClient, RequestIdr, PadChanges, PadUnplugged,
                      PadPlugged, Begin, senderVars, receiverVars
<1>3. CASE SetEncryptionKey \/ UNCHANGED vars
  BY <1>3 DEF SetEncryptionKey, AllocateCrypto, InitCrypto, senderVars, receiverVars, vars
<1> QED BY <1>1, <1>2, <1>3 DEF Next, Landing

(* A new packet is under way, and what it says is not yet expected. *)
LEMMA TransmitFollows ==
  ASSUME SenderTyped, SenderTyped', HostFollows, NEW t \in Threads, Transmit(t), UNCHANGED <<down, pad>>
  PROVE  HostFollows'
<1>1. UNCHANGED causes
  BY DEF Transmit
<1>2. CASE UNCHANGED <<sent, flight>>
  BY <1>1, <1>2 DEF HostFollows, Faithful, StandsAt, HostIs, HostValue, PadMissing
<1>3. CASE /\ \E sealed \in BOOLEAN : sent' = Append(sent, Packet(sending[t], sealed))
           /\ flight' = flight \cup {Len(sent) + 1}
  <2>1. Len(sent) \in Nat /\ Len(sent') = Len(sent) + 1 /\ \A i \in 1..Len(sent) : sent'[i] = sent[i]
    BY <1>3, LenProperties DEF SenderTyped
  <2>2. ASSUME NEW c \in Subject, NEW n \in 0..Len(sent), StandsAt(c, n)
        PROVE  n \in 0..Len(sent') /\ StandsAt(c, n)'
    <3>1. Value(sent', c, n) = Value(sent, c, n)
      <4>1. \A i \in 1..n : sent'[i].msg = sent[i].msg
        BY <2>1
      <4>2. \A i \in (n + 1)..n : ~ About(sent'[i].msg, c)
        OBVIOUS
      <4> QED BY <4>1, <4>2, <2>1, ValueKept
    <3>2. HostIs(c, Value(sent, c, n))' <=> HostIs(c, Value(sent, c, n))
      BY <1>1, <3>1 DEF HostIs, HostValue, PadMissing
    <3>3. \A i \in 1..(n - 1) : sent'[i] = sent[i] /\ (i \in flight' <=> i \in flight)
      BY <1>3, <2>1
    <3>4. \A j \in (n + 1)..Len(sent') : j \in flight'
      BY <1>3, <2>1, <2>2 DEF StandsAt
    <3> QED BY <2>1, <2>2, <3>1, <3>2, <3>3, <3>4 DEF StandsAt
  <2>3. down' \subseteq Keys /\ flight' \subseteq 1..Len(sent')
    <3>1. flight \subseteq 1..Len(sent) /\ down \subseteq Keys
      BY DEF HostFollows
    <3>2. 1..Len(sent) \subseteq 1..Len(sent') /\ Len(sent) + 1 \in 1..Len(sent')
      BY <2>1
    <3> QED BY <1>3, <3>1, <3>2
  <2>4. Faithful' => Faithful
    BY <1>1 DEF Faithful
  <2>5. ASSUME Faithful', NEW c \in Subject PROVE \E n \in 0..Len(sent') : StandsAt(c, n)'
    BY <2>2, <2>4, <2>5 DEF HostFollows
  <2> QED BY <2>3, <2>5 DEF HostFollows
<1> QED BY <1>2, <1>3 DEF Transmit

(* What a packet says of c is what the host does with it. *)
LEMMA InjectSets ==
  ASSUME NEW p \in Packets, Inject(p.msg), down \subseteq Keys, NEW c \in Subject
  PROVE  /\ down' \subseteq Keys
         /\ About(p.msg, c) => HostValue(c)' = ValueOf(p.msg)
         /\ ~ About(p.msg, c) => HostValue(c)' = HostValue(c)
<1> DEFINE msg == p.msg
<1>0. msg \in Message
  BY DEF Packets
<1> HIDE DEF msg
<1>1. CASE msg.kind = "key" /\ msg.key \notin XButtons
  <2>1. InjectKey(msg.key, msg.press)
    BY <1>1 DEF Inject, msg
  <2>2. /\ msg.key \in Keys \cup {PanelKey} /\ msg.press \in BOOLEAN
        /\ msg.key = PanelKey => ~ msg.press
    BY <1>0, <1>1, KeysAssumption DEF Message
  <2>3. /\ down' = IF msg.press THEN down \cup {msg.key} ELSE down \ {msg.key}
        /\ pad' = pad
    BY <1>1, <2>1 DEF InjectKey
  <2> QED BY <1>1, <2>2, <2>3 DEF About, HostValue, ValueOf, Level, Subject, msg
<1>2. CASE msg.kind = "key" /\ msg.key \in XButtons
  <2>1. InjectKey(msg.key, msg.press)
    BY <1>2 DEF Inject, msg
  <2>2. down' = down /\ pad' = pad
    BY <1>2, <2>1 DEF InjectKey
  <2> QED BY <1>2, <2>2, KeysAssumption DEF About, HostValue, Subject, msg
<1>3. CASE msg.kind = "pad"
  <2>1. InjectPad(msg.stick)
    BY <1>3 DEF Inject, msg
  <2> QED BY <1>3, <2>1 DEF InjectPad, About, HostValue, ValueOf, Subject, msg
<1>4. CASE msg.kind \in {"motion", "idr"}
  <2>1. down' = down /\ pad' = pad
    BY <1>4 DEF Inject, InjectMotion, receiverVars, msg
  <2> QED BY <1>4, <2>1 DEF About, HostValue, Subject, msg
<1> QED BY <1>0, <1>1, <1>2, <1>3, <1>4 DEF Message

(* A packet that is not late brings the host to where the packets up to it  *)
(* stand.                                                                   *)
LEMMA ReceiveFollows ==
  ASSUME SenderTyped, HostFollows, NEW i \in 1..MaxSends, Receive(i) \/ ReceiveUnadded(i)
  PROVE  HostFollows'
<1>0. \E cs \in SUBSET {"unadded"} : Fate(i, cs)
  BY DEF Receive, ReceiveUnadded
<1>1. i \in 1..Len(sent) /\ i \in flight /\ Len(sent) \in Nat
  BY <1>0, LenProperties DEF Fate, HostFollows, SenderTyped
<1>2. /\ sent[i] \in Packets /\ sent' = sent
      /\ \/ Inject(sent[i].msg)
         \/ sent[i].msg.kind = "pad" /\ UNCHANGED <<down, pad>> /\ PadMissing'
  BY <1>1, ElementOfSeq
  DEF Receive, ReceiveUnadded, Fate, Excuses, PadNotAdded, PadMissing, receiverVars, SenderTyped
<1>3. flight' \subseteq flight /\ \A j \in flight : j # i => j \in flight'
  BY <1>0 DEF Fate
<1>4. down' \subseteq Keys /\ flight' \subseteq 1..Len(sent')
  <2>1. Pad \in Subject /\ down \subseteq Keys /\ flight \subseteq 1..Len(sent)
    BY DEF Pad, Subject, HostFollows
  <2>2. down' \subseteq Keys
    BY <1>2, <2>1, InjectSets
  <2> QED BY <1>2, <1>3, <2>1, <2>2
<1>5. ASSUME Faithful', NEW c \in Subject
      PROVE  \E n \in 0..Len(sent') : StandsAt(c, n)'
  <2>1. Faithful /\ ~ Late(i)
    BY <1>0, <1>5 DEF Faithful, Fate, Excuses
  <2>2. \A j \in (i + 1)..Len(sent) : j \in flight'
    BY <1>1, <1>3, <2>1 DEF Late
  <2>3. PICK n \in 0..Len(sent) : StandsAt(c, n)
    BY <2>1 DEF HostFollows
  <2>4. CASE About(sent[i].msg, c)
    <3>1. HostIs(c, Value(sent, c, i))'
      <4>1. CASE Inject(sent[i].msg)
        BY <1>1, <1>2, <2>4, <4>1, InjectSets, ValueNew DEF HostFollows, HostIs
      <4>2. CASE sent[i].msg.kind = "pad" /\ PadMissing'
        BY <2>4, <4>2 DEF About, HostIs
      <4> QED BY <1>2, <4>1, <4>2
    <3>2. StandsAt(c, i)'
      BY <1>2, <2>2, <3>1 DEF StandsAt
    <3> QED BY <1>1, <1>2, <3>2
  <2>5. CASE ~ About(sent[i].msg, c)
    <3>1. ASSUME NEW value, HostIs(c, value) PROVE HostIs(c, value)'
      <4>1. HostValue(c)' = HostValue(c)
        BY <1>2, <2>5, InjectSets DEF HostFollows, HostValue
      <4>2. c.kind = "pad" => HostValue(c) = pad /\ HostValue(c)' = pad'
        BY DEF HostValue
      <4> QED BY <1>0, <3>1, <4>1, <4>2 DEF HostIs, PadMissing, Fate, Excuses
    <3>2. \A j \in 1..Len(sent) : About(sent[j].msg, c) => (j \in flight' <=> j \in flight)
      BY <1>3, <2>5
    <3>3. CASE i <= n
      <4>1. \A j \in (n + 1)..Len(sent) : j \in flight'
        BY <1>1, <2>2, <3>3
      <4>2. ASSUME \A j \in 1..(n - 1) : About(sent[j].msg, c) => j \notin flight'
            PROVE  HostIs(c, Value(sent, c, n))
        BY <1>1, <2>3, <3>2, <4>2 DEF StandsAt
      <4>3. StandsAt(c, n)'
        BY <1>2, <3>1, <4>1, <4>2 DEF StandsAt
      <4> QED BY <1>2, <4>3
    <3>4. CASE n < i
      <4>1. ASSUME \A j \in 1..(i - 1) : About(sent[j].msg, c) => j \notin flight'
            PROVE  HostIs(c, Value(sent, c, i))
        <5>1. \A j \in (n + 1)..i : ~ About(sent[j].msg, c)
          BY <1>1, <2>3, <2>5, <3>2, <3>4, <4>1 DEF StandsAt
        <5>2. Value(sent, c, i) = Value(sent, c, n)
          BY <1>1, <3>4, <5>1, ValueKept
        <5>3. \A j \in 1..(n - 1) : About(sent[j].msg, c) => j \notin flight
          BY <1>1, <3>2, <3>4, <4>1
        <5> QED BY <2>3, <5>2, <5>3 DEF StandsAt
      <4>2. StandsAt(c, i)'
        BY <1>2, <2>2, <3>1, <4>1 DEF StandsAt
      <4> QED BY <1>1, <1>2, <4>2
    <3> QED BY <1>1, <3>3, <3>4
  <2> QED BY <2>4, <2>5
<1> QED BY <1>4, <1>5 DEF HostFollows

LEMMA StepFollows == SenderTyped /\ SenderTyped' /\ HostFollows /\ [Next]_vars => HostFollows'
<1> SUFFICES ASSUME SenderTyped, SenderTyped', HostFollows, [Next]_vars PROVE HostFollows'
  OBVIOUS
<1>1. Faithful' => Faithful
  BY CausesGrow DEF Faithful
<1>2. CASE UNCHANGED <<sent, flight, down, pad>>
  BY <1>1, <1>2, CausesGrow DEF HostFollows, StandsAt, HostIs, HostValue, PadMissing
<1>3. CASE \E t \in Threads : Transmit(t) /\ UNCHANGED <<down, pad>>
  BY <1>3, TransmitFollows
<1>4. CASE \E i \in 1..MaxSends : Receive(i) \/ ReceiveUnadded(i)
  BY <1>4, ReceiveFollows
<1>5. ASSUME NEW i \in 1..MaxSends, ReceiveUnreadable(i)
      PROVE  HostFollows'
  <2>1. ~ Faithful' /\ flight' \subseteq flight /\ sent' = sent
    BY <1>5 DEF ReceiveUnreadable, Faithful
  <2>2. down' \subseteq Keys
    BY <1>5 DEF ReceiveUnreadable, InjectCiphertext, InjectKey, InjectPad, InjectMotion, receiverVars, HostFollows
  <2> QED BY <2>1, <2>2 DEF HostFollows
<1>6. ASSUME NEW i \in 1..MaxSends, Lose(i)
      PROVE  HostFollows'
  <2>1. ~ Faithful' /\ flight' \subseteq flight /\ sent' = sent /\ down' = down
    BY <1>6 DEF Lose, Faithful, Excuse, Excuses, receiverVars
  <2> QED BY <2>1 DEF HostFollows
<1> QED BY <1>2, <1>3, <1>4, <1>5, <1>6, HostMoves DEF Landing

------------------------------------------------------------------------------
(* What the client has told, or is about to tell, of a key or of the pad.   *)
Teller(c) == IF c.kind = "key" THEN "window" ELSE "poll"

Said(s, p, c) ==
  IF p # Idle /\ About(p.msg, c) THEN ValueOf(p.msg) ELSE Value(s, c, Len(s))

Told(c) == Said(sent, sending[Teller(c)], c)

(* Each thread sends its own kind of messages; what is told of a key and of *)
(* the pad is how the user holds it, up to what the poll thread has still   *)
(* to see.                                                                  *)
OwnKinds == \A t \in Threads : sending[t] # Idle => sending[t].msg.kind \in Kinds[t]

KeysTold ==
  {"focus", "stop"} \cap causes = {} => running /\ \A k \in Keys : Told(KeySubject(k)) = Level(k \in held)

PadTold ==
  {"stop", "renumbered"} \cap causes = {} =>
    /\ running /\ polled <= number
    /\ number = polled => Told(Pad) = stick \/ (Told(Pad) = NoPad /\ number = 0)

PollTyped == polled \in Nat /\ number \in Nat

ClientTells == PollTyped /\ OwnKinds /\ KeysTold /\ PadTold

LEMMA InitTells == Init => ClientTells
<1> SUFFICES ASSUME Init PROVE ClientTells
  OBVIOUS
<1>1. \A c \in Subject : Told(c) = Nothing(c)
  <2>1. sent = <<>> /\ \A t \in Threads : sending[t] = Idle
    BY DEF Init, SenderInit
  <2>2. \A c \in Subject : Teller(c) \in Threads
    BY DEF Teller, Threads
  <2>3. \A c : Value(sent, c, Len(sent)) = Nothing(c)
    BY <2>1, EmptySeq DEF Value
  <2> QED BY <2>1, <2>2, <2>3 DEF Told, Said
<1>2. Pad \in Subject /\ \A k \in Keys : KeySubject(k) \in Subject
  BY DEF Pad, KeySubject, Subject
<1>3. Nothing(Pad) = NoPad /\ \A k \in Keys : Nothing(KeySubject(k)) = 0
  BY DEF Nothing, Pad, KeySubject
<1>4. PollTyped /\ OwnKinds
  BY DEF Init, SenderInit, PollTyped, OwnKinds
<1>5. KeysTold
  BY <1>1, <1>2, <1>3 DEF Init, SenderInit, KeysTold, Level
<1>6. PadTold
  BY <1>1, <1>2, <1>3 DEF Init, SenderInit, PadTold
<1> QED BY <1>4, <1>5, <1>6 DEF ClientTells

LEMMA TypedSends ==
  ASSUME SenderTyped, NEW t \in Threads, sending[t].phase # "idle"
  PROVE  sending[t] \in Sends /\ sending[t] # Idle
BY IdlePhase DEF SenderTyped

(* SendInput begins: the message replaces what its thread told before.      *)
LEMMA BeginTells ==
  ASSUME SenderTyped, NEW t \in Threads, NEW msg \in Message, msg.kind \in Kinds[t], Begin(t, msg),
         NEW c \in Subject
  PROVE  /\ About(msg, c) => Told(c)' = ValueOf(msg)
         /\ ~ About(msg, c) => Told(c)' = Told(c)
<1>1. sent' = sent /\ sending[t] = Idle
  BY DEF Begin
<1>2. /\ sending'[t].msg = msg /\ sending'[t].phase = "read"
      /\ \A u \in Threads \ {t} : sending'[u] = sending[u]
  BY DEF Begin, SenderTyped
<1>3. sending'[t] # Idle
  BY <1>2, IdlePhase
<1>4. Teller(c) \in Threads
  BY DEF Teller, Threads
<1>5. About(msg, c) => Teller(c) = t
  BY DEF About, Subject, Teller, Kinds, Threads
<1> QED BY <1>1, <1>2, <1>3, <1>4, <1>5 DEF Told, Said

(* Neither the number counted up nor the packet sent changes what is told.  *)
LEMMA CountTells ==
  ASSUME SenderTyped, NEW t \in Threads, Count(t), NEW c \in Subject
  PROVE  Told(c)' = Told(c)
<1>1. sending[t] \in Sends /\ sending[t] # Idle /\ sent' = sent
  BY TypedSends DEF Count
<1>2. sending' = [sending EXCEPT ![t] = [sending[t] EXCEPT !.phase = "taken"]]
  BY DEF Count
<1>3. [sending[t] EXCEPT !.phase = "taken"].msg = sending[t].msg
  BY <1>1 DEF Sends
<1>4. [sending[t] EXCEPT !.phase = "taken"].phase = "taken"
  BY <1>1 DEF Sends
<1>5. /\ sending'[t].msg = sending[t].msg /\ sending'[t] # Idle
      /\ \A u \in Threads \ {t} : sending'[u] = sending[u]
  BY <1>2, <1>3, <1>4, IdlePhase DEF SenderTyped
<1>6. Teller(c) \in Threads
  BY DEF Teller, Threads
<1> QED BY <1>1, <1>5, <1>6 DEF Told, Said

(* What a running client transmits is the message the thread is sending.    *)
LEMMA TransmitSends ==
  ASSUME SenderTyped, NEW t \in Threads, Transmit(t), running
  PROVE  \E p \in Packets : /\ p.msg = sending[t].msg /\ sent' = Append(sent, p)
                            /\ flight' = flight \cup {Len(sent) + 1}
<1>1. sending[t] \in Sends
  BY TypedSends DEF Transmit
<1>2. \A sealed \in BOOLEAN : /\ Packet(sending[t], sealed) \in Packets
                              /\ Packet(sending[t], sealed).msg = sending[t].msg
  BY <1>1 DEF Packet, Packets, Sends
<1>3. PICK sealed \in BOOLEAN : sent' = Append(sent, Packet(sending[t], sealed))
  BY DEF Transmit
<1>4. flight' = flight \cup {Len(sent) + 1}
  BY DEF Transmit
<1> QED BY <1>2, <1>3, <1>4

LEMMA TransmitTells ==
  ASSUME SenderTyped, OwnKinds, NEW t \in Threads, Transmit(t), running, NEW c \in Subject
  PROVE  Told(c)' = Told(c)
<1> DEFINE n == Len(sent)
<1>1. sending[t] \in Sends /\ sending[t] # Idle /\ sending[t].msg.kind \in Kinds[t]
  BY TypedSends DEF Transmit, OwnKinds
<1>2. PICK p \in Packets : sent' = Append(sent, p) /\ p.msg = sending[t].msg
  BY TransmitSends
<1>3. /\ n \in Nat /\ Len(sent') = n + 1
      /\ sent'[n + 1].msg = sending[t].msg
      /\ \A i \in 1..n : sent'[i] = sent[i]
  BY <1>2, LenProperties, AppendProperties DEF SenderTyped
<1>4. sending'[t] = Idle /\ \A u \in Threads \ {t} : sending'[u] = sending[u]
  BY DEF Transmit, SenderTyped
<1>5. Teller(c) \in Threads
  BY DEF Teller, Threads
<1> HIDE DEF n
<1>6. CASE About(sending[t].msg, c)
  <2>1. Teller(c) = t
    BY <1>1, <1>6 DEF About, Subject, Teller, Kinds, Threads
  <2>2. Value(sent', c, n + 1) = ValueOf(sending[t].msg)
    <3>1. About(sent'[n + 1].msg, c) /\ n + 1 \in Nat \ {0}
      BY <1>3, <1>6
    <3> QED BY <1>3, <3>1, ValueNew
  <2> QED BY <1>1, <1>3, <1>4, <1>6, <2>1, <2>2 DEF Told, Said
<1>7. CASE ~ About(sending[t].msg, c)
  <2>1. Value(sent', c, n + 1) = Value(sent, c, n)
    <3>1. /\ n + 1 \in Nat /\ n <= n + 1
          /\ \A i \in 1..n : sent'[i].msg = sent[i].msg
          /\ \A i \in (n + 1)..(n + 1) : ~ About(sent'[i].msg, c)
      BY <1>3, <1>7
    <3> QED BY <1>3, <3>1, ValueKept
  <2>2. CASE Teller(c) = t
    BY <1>3, <1>4, <1>7, <2>1, <2>2 DEF Told, Said, n
  <2>3. CASE Teller(c) # t
    BY <1>3, <1>4, <1>5, <2>1, <2>3 DEF Told, Said, n
  <2> QED BY <2>2, <2>3
<1> QED BY <1>6, <1>7

(* Once its excuse is there a clause of ClientTells asks nothing more.      *)
LEMMA StepOwnKinds == SenderTyped /\ OwnKinds /\ Numbering => OwnKinds'
<1> SUFFICES ASSUME SenderTyped, OwnKinds, Numbering PROVE OwnKinds'
  OBVIOUS
<1>1. ASSUME NEW t \in Threads, NEW msg \in Message, msg.kind \in Kinds[t], Begin(t, msg)
      PROVE  OwnKinds'
  <2>1. sending'[t].msg = msg /\ \A u \in Threads \ {t} : sending'[u] = sending[u]
    BY <1>1 DEF Begin, SenderTyped
  <2> QED BY <1>1, <2>1 DEF OwnKinds
<1>2. ASSUME NEW t \in Threads, Count(t)
      PROVE  OwnKinds'
  <2>1. sending[t] \in Sends /\ sending[t] # Idle
    BY <1>2, TypedSends DEF Count
  <2>2. /\ sending' = [sending EXCEPT ![t] = [sending[t] EXCEPT !.phase = "taken"]]
        /\ [sending[t] EXCEPT !.phase = "taken"].msg = sending[t].msg
    BY <1>2, <2>1 DEF Count, Sends
  <2>3. sending'[t].msg = sending[t].msg /\ \A u \in Threads \ {t} : sending'[u] = sending[u]
    BY <2>2 DEF SenderTyped
  <2> QED BY <2>1, <2>3 DEF OwnKinds
<1>3. ASSUME NEW t \in Threads, Transmit(t)
      PROVE  OwnKinds'
  <2>1. sending'[t] = Idle /\ \A u \in Threads \ {t} : sending'[u] = sending[u]
    BY <1>3 DEF Transmit, SenderTyped
  <2> QED BY <2>1 DEF OwnKinds
<1>4. CASE UNCHANGED <<sequence, sending, sent>>
  BY <1>4 DEF OwnKinds
<1> QED BY <1>1, <1>2, <1>3, <1>4 DEF Numbering

LEMMA StepPolled == PollTyped /\ [Next]_vars => PollTyped'
<1> SUFFICES ASSUME PollTyped, [Next]_vars PROVE PollTyped'
  OBVIOUS
<1> USE DEF PollTyped
<1>1. CASE SenderStep
  BY <1>1 DEF SenderStep, Count, Transmit, PollPad, FlushMouse, userVars, clientVars
<1>2. CASE UserStep
  <2>1. CASE \E k \in Keys \cup XButtons \cup {PanelKey} : Press(k) \/ Release(k)
    BY <2>1 DEF Press, Release
  <2>2. CASE \E d \in Moves : MouseMoves(d)
    BY <2>2 DEF MouseMoves, userVars
  <2>3. CASE FocusChanges \/ StopClient \/ RequestIdr \/ PadUnplugged \/ PadPlugged
    BY <2>3 DEF FocusChanges, StopClient, RequestIdr, PadUnplugged, PadPlugged, userVars, clientVars
  <2>4. CASE \E s \in Sticks : PadChanges(s)
    BY <2>4 DEF PadChanges, clientVars
  <2> QED BY <1>2, <2>1, <2>2, <2>3, <2>4 DEF UserStep
<1>3. CASE \E i \in 1..MaxSends : Landing(i)
  BY <1>3 DEF Landing, Receive, ReceiveUnadded, ReceiveUnreadable, Lose, userVars, clientVars
<1>4. CASE SetEncryptionKey \/ UNCHANGED vars
  BY <1>4 DEF SetEncryptionKey, userVars, clientVars, vars
<1> QED BY <1>1, <1>2, <1>3, <1>4 DEF Next, Landing

(* What is told changes with a message begun only, as long as the client    *)
(* runs.                                                                    *)
LEMMA Quietly ==
  ASSUME SenderTyped, OwnKinds, NEW c \in Subject,
         \/ UNCHANGED <<sending, sent>>
         \/ \E t \in Threads : Count(t) \/ (Transmit(t) /\ running)
         \/ \E t \in Threads, msg \in Message : msg.kind \in Kinds[t] /\ Begin(t, msg) /\ ~ About(msg, c)
  PROVE  Told(c)' = Told(c)
<1>1. CASE UNCHANGED <<sending, sent>>
  BY <1>1 DEF Told
<1>2. CASE \E t \in Threads : Count(t) \/ (Transmit(t) /\ running)
  BY <1>2, CountTells, TransmitTells
<1>3. CASE \E t \in Threads, msg \in Message : msg.kind \in Kinds[t] /\ Begin(t, msg) /\ ~ About(msg, c)
  BY <1>3, BeginTells
<1> QED BY <1>1, <1>2, <1>3

LEMMA PollMessages ==
  ASSUME SenderTyped
  PROVE  /\ [kind |-> "pad", stick |-> stick] \in Message
         /\ [kind |-> "motion", delta |-> Motion(accum)] \in Message
         /\ [kind |-> "idr"] \in Message
BY NarrowIsInt DEF SenderTyped, Message, Motion

LEMMA KindsAre == Kinds["window"] = {"key"} /\ Kinds["poll"] = {"pad", "motion"} /\ Kinds["decode"] = {"idr"}
BY DEF Kinds

(* The poll thread and the decoder tell nothing of the keys.                *)
LEMMA OthersOfKeys ==
  ASSUME SenderTyped, OwnKinds, PollPad \/ FlushMouse \/ RequestIdr, NEW k \in Keys
  PROVE  Told(KeySubject(k))' = Told(KeySubject(k))
<1>1. KeySubject(k) \in Subject
  BY DEF KeySubject, Subject
<1>2. /\ ~ About([kind |-> "pad", stick |-> stick], KeySubject(k))
      /\ ~ About([kind |-> "motion", delta |-> Motion(accum)], KeySubject(k))
      /\ ~ About([kind |-> "idr"], KeySubject(k))
  BY DEF About, KeySubject
<1>3. "poll" \in Threads /\ "decode" \in Threads
  BY DEF Threads
<1>4. CASE PollPad
  BY <1>1, <1>2, <1>3, <1>4, PollMessages, KindsAre, Quietly DEF PollPad
<1>5. CASE FlushMouse
  BY <1>1, <1>2, <1>3, <1>5, PollMessages, KindsAre, Quietly DEF FlushMouse
<1>6. CASE RequestIdr
  BY <1>1, <1>2, <1>3, <1>6, PollMessages, KindsAre, Quietly DEF RequestIdr
<1> QED BY <1>4, <1>5, <1>6

(* A key message the window thread begins is the latest of its key.         *)
LEMMA PressTells ==
  ASSUME SenderTyped, NEW k \in Keys \cup XButtons \cup {PanelKey}, NEW press \in BOOLEAN,
         k = PanelKey => ~ press,
         Begin("window", KeyMessage(k, press)), NEW j \in Keys
  PROVE  Told(KeySubject(j))' = IF j = k THEN Level(press) ELSE Told(KeySubject(j))
<1>1. /\ KeyMessage(k, press) \in Message /\ KeyMessage(k, press).kind = "key"
      /\ KeyMessage(k, press).key = k /\ KeyMessage(k, press).press = press
  BY DEF KeyMessage, Message
<1>2. "window" \in Threads /\ KeySubject(j) \in Subject
  BY DEF Threads, KeySubject, Subject
<1>3. About(KeyMessage(k, press), KeySubject(j)) <=> k = j
  BY <1>1 DEF About, KeySubject
<1>4. ValueOf(KeyMessage(k, press)) = Level(press)
  BY <1>1 DEF ValueOf
<1> QED BY <1>1, <1>2, <1>3, <1>4, KindsAre, BeginTells

LEMMA StepKeysTold == SenderTyped /\ ClientTells /\ [Next]_vars => KeysTold'
<1> SUFFICES ASSUME SenderTyped, ClientTells, [Next]_vars, {"focus", "stop"} \cap causes' = {}
             PROVE  running' /\ \A k \in Keys : Told(KeySubject(k))' = Level(k \in held')
  BY DEF KeysTold
<1>1. /\ OwnKinds /\ running
      /\ \A k \in Keys : Told(KeySubject(k)) = Level(k \in held)
  BY CausesGrow DEF ClientTells, KeysTold
<1>2. \A k \in Keys : KeySubject(k) \in Subject
  BY DEF KeySubject, Subject
<1>3. ASSUME running' = running, held' = held, \A k \in Keys : Told(KeySubject(k))' = Told(KeySubject(k))
      PROVE  running' /\ \A k \in Keys : Told(KeySubject(k))' = Level(k \in held')
  BY <1>1, <1>3
<1>4. CASE PollPad \/ FlushMouse \/ RequestIdr
  <2>1. running' = running /\ held' = held
    BY <1>4 DEF PollPad, FlushMouse, RequestIdr, userVars, clientVars
  <2> QED BY <1>1, <1>3, <1>4, <2>1, OthersOfKeys
<1>5. CASE \E t \in Threads : Count(t) \/ Transmit(t)
  <2>1. running' = running /\ held' = held
    BY <1>5 DEF Count, Transmit, userVars, clientVars
  <2> QED BY <1>1, <1>2, <1>3, <1>5, <2>1, Quietly
<1>6. CASE UNCHANGED <<sending, sent, running, held>>
  BY <1>1, <1>2, <1>3, <1>6, Quietly
<1>7. ASSUME NEW k \in Keys \cup XButtons \cup {PanelKey}, Press(k)
      PROVE  running' /\ \A j \in Keys : Told(KeySubject(j))' = Level(j \in held')
  <2>1. running' = running /\ held' = held \cup {k} /\ KeyDown(k)
    BY <1>7 DEF Press, Excuse, Excuses
  <2>2. CASE k = PanelKey
    <3>1. UNCHANGED <<sending, sent>>
      BY <2>1, <2>2 DEF KeyDown, WindowIgnores, senderVars
    <3>2. \A j \in Keys : j # k
      BY <2>2, KeysAssumption
    <3> QED BY <1>1, <1>2, <2>1, <3>1, <3>2, Quietly
  <2>3. CASE k # PanelKey
    <3>1. Begin("window", KeyMessage(k, TRUE))
      BY <2>1, <2>3 DEF KeyDown, WindowSends
    <3>2. \A j \in Keys : Told(KeySubject(j))' = IF j = k THEN Level(TRUE) ELSE Told(KeySubject(j))
      BY <2>3, <3>1, PressTells
    <3> QED BY <1>1, <2>1, <3>2 DEF Level
  <2> QED BY <2>2, <2>3
<1>8. ASSUME NEW k \in Keys \cup XButtons \cup {PanelKey}, Release(k)
      PROVE  running' /\ \A j \in Keys : Told(KeySubject(j))' = Level(j \in held')
  <2>1. running' = running /\ held' = held \ {k} /\ Begin("window", KeyMessage(k, FALSE))
    BY <1>8 DEF Release, KeyUp, WindowSends, Excuse, Excuses
  <2>2. \A j \in Keys : Told(KeySubject(j))' = IF j = k THEN Level(FALSE) ELSE Told(KeySubject(j))
    BY <2>1, PressTells
  <2> QED BY <1>1, <2>1, <2>2 DEF Level
<1>9. CASE SenderStep
  BY <1>4, <1>5, <1>9 DEF SenderStep
<1>10. CASE UserStep
  <2>1. CASE \E d \in Moves : MouseMoves(d)
    BY <1>6, <2>1 DEF MouseMoves, userVars, senderVars
  <2>2. CASE FocusChanges \/ PadUnplugged \/ PadPlugged \/ \E s \in Sticks : PadChanges(s)
    BY <1>6, <2>2 DEF FocusChanges, PadUnplugged, PadPlugged, PadChanges, clientVars, senderVars
  <2>3. ~ StopClient
    BY DEF StopClient, Excuse, Excuses
  <2> QED BY <1>4, <1>7, <1>8, <1>10, <2>1, <2>2, <2>3 DEF UserStep
<1>11. CASE \E i \in 1..MaxSends : Landing(i)
  BY <1>6, <1>11 DEF Landing, Receive, ReceiveUnadded, ReceiveUnreadable, Lose, userVars, clientVars
<1>12. CASE SetEncryptionKey \/ UNCHANGED vars
  BY <1>6, <1>12 DEF SetEncryptionKey, userVars, clientVars, senderVars, vars
<1> QED BY <1>9, <1>10, <1>11, <1>12 DEF Next, Landing

(* The poll thread tells what the pad did when its packet number moved;     *)
(* every change of the pad moves the number.                                *)
LEMMA StepPadTold == SenderTyped /\ ClientTells /\ [Next]_vars => PadTold'
<1> SUFFICES ASSUME SenderTyped, ClientTells, [Next]_vars, {"stop", "renumbered"} \cap causes' = {}
             PROVE  /\ running' /\ polled' <= number'
                    /\ number' = polled' => Told(Pad)' = stick' \/ (Told(Pad)' = NoPad /\ number' = 0)
  BY DEF PadTold
<1> DEFINE Done == /\ running' /\ polled' <= number'
                   /\ number' = polled' => Told(Pad)' = stick' \/ (Told(Pad)' = NoPad /\ number' = 0)
<1>1. /\ OwnKinds /\ running /\ polled <= number
      /\ number = polled => Told(Pad) = stick \/ (Told(Pad) = NoPad /\ number = 0)
  BY CausesGrow DEF ClientTells, PadTold
<1>2. Pad \in Subject /\ polled \in Nat /\ number \in Nat
  BY DEF Pad, Subject, ClientTells, PollTyped
<1>3. ASSUME UNCHANGED <<running, polled, number, stick>>, Told(Pad)' = Told(Pad) PROVE Done
  BY <1>1, <1>3
<1>4. CASE PollPad
  <2> DEFINE msg == [kind |-> "pad", stick |-> stick]
  <2>1. Begin("poll", msg) /\ UNCHANGED <<running, number, stick>> /\ polled' = number
    BY <1>4 DEF PollPad, userVars
  <2>2. msg \in Message /\ "poll" \in Threads /\ msg.kind \in Kinds["poll"]
    BY PollMessages, KindsAre DEF Threads
  <2>3. About(msg, Pad) /\ ValueOf(msg) = stick
    BY DEF About, Pad, ValueOf
  <2>4. Told(Pad)' = stick
    <3> HIDE DEF msg
    <3> QED BY <1>2, <2>1, <2>2, <2>3, BeginTells
  <2> QED BY <1>1, <1>2, <2>1, <2>4
<1>5. CASE FlushMouse \/ RequestIdr
  <2>1. /\ ~ About([kind |-> "motion", delta |-> Motion(accum)], Pad)
        /\ ~ About([kind |-> "idr"], Pad)
    BY DEF About, Pad
  <2>2. "poll" \in Threads /\ "decode" \in Threads
    BY DEF Threads
  <2>3. CASE FlushMouse
    <3>1. UNCHANGED <<running, polled, number, stick>>
      BY <2>3 DEF FlushMouse, userVars
    <3>2. Told(Pad)' = Told(Pad)
      BY <1>1, <1>2, <2>1, <2>2, <2>3, PollMessages, KindsAre, Quietly DEF FlushMouse
    <3> QED BY <1>3, <3>1, <3>2
  <2>4. CASE RequestIdr
    <3>1. UNCHANGED <<running, polled, number, stick>>
      BY <2>4 DEF RequestIdr, userVars, clientVars
    <3>2. Told(Pad)' = Told(Pad)
      BY <1>1, <1>2, <2>1, <2>2, <2>4, PollMessages, KindsAre, Quietly DEF RequestIdr
    <3> QED BY <1>3, <3>1, <3>2
  <2> QED BY <1>5, <2>3, <2>4
<1>6. CASE \E t \in Threads : Count(t) \/ Transmit(t)
  <2>1. UNCHANGED <<running, polled, number, stick>>
    BY <1>6 DEF Count, Transmit, userVars, clientVars
  <2> QED BY <1>1, <1>2, <1>3, <1>6, <2>1, Quietly
<1>7. CASE UNCHANGED <<sending, sent, running, polled, number, stick>>
  BY <1>1, <1>2, <1>3, <1>7, Quietly
<1>8. CASE \E k \in Keys \cup XButtons \cup {PanelKey} : Press(k) \/ Release(k)
  <2>1. PICK k \in Keys \cup XButtons \cup {PanelKey} : Press(k) \/ Release(k)
    BY <1>8
  <2>2. UNCHANGED <<running, polled, number, stick>>
    BY <2>1 DEF Press, Release
  <2>3. CASE UNCHANGED <<sending, sent>>
    BY <1>1, <1>2, <1>3, <2>2, <2>3, Quietly
  <2>4. ASSUME NEW press \in BOOLEAN, k = PanelKey => ~ press, Begin("window", KeyMessage(k, press))
        PROVE  Done
    <3>1. /\ KeyMessage(k, press) \in Message /\ KeyMessage(k, press).kind = "key"
          /\ ~ About(KeyMessage(k, press), Pad)
      BY <2>4 DEF KeyMessage, Message, About, Pad
    <3>2. Told(Pad)' = Told(Pad)
      <4>1. "window" \in Threads
        BY DEF Threads
      <4> QED BY <1>1, <1>2, <2>4, <3>1, <4>1, KindsAre, Quietly
    <3> QED BY <1>3, <2>2, <3>2
  <2>5. \/ UNCHANGED <<sending, sent>>
        \/ \E press \in BOOLEAN : (k = PanelKey => ~ press) /\ Begin("window", KeyMessage(k, press))
    BY <2>1 DEF Press, Release, KeyDown, KeyUp, WindowSends, WindowIgnores, senderVars
  <2> QED BY <2>3, <2>4, <2>5
<1>9. CASE UserStep
  <2>1. CASE \E d \in Moves : MouseMoves(d)
    BY <1>7, <2>1 DEF MouseMoves, userVars, senderVars
  <2>2. CASE FocusChanges \/ PadUnplugged
    BY <1>7, <2>2 DEF FocusChanges, PadUnplugged, clientVars, senderVars
  <2>3. CASE PadPlugged \/ \E s \in Sticks : PadChanges(s)
    <3>1. running' = running /\ polled' = polled /\ number' = number + 1
      BY <2>3 DEF PadPlugged, PadChanges, clientVars, Excuse, Excuses
    <3> QED BY <1>1, <1>2, <3>1
  <2>4. ~ StopClient
    BY DEF StopClient, Excuse, Excuses
  <2> QED BY <1>5, <1>8, <1>9, <2>1, <2>2, <2>3, <2>4 DEF UserStep
<1>10. CASE SenderStep
  BY <1>4, <1>5, <1>6, <1>10 DEF SenderStep
<1>11. CASE \E i \in 1..MaxSends : Landing(i)
  BY <1>7, <1>11 DEF Landing, Receive, ReceiveUnadded, ReceiveUnreadable, Lose, userVars, clientVars
<1>12. CASE SetEncryptionKey \/ UNCHANGED vars
  BY <1>7, <1>12 DEF SetEncryptionKey, userVars, clientVars, senderVars, vars
<1> QED BY <1>9, <1>10, <1>11, <1>12 DEF Next, Landing

LEMMA StepTells == SenderTyped /\ ClientTells /\ [Next]_vars => ClientTells'
<1> SUFFICES ASSUME SenderTyped, ClientTells, [Next]_vars PROVE ClientTells'
  OBVIOUS
<1>1. PollTyped' /\ OwnKinds'
  BY StepNumbers, StepPolled, StepOwnKinds DEF ClientTells
<1>2. KeysTold' /\ PadTold'
  BY StepKeysTold, StepPadTold
<1> QED BY <1>1, <1>2 DEF ClientTells

------------------------------------------------------------------------------
(* With nothing about c on the way the host stands as the client told.      *)
LEMMA QuietHost ==
  ASSUME SenderTyped, HostFollows, Faithful, NEW c \in Subject, Quiet({c.kind})
  PROVE  HostIs(c, Told(c))
<1>1. PICK n \in 0..Len(sent) : StandsAt(c, n)
  BY DEF HostFollows
<1>2. Len(sent) \in Nat
  BY LenProperties DEF SenderTyped
<1>3. \A i \in flight : ~ About(sent[i].msg, c)
  BY DEF Quiet, About
<1>4. HostIs(c, Value(sent, c, n))
  BY <1>1, <1>3 DEF StandsAt
<1>5. \A i \in (n + 1)..Len(sent) : ~ About(sent[i].msg, c)
  BY <1>1, <1>3 DEF StandsAt
<1>6. Value(sent, c, Len(sent)) = Value(sent, c, n)
  BY <1>2, <1>5, ValueKept
<1>7. Told(c) = Value(sent, c, Len(sent))
  <2>1. Teller(c) \in Threads
    BY DEF Teller, Threads
  <2> QED BY <2>1 DEF Quiet, Told, Said, About
<1> QED BY <1>4, <1>6, <1>7

LEMMA InputInvariant == Spec => [](SenderTyped /\ HostFollows /\ ClientTells)
<1>1. Init => SenderTyped /\ HostFollows /\ ClientTells
  BY InitTyped, InitFollows, InitTells
<1>2. Spec => []SenderTyped
  BY InitTyped, StepTyped, PTL DEF Spec
<1>3. SenderTyped /\ SenderTyped' /\ HostFollows /\ ClientTells /\ [Next]_vars => (HostFollows /\ ClientTells)'
  BY StepFollows, StepTells
<1> QED BY <1>1, <1>2, <1>3, PTL DEF Spec

(* A key or button the host holds otherwise than the user, with no key      *)
(* message on the way, has one of the causes: a packet lost, late or        *)
(* undecryptable, the focus lost or the client stopped; the client itself   *)
(* skips no press and no release, in whatever order its threads send.       *)
THEOREM KeysFollow == Spec => []StuckKeyNeedsCause
<1>1. SenderTyped /\ HostFollows /\ ClientTells => StuckKeyNeedsCause
  <2> SUFFICES ASSUME SenderTyped, HostFollows, ClientTells, Quiet({"key"}),
                      causes \subseteq {"renumbered", "doubled", "unadded"}
               PROVE  down = held \cap Keys
    BY DEF StuckKeyNeedsCause
  <2>1. Faithful /\ {"focus", "stop"} \cap causes = {}
    BY DEF Faithful
  <2>2. ASSUME NEW k \in Keys PROVE k \in down <=> k \in held
    <3>1. KeySubject(k) \in Subject /\ KeySubject(k).kind = "key" /\ KeySubject(k).key = k
      BY DEF KeySubject, Subject
    <3>2. HostValue(KeySubject(k)) = Told(KeySubject(k))
      BY <2>1, <3>1, QuietHost DEF HostIs
    <3>3. Level(k \in down) = Level(k \in held)
      BY <2>1, <3>1, <3>2 DEF ClientTells, KeysTold, HostValue
    <3> QED BY <3>3 DEF Level
  <2> QED BY <2>2 DEF HostFollows
<1> QED BY <1>1, InputInvariant, PTL

(* The virtual pad stands as the real one, or is not there yet or could not *)
(* be added, once the poll thread has seen the pad's last packet number and *)
(* no pad packet is on the way: states it skips in between do not matter.   *)
THEOREM PadsAgree == Spec => []PadFollows
<1>1. SenderTyped /\ HostFollows /\ ClientTells => PadFollows
  <2> SUFFICES ASSUME SenderTyped, HostFollows, ClientTells, Quiet({"pad"}), number = polled,
                      causes \subseteq {"focus", "doubled", "unadded"}
               PROVE  pad = stick \/ (pad = NoPad /\ (number = 0 \/ "unadded" \in causes))
    BY DEF PadFollows
  <2>1. Faithful /\ {"stop", "renumbered"} \cap causes = {}
    BY DEF Faithful
  <2>2. Pad \in Subject /\ Pad.kind = "pad"
    BY DEF Pad, Subject
  <2>3. HostIs(Pad, Told(Pad))
    BY <2>1, <2>2, QuietHost
  <2> QED BY <2>1, <2>2, <2>3 DEF ClientTells, PadTold, HostIs, HostValue, PadMissing
<1> QED BY <1>1, InputInvariant, PTL

------------------------------------------------------------------------------
LEMMA LeastExists ==
  ASSUME NEW S \in SUBSET Nat, S # {}
  PROVE  \E g \in S : \A h \in S : g <= h
<1> DEFINE R == {ss \in Nat \X Nat : ss[1] < ss[2]}
<1>1. IsWellFoundedOn(R, Nat)
  BY NatLessThanWellFounded DEF OpToRel
<1>2. PICK g \in S : \A h \in S : <<h, g>> \notin R
  <2>1. S \subseteq Nat
    OBVIOUS
  <2> HIDE DEF R
  <2>2. \E g \in S : \A h \in S : ~ (<<h, g>> \in R)
    BY <1>1, <2>1, WFMin, Zenon
  <2> QED BY <2>2
<1>3. ASSUME NEW h \in S
      PROVE  g <= h
  <2>1. h \in Nat /\ g \in Nat
    OBVIOUS
  <2>2. <<h, g>> \in Nat \X Nat /\ <<h, g>>[1] = h /\ <<h, g>>[2] = g
    BY <2>1
  <2>3. ~ (h < g)
    BY <1>2, <2>2
  <2> QED BY <2>1, <2>3
<1> QED BY <1>3

(* The motion under way is a sum over a set: MapThenSumSet computes it with *)
(* a recursive function on the subsets, of which these lemmas show that it  *)
(* exists, does not depend on the order and is a sum.                       *)
Flying(s, S) == MapThenSumSet(LAMBDA i : Delta(s[i].msg), S)
Pick(T) == CHOOSE i \in T : TRUE

Summed(g, s, T) == IF T = {} THEN 0 ELSE Delta(s[Pick(T)].msg) + g[T \ {Pick(T)}]
IsSum(g, s, S) == g = [T \in SUBSET S |-> Summed(g, s, T)]

LEMMA PickIn == \A T : T # {} => Pick(T) \in T
BY DEF Pick

LEMMA FlyingIs ==
  ASSUME NEW s, NEW S, NEW g, IsSum(g, s, S)
  PROVE  \E h : IsSum(h, s, S) /\ Flying(s, S) = h[S]
<1> DEFINE h == CHOOSE k : IsSum(k, s, S)
<1>1. IsSum(h, s, S)
  OBVIOUS
<1>2. Flying(s, S) = h[S]
  BY Zenon DEF Flying, MapThenSumSet, MapThenFoldSet, IsSum, Summed, Pick
<1> QED BY <1>1, <1>2

LEMMA SmallerSet ==
  ASSUME NEW T, IsFiniteSet(T), NEW i \in T
  PROVE  /\ IsFiniteSet(T \ {i}) /\ Cardinality(T) \in Nat /\ Cardinality(T \ {i}) \in Nat
         /\ Cardinality(T \ {i}) = Cardinality(T) - 1
BY FS_RemoveElement, FS_CardinalityType

LEMMA SumExists ==
  ASSUME NEW s, NEW S, IsFiniteSet(S)
  PROVE  \E g : IsSum(g, s, S)
<1> DEFINE Sub(n) == {T \in SUBSET S : Cardinality(T) <= n}
           Part(g, n) == g = [T \in Sub(n) |-> Summed(g, s, T)]
           bad == {n \in Nat : ~ \E g : Part(g, n)}
<1>1. \A T \in SUBSET S : IsFiniteSet(T) /\ Cardinality(T) \in Nat
  BY FS_Subset, FS_CardinalityType
<1>2. bad = {}
  <2> SUFFICES ASSUME bad # {} PROVE FALSE
    OBVIOUS
  <2>1. PICK m \in bad : \A n \in bad : m <= n
    <3>1. bad \in SUBSET Nat
      OBVIOUS
    <3> HIDE DEF bad
    <3> QED BY <3>1, LeastExists
  <2>2. m # 0
    <3> DEFINE g == [T \in Sub(0) |-> 0]
    <3>1. \A T \in Sub(0) : Summed(g, s, T) = 0
      <4> SUFFICES ASSUME NEW T \in Sub(0) PROVE T = {}
        BY DEF Summed
      <4>1. IsFiniteSet(T) /\ Cardinality(T) = 0
        BY <1>1
      <4> QED BY <4>1, FS_EmptySet
    <3>2. Part(g, 0)
      BY <3>1
    <3> QED BY <3>2
  <2>3. PICK g : Part(g, m - 1)
    <3>1. m - 1 \in Nat
      BY <2>2
    <3>2. m - 1 \notin bad
      <4>1. m \in Nat /\ \A n \in bad : m <= n
        BY <2>1
      <4> HIDE DEF bad
      <4> QED BY <3>1, <4>1
    <3> QED BY <3>1, <3>2
  <2> DEFINE h == [T \in Sub(m) |-> Summed(g, s, T)]
  <2>4. \A T \in Sub(m - 1) : T \in Sub(m) /\ h[T] = g[T]
    <3>1. \A T \in Sub(m - 1) : T \in Sub(m)
      BY <1>1
    <3>2. \A T \in Sub(m) : h[T] = Summed(g, s, T)
      OBVIOUS
    <3>3. \A T \in Sub(m - 1) : g[T] = Summed(g, s, T)
      BY <2>3
    <3> QED BY <3>1, <3>2, <3>3
  <2>5. \A T \in Sub(m) : Summed(h, s, T) = Summed(g, s, T)
    <3> SUFFICES ASSUME NEW T \in Sub(m) PROVE Summed(h, s, T) = Summed(g, s, T)
      OBVIOUS
    <3>1. CASE T = {}
      BY <3>1 DEF Summed
    <3>2. CASE T # {}
      <4>1. Pick(T) \in T
        BY <3>2, PickIn
      <4>2. Cardinality(T \ {Pick(T)}) = Cardinality(T) - 1 /\ Cardinality(T) \in Nat
        BY <1>1, <4>1, SmallerSet
      <4>3. T \ {Pick(T)} \in Sub(m - 1)
        BY <4>2
      <4>4. h[T \ {Pick(T)}] = g[T \ {Pick(T)}]
        BY <2>4, <4>3
      <4> HIDE DEF h
      <4> QED BY <3>2, <4>4 DEF Summed
    <3> QED BY <3>1, <3>2
  <2>6. Part(h, m)
    BY <2>5
  <2> QED BY <2>6
<1>3. PICK g : Part(g, Cardinality(S))
  <2>1. Cardinality(S) \in Nat
    BY FS_CardinalityType
  <2> QED BY <1>2, <2>1
<1>4. Sub(Cardinality(S)) = SUBSET S
  BY FS_Subset
<1> QED BY <1>3, <1>4 DEF IsSum

LEMMA SumSplits ==
  ASSUME NEW s, NEW S, IsFiniteSet(S), NEW g, IsSum(g, s, S), \A i \in S : Delta(s[i].msg) \in Int
  PROVE  \A T \in SUBSET S : g[T] \in Int /\ \A i \in T : g[T] = Delta(s[i].msg) + g[T \ {i}]
<1> DEFINE d(i) == Delta(s[i].msg)
           Good(T) == g[T] \in Int /\ \A i \in T : g[T] = d(i) + g[T \ {i}]
           bad == {n \in Nat : \E T \in SUBSET S : Cardinality(T) = n /\ ~ Good(T)}
<1>1. \A T \in SUBSET S : IsFiniteSet(T) /\ Cardinality(T) \in Nat
  BY FS_Subset, FS_CardinalityType
<1>2. \A T \in SUBSET S : g[T] = Summed(g, s, T)
  BY DEF IsSum
<1>3. bad = {}
  <2> SUFFICES ASSUME bad # {} PROVE FALSE
    OBVIOUS
  <2>1. PICK m \in bad : \A n \in bad : m <= n
    <3>1. bad \in SUBSET Nat
      OBVIOUS
    <3> HIDE DEF bad
    <3> QED BY <3>1, LeastExists
  <2>2. PICK T \in SUBSET S : Cardinality(T) = m /\ ~ Good(T)
    OBVIOUS
  <2>3. \A U \in SUBSET S : Cardinality(U) < m => Good(U)
    BY <1>1, <2>1
  <2>4. T # {}
    <3>1. g[{}] = 0
      BY <1>2 DEF Summed
    <3>2. Good({})
      BY <3>1
    <3> HIDE DEF Good
    <3> QED BY <2>2, <3>2
  <2> DEFINE x == Pick(T)
  <2>5. x \in T /\ g[T] = d(x) + g[T \ {x}] /\ d(x) \in Int
    BY <1>2, <2>4, PickIn DEF Summed
  <2> HIDE DEF x
  <2>6. \A i \in T : Good(T \ {i}) /\ d(i) \in Int
    <3>1. \A i \in T : Cardinality(T \ {i}) < m
      BY <1>1, <2>2, SmallerSet
    <3> HIDE DEF Good
    <3> QED BY <2>3, <3>1
  <2>7. ASSUME NEW i \in T, i # x
        PROVE  g[T] = d(i) + g[T \ {i}]
    <3>1. g[T \ {x}] = d(i) + g[(T \ {x}) \ {i}] /\ g[T \ {x}] \in Int
      BY <2>5, <2>6, <2>7
    <3>2. g[T \ {i}] = d(x) + g[(T \ {i}) \ {x}] /\ g[T \ {i}] \in Int
      BY <2>5, <2>6, <2>7
    <3>3. (T \ {x}) \ {i} = (T \ {i}) \ {x}
      OBVIOUS
    <3>4. g[(T \ {x}) \ {i}] \in Int
      <4>1. i \in T \ {x} /\ T \ {x} \in SUBSET S /\ Cardinality(T \ {x}) < m
        BY <1>1, <2>2, <2>5, <2>7, SmallerSet
      <4>2. Cardinality((T \ {x}) \ {i}) < m
        <5>1. IsFiniteSet(T \ {x}) /\ i \in T \ {x}
          BY <1>1, <4>1
        <5>2. Cardinality((T \ {x}) \ {i}) = Cardinality(T \ {x}) - 1 /\ Cardinality(T \ {x}) \in Nat
          BY <5>1, SmallerSet
        <5> QED BY <4>1, <5>2
      <4> QED BY <2>3, <4>2
    <3>5. d(i) \in Int /\ d(x) \in Int
      BY <2>5, <2>6
    <3> DEFINE e == g[(T \ {x}) \ {i}]
    <3>6. e \in Int /\ g[T \ {x}] = d(i) + e /\ g[T \ {i}] = d(x) + e
      BY <3>1, <3>2, <3>3, <3>4
    <3> HIDE DEF d, e
    <3> QED BY <2>5, <3>5, <3>6
  <2>8. g[T] \in Int
    <3>1. g[T \ {x}] \in Int
      BY <2>5, <2>6
    <3> QED BY <2>5, <3>1
  <2> QED BY <2>2, <2>5, <2>7, <2>8
<1>4. ASSUME NEW T \in SUBSET S PROVE Good(T)
  <2> HIDE DEF Good
  <2> QED BY <1>1, <1>3
<1> QED BY <1>4

LEMMA SumsAgree ==
  ASSUME NEW s, NEW S, NEW g, IsSum(g, s, S), NEW t, NEW R, NEW h, IsSum(h, t, R),
         \A i \in S \cap R : s[i].msg = t[i].msg,
         NEW U \in SUBSET (S \cap R), IsFiniteSet(U)
  PROVE  g[U] = h[U]
<1> DEFINE bad == {n \in Nat : \E T \in SUBSET U : Cardinality(T) = n /\ g[T] # h[T]}
<1>1. \A T \in SUBSET U : IsFiniteSet(T) /\ Cardinality(T) \in Nat
  BY FS_Subset, FS_CardinalityType
<1>2. \A T \in SUBSET U : g[T] = Summed(g, s, T) /\ h[T] = Summed(h, t, T)
  BY DEF IsSum
<1>3. bad = {}
  <2> SUFFICES ASSUME bad # {} PROVE FALSE
    OBVIOUS
  <2>1. PICK m \in bad : \A n \in bad : m <= n
    <3>1. bad \in SUBSET Nat
      OBVIOUS
    <3> HIDE DEF bad
    <3> QED BY <3>1, LeastExists
  <2>2. PICK T \in SUBSET U : Cardinality(T) = m /\ g[T] # h[T]
    OBVIOUS
  <2>3. T # {}
    BY <1>2, <2>2 DEF Summed
  <2>4. Pick(T) \in T
    BY <2>3, PickIn
  <2>5. g[T \ {Pick(T)}] = h[T \ {Pick(T)}]
    <3>1. Cardinality(T \ {Pick(T)}) \in Nat /\ Cardinality(T \ {Pick(T)}) < m
      BY <1>1, <2>2, <2>4, SmallerSet
    <3>2. Cardinality(T \ {Pick(T)}) \notin bad
      <4>1. m \in Nat /\ \A n \in bad : m <= n
        BY <2>1
      <4> HIDE DEF bad
      <4> QED BY <3>1, <4>1
    <3> QED BY <3>1, <3>2
  <2>6. s[Pick(T)].msg = t[Pick(T)].msg
    BY <2>4
  <2> QED BY <1>2, <2>2, <2>3, <2>5, <2>6 DEF Summed
<1>4. Cardinality(U) \notin bad /\ Cardinality(U) \in Nat
  BY <1>1, <1>3
<1> QED BY <1>4

LEMMA FlyingSame ==
  ASSUME NEW s, NEW t, NEW S, IsFiniteSet(S), \A i \in S : s[i].msg = t[i].msg
  PROVE  Flying(s, S) = Flying(t, S)
<1>1. PICK g : IsSum(g, s, S) /\ Flying(s, S) = g[S]
  BY SumExists, FlyingIs
<1>2. PICK h : IsSum(h, t, S) /\ Flying(t, S) = h[S]
  BY SumExists, FlyingIs
<1>3. g[S] = h[S]
  BY <1>1, <1>2, SumsAgree
<1> QED BY <1>1, <1>2, <1>3

LEMMA FlyingEmpty == \A s : Flying(s, {}) = 0
<1> SUFFICES ASSUME NEW s PROVE Flying(s, {}) = 0
  OBVIOUS
<1>1. IsFiniteSet({})
  BY FS_EmptySet
<1>2. PICK g : IsSum(g, s, {}) /\ Flying(s, {}) = g[{}]
  BY <1>1, SumExists, FlyingIs
<1> QED BY <1>2 DEF IsSum, Summed

LEMMA FlyingAdds ==
  ASSUME NEW s, NEW S, IsFiniteSet(S), NEW i, i \notin S, \A j \in S \cup {i} : Delta(s[j].msg) \in Int
  PROVE  Flying(s, S) \in Int /\ Flying(s, S \cup {i}) = Flying(s, S) + Delta(s[i].msg)
<1> DEFINE R == S \cup {i}
<1>1. IsFiniteSet(R) /\ R \ {i} = S
  BY FS_AddElement
<1>2. PICK g : IsSum(g, s, R) /\ Flying(s, R) = g[R]
  BY <1>1, SumExists, FlyingIs
<1>3. PICK h : IsSum(h, s, S) /\ Flying(s, S) = h[S]
  BY SumExists, FlyingIs
<1>4. h[S] = g[S]
  BY <1>2, <1>3, SumsAgree
<1>5. \A T \in SUBSET R : g[T] \in Int /\ \A j \in T : g[T] = Delta(s[j].msg) + g[T \ {j}]
  <2>1. \A j \in R : Delta(s[j].msg) \in Int
    OBVIOUS
  <2> HIDE DEF R
  <2> QED BY <1>1, <1>2, <2>1, SumSplits
<1>6. g[S] \in Int /\ g[R] = Delta(s[i].msg) + g[S]
  BY <1>1, <1>5
<1> QED BY <1>2, <1>3, <1>4, <1>6

------------------------------------------------------------------------------
(* The motion the window saw is accounted for up to a multiple of Width.    *)
Waiting == IF sending["poll"] = Idle THEN 0 ELSE Delta(sending["poll"].msg)
Account == accum + Waiting + Flying(sent, flight) + turned

MotionTyped == moved \in Int /\ turned \in Int
MotionKept ==
  {"lost", "doubled", "key_gap", "stop"} \cap causes = {}
    => running /\ \E k \in Int : moved - Account = k * Width

LEMMA DeltaIsInt == \A msg \in Message : Delta(msg) \in Int
<1> SUFFICES ASSUME NEW msg \in Message PROVE Delta(msg) \in Int
  OBVIOUS
<1>1. msg.kind = "motion" => msg.delta \in Int
  BY DEF Message
<1> QED BY <1>1 DEF Delta

LEMMA NarrowWraps == \A x \in Int : \E k \in Int : Narrow(x) = x + k * Width
<1> SUFFICES ASSUME NEW x \in Int PROVE \E k \in Int : Narrow(x) = x + k * Width
  OBVIOUS
<1> DEFINE y == x + Width \div 2
           q == y \div Width
<1>1. Width \in Nat /\ Width > 0 /\ Width \div 2 \in Int
  BY InputAssumption
<1>2. y \in Int
  BY <1>1
<1>3. q \in Int /\ y = Width * q + (y % Width) /\ y % Width \in Int
  <2> HIDE DEF y
  <2> QED BY <1>1, <1>2
<1>4. Narrow(x) = (y % Width) - Width \div 2
  BY DEF Narrow
<1> HIDE DEF q
<1>5. Narrow(x) = x + (-q) * Width
  <2>1. (-q) * Width = -(Width * q)
    BY <1>1, <1>3
  <2> DEFINE z == Width * q
             r == y % Width
             c == Width \div 2
  <2>2. z \in Int /\ r \in Int /\ c \in Int /\ y = x + c
    BY <1>1, <1>3
  <2> HIDE DEF y, z, r, c
  <2> QED BY <1>3, <1>4, <2>1, <2>2 DEF z, r, c
<1> QED BY <1>3, <1>5

LEMMA MultipleIsZero == \A k \in Int : (k * Width) % Width = 0
<1> SUFFICES ASSUME NEW k \in Int PROVE (k * Width) % Width = 0
  OBVIOUS
<1>1. Width \in Nat /\ Width > 0
  BY InputAssumption
<1> DEFINE n == k * Width
           x == n \div Width
           y == n % Width
<1>2. n \in Int
  BY <1>1
<1>3. x \in Int /\ y \in 0..(Width - 1) /\ n = Width * x + y
  <2> HIDE DEF n
  <2> QED BY <1>1, <1>2
<1> HIDE DEF x, y
<1>4. Width * (k - x) = y
  BY <1>1, <1>3
<1>5. CASE k - x >= 1
  <2>1. Width * (k - x) >= Width
    BY <1>1, <1>3, <1>5
  <2> QED BY <1>1, <1>3, <1>4, <2>1
<1>6. CASE k - x <= -1
  <2>1. Width * (k - x) <= -Width
    BY <1>1, <1>3, <1>6
  <2> QED BY <1>1, <1>3, <1>4, <2>1
<1>7. CASE k = x
  BY <1>1, <1>3, <1>4, <1>7 DEF y
<1> QED BY <1>3, <1>5, <1>6, <1>7

LEMMA FlyingInt ==
  ASSUME NEW s, NEW S, IsFiniteSet(S), \A j \in S : Delta(s[j].msg) \in Int
  PROVE  Flying(s, S) \in Int
<1>1. PICK g : IsSum(g, s, S) /\ Flying(s, S) = g[S]
  BY SumExists, FlyingIs
<1>2. \A T \in SUBSET S : g[T] \in Int
  BY <1>1, SumSplits
<1> QED BY <1>1, <1>2

LEMMA FlightTyped ==
  ASSUME SenderTyped, HostFollows
  PROVE  /\ Len(sent) \in Nat /\ flight \subseteq 1..Len(sent) /\ IsFiniteSet(flight)
         /\ \A i \in 1..Len(sent) : sent[i].msg \in Message /\ Delta(sent[i].msg) \in Int
         /\ Flying(sent, flight) \in Int
         /\ Waiting \in Int
<1>1. Len(sent) \in Nat /\ flight \subseteq 1..Len(sent)
  BY LenProperties DEF SenderTyped, HostFollows
<1>2. IsFiniteSet(flight)
  <2>1. IsFiniteSet(1..Len(sent))
    BY <1>1, FS_Interval
  <2> QED BY <1>1, <2>1, FS_Subset
<1>3. \A i \in 1..Len(sent) : sent[i].msg \in Message /\ Delta(sent[i].msg) \in Int
  <2>1. \A i \in 1..Len(sent) : sent[i] \in Packets
    BY ElementOfSeq DEF SenderTyped
  <2>2. \A p \in Packets : p.msg \in Message
    BY DEF Packets
  <2> QED BY <2>1, <2>2, DeltaIsInt
<1>4. Flying(sent, flight) \in Int
  BY <1>1, <1>2, <1>3, FlyingInt
<1>5. Waiting \in Int
  <2>1. "poll" \in Threads
    BY DEF Threads
  <2>2. sending["poll"] # Idle => sending["poll"].msg \in Message
    BY <2>1 DEF SenderTyped, Sends
  <2> QED BY <2>2, DeltaIsInt DEF Waiting
<1> QED BY <1>1, <1>2, <1>3, <1>4, <1>5

(* A packet sent adds what it says to the motion under way, and one that is *)
(* injected takes it away.                                                  *)
LEMMA TransmitFlies ==
  ASSUME SenderTyped, HostFollows, NEW t \in Threads, Transmit(t), running
  PROVE  Flying(sent', flight') = Flying(sent, flight) + Delta(sending[t].msg)
<1> DEFINE n == Len(sent) + 1
<1>1. sending[t] \in Sends
  BY TypedSends DEF Transmit
<1>2. PICK p \in Packets : /\ sent' = Append(sent, p) /\ flight' = flight \cup {n}
                           /\ p.msg = sending[t].msg
  BY TransmitSends
<1>3. sent'[n].msg = sending[t].msg /\ \A i \in flight : sent'[i].msg = sent[i].msg
  BY <1>2, FlightTyped, AppendProperties DEF SenderTyped
<1>4. Delta(sending[t].msg) \in Int
  BY <1>1, DeltaIsInt DEF Sends
<1>5. n \notin flight /\ \A i \in flight \cup {n} : Delta(sent'[i].msg) \in Int
  BY <1>3, <1>4, FlightTyped
<1> HIDE DEF n
<1>6. Flying(sent', flight \cup {n}) = Flying(sent', flight) + Delta(sent'[n].msg)
  BY <1>5, FlightTyped, FlyingAdds
<1>7. Flying(sent', flight) = Flying(sent, flight)
  BY <1>3, FlightTyped, FlyingSame
<1> QED BY <1>2, <1>3, <1>6, <1>7

LEMMA LandingTakes ==
  ASSUME SenderTyped, HostFollows, NEW i \in flight
  PROVE  Flying(sent, flight) = Flying(sent, flight \ {i}) + Delta(sent[i].msg)
<1> DEFINE S == flight \ {i}
<1>1. IsFiniteSet(S) /\ i \notin S /\ flight = S \cup {i}
  BY FlightTyped, FS_Subset
<1>2. \A j \in S \cup {i} : Delta(sent[j].msg) \in Int
  BY FlightTyped
<1> HIDE DEF S
<1>3. Flying(sent, S \cup {i}) = Flying(sent, S) + Delta(sent[i].msg)
  BY <1>1, <1>2, FlyingAdds
<1> QED BY <1>1, <1>3 DEF S

LEMMA InjectTurns ==
  ASSUME MotionTyped, NEW msg \in Message, Inject(msg) \/ (msg.kind = "pad" /\ PadNotAdded)
  PROVE  turned' = turned + Delta(msg)
<1>1. CASE msg.kind = "motion"
  BY <1>1 DEF Inject, InjectMotion, Delta
<1>2. CASE msg.kind # "motion"
  <2>1. turned' = turned
    BY <1>2 DEF Inject, InjectKey, InjectPad, PadNotAdded, receiverVars, Message
  <2> QED BY <1>2, <2>1 DEF Delta, MotionTyped
<1> QED BY <1>1, <1>2

LEMMA StepMotionTyped == MotionTyped /\ SenderTyped /\ HostFollows /\ [Next]_vars => MotionTyped'
<1> SUFFICES ASSUME MotionTyped, SenderTyped, HostFollows, [Next]_vars PROVE MotionTyped'
  OBVIOUS
<1> USE DEF MotionTyped
<1>1. CASE SenderStep /\ UNCHANGED receiverVars
  BY <1>1 DEF SenderStep, Count, Transmit, PollPad, FlushMouse, clientVars, receiverVars
<1>2. CASE UserStep /\ UNCHANGED receiverVars
  <2>1. CASE \E k \in Keys \cup XButtons \cup {PanelKey} : Press(k) \/ Release(k)
    BY <1>2, <2>1 DEF Press, Release, receiverVars
  <2>2. CASE \E d \in Moves : MouseMoves(d)
    BY <1>2, <2>2, InputAssumption DEF MouseMoves, receiverVars
  <2> QED
    BY <1>2, <2>1, <2>2 DEF UserStep, FocusChanges, StopClient, RequestIdr, PadChanges, PadUnplugged,
                            PadPlugged, clientVars, receiverVars
<1>3. ASSUME NEW i \in 1..MaxSends, Receive(i) \/ ReceiveUnadded(i) PROVE MotionTyped'
  <2>1. /\ i \in 1..Len(sent) /\ moved' = moved
        /\ Inject(sent[i].msg) \/ (sent[i].msg.kind = "pad" /\ PadNotAdded)
    BY <1>3 DEF Receive, ReceiveUnadded, Fate, HostFollows, clientVars
  <2> QED BY <2>1, FlightTyped, InjectTurns
<1>4. CASE \E i \in 1..MaxSends : ReceiveUnreadable(i) \/ Lose(i)
  <2>1. moved' = moved
    BY <1>4 DEF ReceiveUnreadable, Lose, clientVars
  <2>2. turned' = turned \/ \E d \in Moves : turned' = turned + d
    BY <1>4 DEF ReceiveUnreadable, Lose, InjectCiphertext, InjectKey, InjectPad, InjectMotion, receiverVars
  <2> QED BY <2>1, <2>2, InputAssumption
<1>5. CASE SetEncryptionKey \/ UNCHANGED vars
  BY <1>5 DEF SetEncryptionKey, AllocateCrypto, InitCrypto, clientVars, receiverVars, vars
<1> QED BY <1>1, <1>2, <1>3, <1>4, <1>5 DEF Next

LEMMA WaitingIs ==
  ASSUME SenderTyped, OwnKinds
  PROVE  /\ \A t \in Threads, msg \in Message : Begin(t, msg) =>
              Waiting' = IF t = "poll" THEN Delta(msg) ELSE Waiting
         /\ \A t \in Threads : Count(t) => Waiting' = Waiting
         /\ \A t \in Threads : Transmit(t) => Waiting' + Delta(sending[t].msg) = Waiting
<1>1. "poll" \in Threads
  BY DEF Threads
<1>2. ASSUME NEW t \in Threads, NEW msg \in Message, Begin(t, msg)
      PROVE  Waiting' = IF t = "poll" THEN Delta(msg) ELSE Waiting
  <2>1. /\ sending'[t].msg = msg /\ sending'[t].phase = "read"
        /\ \A u \in Threads \ {t} : sending'[u] = sending[u]
    BY <1>2 DEF Begin, SenderTyped
  <2>2. sending'[t] # Idle
    BY <2>1, IdlePhase
  <2> QED BY <1>1, <2>1, <2>2 DEF Waiting
<1>3. ASSUME NEW t \in Threads, Count(t)
      PROVE  Waiting' = Waiting
  <2>1. sending[t] \in Sends /\ sending[t] # Idle
    BY <1>3, TypedSends DEF Count
  <2>2. /\ sending' = [sending EXCEPT ![t] = [sending[t] EXCEPT !.phase = "taken"]]
        /\ [sending[t] EXCEPT !.phase = "taken"].msg = sending[t].msg
        /\ [sending[t] EXCEPT !.phase = "taken"].phase = "taken"
    BY <1>3, <2>1 DEF Count, Sends
  <2>3. /\ sending'[t].msg = sending[t].msg /\ sending'[t].phase = "taken"
        /\ \A u \in Threads \ {t} : sending'[u] = sending[u]
    BY <2>2 DEF SenderTyped
  <2>4. sending'[t] # Idle
    BY <2>3, IdlePhase
  <2> QED BY <1>1, <2>1, <2>3, <2>4 DEF Waiting
<1>4. ASSUME NEW t \in Threads, Transmit(t)
      PROVE  Waiting' + Delta(sending[t].msg) = Waiting
  <2>1. sending[t] \in Sends /\ sending[t] # Idle
    BY <1>4, TypedSends DEF Transmit
  <2>2. sending'[t] = Idle /\ \A u \in Threads \ {t} : sending'[u] = sending[u]
    BY <1>4 DEF Transmit, SenderTyped
  <2>3. CASE t = "poll"
    <3>1. Delta(sending[t].msg) \in Int
      BY <2>1, DeltaIsInt DEF Sends
    <3> QED BY <2>1, <2>2, <2>3, <3>1 DEF Waiting
  <2>4. CASE t # "poll"
    <3>1. Delta(sending[t].msg) = 0
      BY <2>1, <2>4, KindsAre DEF OwnKinds, Threads, Delta
    <3>2. Waiting' = Waiting
      BY <1>1, <2>2, <2>4 DEF Waiting
    <3>3. Waiting \in Int
      <4>1. sending["poll"] # Idle => sending["poll"].msg \in Message
        BY <1>1 DEF SenderTyped, Sends
      <4> QED BY <4>1, DeltaIsInt DEF Waiting
    <3> QED BY <3>1, <3>2, <3>3
  <2> QED BY <2>3, <2>4
<1> QED BY <1>2, <1>3, <1>4

LEMMA InitMotion == Init => MotionTyped /\ MotionKept
<1> SUFFICES ASSUME Init PROVE MotionTyped /\ MotionKept
  OBVIOUS
<1>1. /\ moved = 0 /\ turned = 0 /\ accum = 0 /\ flight = {} /\ running
      /\ \A t \in Threads : sending[t] = Idle
  BY DEF Init, SenderInit, ReceiverInit
<1>2. Waiting = 0
  BY <1>1 DEF Waiting, Threads
<1>3. Account = 0
  BY <1>1, <1>2, FlyingEmpty DEF Account
<1>4. 0 = 0 * Width
  BY InputAssumption
<1>5. \E k \in Int : moved - Account = k * Width
  BY <1>1, <1>3, <1>4
<1> QED BY <1>1, <1>5 DEF MotionTyped, MotionKept

LEMMA StepMotion ==
  SenderTyped /\ HostFollows /\ OwnKinds /\ MotionTyped /\ MotionKept /\ [Next]_vars => MotionKept'
<1> SUFFICES ASSUME SenderTyped, HostFollows, OwnKinds, MotionTyped, MotionKept, [Next]_vars,
                    {"lost", "doubled", "key_gap", "stop"} \cap causes' = {}
             PROVE  running' /\ \E k \in Int : moved' - Account' = k * Width
  BY DEF MotionKept
<1> DEFINE Kept == running' /\ \E k \in Int : moved' - Account' = k * Width
<1>1. running /\ \E k \in Int : moved - Account = k * Width
  BY CausesGrow DEF MotionKept
<1>2. /\ moved \in Int /\ turned \in Int /\ accum \in Int /\ Waiting \in Int
      /\ Flying(sent, flight) \in Int /\ Width \in Int
  BY FlightTyped, InputAssumption DEF MotionTyped, SenderTyped
<1>3. ASSUME running' = running,
             NEW m \in Int, moved' = moved + m,
             NEW a \in Int, Account' = Account + a,
             NEW j \in Int, m - a = j * Width
      PROVE  Kept
  <2>1. PICK k \in Int : moved - Account = k * Width
    BY <1>1
  <2>2. Account \in Int
    BY <1>2 DEF Account
  <2>3. moved' - Account' = (moved - Account) + (m - a)
    BY <1>2, <1>3, <2>2
  <2>4. moved' - Account' = (k + j) * Width /\ k + j \in Int
    <3>1. (k + j) * Width = k * Width + j * Width
      BY <1>2
    <3> QED BY <1>3, <2>1, <2>3, <3>1
  <2> QED BY <1>1, <1>3, <2>4
<1>4. ASSUME running' = running, moved' = moved, Account' = Account
      PROVE  Kept
  BY <1>1, <1>4
<1>5. ASSUME UNCHANGED <<running, moved, accum, turned, sent, flight>>, Waiting' = Waiting
      PROVE  Kept
  <2>1. Account' = Account
    BY <1>5 DEF Account
  <2> QED BY <1>4, <1>5, <2>1
<1>6. ASSUME NEW t \in Threads, Count(t) \/ Transmit(t), UNCHANGED receiverVars
      PROVE  Kept
  <2>1. UNCHANGED <<running, moved, accum, turned>>
    BY <1>6 DEF Count, Transmit, clientVars, receiverVars
  <2>2. CASE Count(t)
    <3>1. UNCHANGED <<sent, flight>> /\ Waiting' = Waiting
      BY <2>2, WaitingIs DEF Count
    <3> QED BY <1>5, <2>1, <3>1
  <2>3. CASE Transmit(t)
    <3>1. Flying(sent', flight') = Flying(sent, flight) + Delta(sending[t].msg)
      BY <1>1, <2>3, TransmitFlies
    <3>2. Waiting' + Delta(sending[t].msg) = Waiting
      BY <2>3, WaitingIs
    <3>3. Delta(sending[t].msg) \in Int /\ Waiting' \in Int
      <4>1. sending[t].msg \in Message
        BY <2>3, TypedSends DEF Transmit, Sends
      <4>2. sending'["poll"] # Idle => sending'["poll"].msg \in Message
        BY <2>3 DEF Transmit, Threads, SenderTyped, Sends
      <4> QED BY <4>1, <4>2, DeltaIsInt DEF Waiting
    <3>4. Account' = Account
      BY <1>2, <2>1, <3>1, <3>2, <3>3 DEF Account
    <3> QED BY <1>4, <2>1, <3>4
  <2> QED BY <1>6, <2>2, <2>3
<1>7. ASSUME NEW t \in Threads, NEW msg \in Message, Begin(t, msg), t = "poll" => Delta(msg) = 0,
             UNCHANGED <<running, moved, accum, turned>>
      PROVE  Kept
  <2>1. Waiting' = Waiting
    <3>1. t = "poll" => Waiting = 0
      BY <1>7 DEF Begin, Waiting
    <3>2. Waiting' = IF t = "poll" THEN Delta(msg) ELSE Waiting
      BY <1>7, WaitingIs
    <3> QED BY <1>7, <3>1, <3>2
  <2> QED BY <1>5, <1>7, <2>1 DEF Begin
<1>8. ASSUME PollPad \/ RequestIdr, UNCHANGED receiverVars
      PROVE  Kept
  <2>1. UNCHANGED <<running, moved, accum, turned>>
    BY <1>8 DEF PollPad, RequestIdr, clientVars, receiverVars
  <2>2. "poll" \in Threads /\ "decode" \in Threads /\ Delta([kind |-> "pad", stick |-> stick]) = 0
    BY DEF Threads, Delta
  <2>3. CASE PollPad
    BY <1>7, <2>1, <2>2, <2>3, PollMessages DEF PollPad
  <2>4. CASE RequestIdr
    BY <1>7, <2>1, <2>2, <2>4, PollMessages DEF RequestIdr
  <2> QED BY <1>8, <2>3, <2>4
<1>9. ASSUME FlushMouse, UNCHANGED receiverVars
      PROVE  Kept
  <2> DEFINE msg == [kind |-> "motion", delta |-> Motion(accum)]
  <2>1. /\ UNCHANGED <<running, moved, turned, sent, flight>>
        /\ accum' = 0 /\ Begin("poll", msg) /\ "poll" \in Threads
    BY <1>9 DEF FlushMouse, Begin, receiverVars, Threads
  <2>2. PICK j \in Int : Motion(accum) = accum + j * Width
    BY <1>2, NarrowWraps DEF Motion
  <2>3. msg \in Message /\ Delta(msg) = Motion(accum)
    BY PollMessages DEF Delta
  <2>4. Waiting = 0
    BY <2>1 DEF Begin, Waiting
  <2>5. Waiting' = Motion(accum)
    <3> HIDE DEF msg
    <3> QED BY <2>1, <2>3, WaitingIs
  <2>6. Motion(accum) \in Int /\ j * Width \in Int /\ (-j) * Width = -(j * Width)
    BY <1>2, <2>2, NarrowIsInt DEF Motion
  <2>7. Account' = Account + j * Width
    BY <1>2, <2>1, <2>2, <2>4, <2>5, <2>6 DEF Account
  <2>8. moved' = moved + 0 /\ 0 - j * Width = (-j) * Width
    BY <1>2, <2>1, <2>6
  <2>9. 0 \in Int /\ -j \in Int
    OBVIOUS
  <2> HIDE DEF Kept
  <2> QED BY <1>3, <2>1, <2>6, <2>7, <2>8, <2>9
<1>10. ASSUME NEW k \in Keys \cup XButtons \cup {PanelKey}, Press(k) \/ Release(k), UNCHANGED receiverVars
       PROVE  Kept
  <2>1. UNCHANGED <<running, moved, accum, turned>>
    BY <1>10 DEF Press, Release, receiverVars
  <2>2. CASE UNCHANGED senderVars
    BY <1>5, <2>1, <2>2 DEF senderVars, Waiting
  <2>3. ASSUME NEW press \in BOOLEAN, k = PanelKey => ~ press, Begin("window", KeyMessage(k, press))
        PROVE  Kept
    <3>1. KeyMessage(k, press) \in Message /\ "window" \in Threads
      BY <2>3 DEF KeyMessage, Message, Threads
    <3> QED BY <1>7, <2>1, <2>3, <3>1
  <2>4. \/ UNCHANGED senderVars
        \/ \E press \in BOOLEAN : (k = PanelKey => ~ press) /\ Begin("window", KeyMessage(k, press))
    BY <1>10 DEF Press, Release, KeyDown, KeyUp, WindowSends, WindowIgnores
  <2> QED BY <2>2, <2>3, <2>4
<1>11. ASSUME NEW d \in Moves, MouseMoves(d), UNCHANGED receiverVars
       PROVE  Kept
  <2>1. /\ running' = running /\ moved' = moved + d /\ accum' = accum + d
        /\ UNCHANGED <<turned, sending, sent, flight>>
    BY <1>11 DEF MouseMoves, senderVars, receiverVars
  <2>2. d \in Int
    BY InputAssumption
  <2>3. Account' = Account + d
    <3>1. Waiting' = Waiting
      BY <2>1 DEF Waiting
    <3> QED BY <1>2, <2>1, <2>2, <3>1 DEF Account
  <2>4. 0 \in Int /\ d - d = 0 * Width
    BY <1>2, <2>2
  <2> HIDE DEF Kept
  <2> QED BY <1>3, <2>1, <2>2, <2>3, <2>4
<1>12. ASSUME FocusChanges \/ PadUnplugged \/ PadPlugged \/ (\E s \in Sticks : PadChanges(s)), UNCHANGED receiverVars
       PROVE  Kept
  <2>1. UNCHANGED <<running, moved, accum, turned, sending, sent, flight>>
    BY <1>12 DEF FocusChanges, PadUnplugged, PadPlugged, PadChanges, clientVars, senderVars, receiverVars
  <2> QED BY <1>5, <2>1 DEF Waiting
<1>13. ASSUME NEW i \in 1..MaxSends, Receive(i) \/ ReceiveUnadded(i)
       PROVE  Kept
  <2>1. /\ i \in flight /\ flight' = flight \ {i}
        /\ Inject(sent[i].msg) \/ (sent[i].msg.kind = "pad" /\ PadNotAdded)
        /\ UNCHANGED <<running, moved, accum, sending, sent>>
    BY <1>13 DEF Receive, ReceiveUnadded, Fate, Excuses, clientVars
  <2>2. sent[i].msg \in Message /\ Delta(sent[i].msg) \in Int
    BY <2>1, FlightTyped
  <2>3. turned' = turned + Delta(sent[i].msg)
    BY <2>1, <2>2, InjectTurns
  <2>4. Flying(sent, flight) = Flying(sent, flight \ {i}) + Delta(sent[i].msg)
    BY <2>1, LandingTakes
  <2>5. Flying(sent, flight \ {i}) \in Int
    <3>1. IsFiniteSet(flight \ {i}) /\ \A j \in flight \ {i} : Delta(sent[j].msg) \in Int
      BY FlightTyped, FS_Subset
    <3> QED BY <3>1, FlyingInt
  <2>6. Waiting' = Waiting
    BY <2>1 DEF Waiting
  <2>7. Account' = Account
    BY <1>2, <2>1, <2>2, <2>3, <2>4, <2>5, <2>6 DEF Account
  <2> QED BY <1>4, <2>1, <2>7
<1>14. ~ (StopClient \/ \E i \in 1..MaxSends : ReceiveUnreadable(i) \/ Lose(i))
  BY DEF StopClient, ReceiveUnreadable, Lose, Excuse, Excuses
<1>15. CASE SetEncryptionKey \/ UNCHANGED vars
  <2>1. UNCHANGED <<running, moved, accum, turned, sending, sent, flight>>
    BY <1>15 DEF SetEncryptionKey, AllocateCrypto, InitCrypto, clientVars, senderVars, receiverVars, vars
  <2> QED BY <1>5, <2>1 DEF Waiting
<1>16. ASSUME SenderStep, UNCHANGED receiverVars
       PROVE  Kept
  BY <1>6, <1>8, <1>9, <1>16 DEF SenderStep
<1>17. ASSUME UserStep, UNCHANGED receiverVars
       PROVE  Kept
  BY <1>8, <1>10, <1>11, <1>12, <1>14, <1>17 DEF UserStep
<1> QED BY <1>13, <1>14, <1>15, <1>16, <1>17 DEF Next

(* All motion the window saw is injected, waits or is under way, modulo the *)
(* width of a motion packet, unless a packet is lost, doubled or cannot be  *)
(* read: the threads share no lock and the packets no order, and none of    *)
(* that loses or repeats a move.                                            *)
THEOREM MotionNotLost == Spec => []MotionConserved
<1>1. MotionTyped /\ MotionKept => MotionConserved
  <2> SUFFICES ASSUME MotionKept, causes \subseteq {"focus", "renumbered", "overtaken", "unadded"}
               PROVE  (moved - Account) % Width = 0
    BY Zenon DEF MotionConserved, Account, Waiting, Flying
  <2>1. \E k \in Int : moved - Account = k * Width
    BY DEF MotionKept
  <2> QED BY <2>1, MultipleIsZero
<1>2. Init => MotionTyped /\ MotionKept
  BY InitMotion
<1>3. SenderTyped /\ HostFollows /\ ClientTells /\ MotionTyped /\ MotionKept /\ [Next]_vars
        => (MotionTyped /\ MotionKept)'
  BY StepMotionTyped, StepMotion DEF ClientTells
<1> QED BY <1>1, <1>2, <1>3, InputInvariant, PTL DEF Spec
=============================================================================
