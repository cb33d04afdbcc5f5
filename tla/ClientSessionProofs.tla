------------------------- MODULE ClientSessionProofs -------------------------
(***************************************************************************)
(* Proofs about ClientSession for any width of the report, any number of   *)
(* frames and any order in which the network delivers them.                *)
(***************************************************************************)
EXTENDS ClientSession, TLAPS

Live(w) == thread[w] \notin {"none", "ended"}

SessionTyped ==
  /\ session \in [doing: {"init", "failed", "streaming", "flags", "close", "signal", "join", "stopped"}, step: 0..7]
  /\ Doing("init") \/ Doing("signal") \/ Doing("join") => session.step \in 1..7
  /\ running \subseteq Workers
  /\ thread \in [Workers -> {"none", "loop", "shifted", "record", "read", "ended"}]
  /\ open \subseteq UNION {Owns(w) : w \in Workers}
  /\ \A w \in running : Live(w)

(* The receiver has been started before the decoder, Stop has joined every  *)
(* thread that comes earlier in its order, and closes no socket before its  *)
(* thread has been told.                                                    *)
InOrder ==
  /\ Doing("init") /\ session.step > 1 => "frame_event" \in open
  /\ Doing("init") /\ session.step <= 2 => thread["decode"] = "none"
  /\ Doing("close") \/ Doing("signal") \/ Doing("join") => ToldFirst \cap running = {}
  /\ Doing("signal") \/ Doing("join") => \A j \in 1..7 : j < session.step => ~ Live(StopOrder[j])

(* What is open: without the excuses of OpenWhileNeeded this is inductive,  *)
(* since the decoder's use of the poll thread's socket needs none while     *)
(* that thread has it open.                                                 *)
KeptOpen ==
  /\ \A w \in Workers \ (ToldFirst \cup {"decode"}) : Live(w) => Owns(w) \subseteq open
  /\ \A w \in ToldFirst \cap running : Owns(w) \subseteq open
  /\ Live("decode") => "frame_event" \in open

------------------------------------------------------------------------------
LEMMA WorkerNames ==
  /\ Workers = {"receive", "decode", "render", "poll", "audio", "feedback", "haptic"}
  /\ Len(StartOrder) = 7 /\ Len(StopOrder) = 7
  /\ \A i \in 1..7 : StartOrder[i] \in Workers /\ StopOrder[i] \in Workers
<1>1. Len(StartOrder) = 7 /\ Len(StopOrder) = 7
  BY DEF StartOrder, StopOrder
<1>2. \A i \in 1..7 : i \in {1, 2, 3, 4, 5, 6, 7}
  OBVIOUS
<1>3. Workers = {"receive", "decode", "render", "poll", "audio", "feedback", "haptic"}
  BY <1>1, <1>2 DEF Workers, StartOrder
<1>4. \A i \in 1..7 : StartOrder[i] \in Workers
  BY <1>1 DEF Workers
<1>5. \A i \in 1..7 : StopOrder[i] \in Workers
  BY <1>2, <1>3 DEF StopOrder
<1> QED BY <1>1, <1>3, <1>4, <1>5

LEMMA OwnsApart == \A v, w \in Workers : v # w => Owns(v) \cap Owns(w) = {}
  BY WorkerNames DEF Owns

LEMMA KeptIsOpen == SessionTyped /\ KeptOpen => OpenWhileNeeded
<1> SUFFICES ASSUME SessionTyped, KeptOpen, NEW w \in Workers, Live(w), NEW r \in Uses(w) \ open
             PROVE  \/ w \in ToldFirst \ running
                    \/ w = "decode" /\ r = "input_socket" /\ thread["poll"] \in {"none", "ended"}
  BY DEF OpenWhileNeeded, Live
<1>1. CASE w = "decode"
  <2>1. r = "input_socket"
    BY <1>1 DEF Uses, KeptOpen
  <2>2. Live("poll") => "input_socket" \in open
    BY WorkerNames DEF KeptOpen, ToldFirst, Owns
  <2> QED BY <1>1, <2>1, <2>2 DEF Live
<1>2. CASE w \in ToldFirst
  <2>1. Uses(w) = Owns(w)
    BY <1>2 DEF Uses, ToldFirst
  <2> QED BY <1>2, <2>1 DEF KeptOpen
<1>3. CASE w \notin ToldFirst \cup {"decode"}
  BY <1>3 DEF KeptOpen, Uses
<1> QED BY <1>1, <1>2, <1>3

LEMMA InitOrdered == Init => SessionTyped /\ InOrder /\ KeptOpen
  BY WorkerNames DEF Init, Phase, Doing, SessionTyped, InOrder, KeptOpen, Live, Owns

LEMMA StepOrdered ==
  SessionTyped /\ InOrder /\ KeptOpen /\ [Next]_vars => SessionTyped' /\ InOrder' /\ KeptOpen'
<1> SUFFICES ASSUME SessionTyped, InOrder, KeptOpen, [Next]_vars
             PROVE  SessionTyped' /\ InOrder' /\ KeptOpen'
  OBVIOUS
<1>1. CASE StartWorker
  <2> DEFINE w == StartOrder[session.step]
  <2>1. w \in Workers /\ session.step \in 1..7 /\ Doing("init")
    BY <1>1, WorkerNames DEF StartWorker, SessionTyped
  <2>2. session' = AfterStart /\ running' = running \cup {w} /\ open' = open \cup Owns(w)
        /\ thread' = [thread EXCEPT ![w] = "loop"]
    BY <1>1 DEF StartWorker
  <2>3. \/ session' = Phase("streaming", 0)
        \/ session' = Phase("init", session.step + 1) /\ session.step < 7
    BY <2>1, <2>2, WorkerNames DEF AfterStart
  <2>4. SessionTyped'
    BY <2>1, <2>2, <2>3 DEF SessionTyped, Phase, Doing, Live
  <2>5. "frame_event" \in open'
    <3>1. CASE session.step = 1
      BY <2>2, <3>1 DEF StartOrder, Owns
    <3>2. CASE session.step > 1
      BY <2>1, <2>2, <3>2 DEF InOrder
    <3> QED BY <2>1, <3>1, <3>2
  <2>6. InOrder'
    <3>1. ASSUME session' = Phase("init", session.step + 1), session.step + 1 <= 2
          PROVE  thread'["decode"] = "none"
      <4>1. session.step = 1
        BY <2>1, <3>1
      <4>2. w = "receive"
        BY <4>1 DEF StartOrder
      <4> QED BY <2>1, <2>2, <4>1, <4>2, WorkerNames DEF InOrder, SessionTyped
    <3> QED BY <2>1, <2>3, <2>5, <3>1 DEF InOrder, Phase, Doing
  <2>7. \A v \in Workers \ {w} : Live(v)' => Live(v)
    BY <2>1, <2>2 DEF Live, SessionTyped
  <2> HIDE DEF w
  <2> QED BY <2>2, <2>4, <2>5, <2>6, <2>7 DEF KeptOpen
<1>2. CASE StartFails
  <2> DEFINE w == StartOrder[session.step]
  <2>1. /\ UNCHANGED <<running, thread>> /\ Doing("init") /\ session.step \in 1..7
        /\ w \in Workers /\ open \subseteq open' /\ open' \subseteq open \cup Owns(w)
    BY <1>2, WorkerNames DEF StartFails, SessionTyped
  <2>2. \/ session' = Phase("failed", 0)
        \/ session' = Phase("streaming", 0)
        \/ session' = Phase("init", session.step + 1) /\ session.step \in 2..6
    <3>1. session.step = 1 => StartOrder[session.step] = "receive"
      BY DEF StartOrder
    <3> QED BY <1>2, <2>1, <3>1, WorkerNames DEF StartFails, AfterStart
  <2>3. SessionTyped' /\ InOrder'
    BY <2>1, <2>2 DEF SessionTyped, InOrder, Phase, Doing, Live
  <2> QED BY <2>1, <2>3 DEF KeptOpen, Live
<1>3. CASE Stop \/ StopFlags
  <2>1. /\ thread' = thread /\ open' = open /\ running' \subseteq running
        /\ \/ session' = Phase("flags", 0)
           \/ session' = Phase("close", 0) /\ running' = running \ ToldFirst
    BY <1>3 DEF Stop, StopFlags
  <2>2. SessionTyped' /\ InOrder'
    BY <2>1 DEF SessionTyped, InOrder, Phase, Doing, Live
  <2> QED BY <2>1, <2>2 DEF KeptOpen, Live
<1>4. CASE StopSignal
  <2>1. /\ thread' = thread /\ open' = open /\ running' \subseteq running
        /\ Doing("signal") /\ session' = Phase("join", session.step)
    BY <1>4 DEF StopSignal
  <2>2. SessionTyped' /\ InOrder'
    BY <2>1 DEF SessionTyped, InOrder, Phase, Doing, Live
  <2> QED BY <2>1, <2>2 DEF KeptOpen, Live
<1>5. CASE StopCloses
  <2>1. /\ UNCHANGED <<running, thread>> /\ Doing("close") /\ session' = Phase("join", 1)
        /\ open' = open \ UNION {Owns(w) : w \in ToldFirst}
    BY <1>5 DEF StopCloses
  <2>2. SessionTyped' /\ InOrder'
    BY <2>1 DEF SessionTyped, InOrder, Phase, Doing, Live
  <2>3. \A v \in Workers, w \in ToldFirst : v \notin ToldFirst => Owns(v) \cap Owns(w) = {}
    BY OwnsApart, WorkerNames DEF ToldFirst
  <2>4. \A w \in ToldFirst : "frame_event" \notin Owns(w)
    BY DEF ToldFirst, Owns
  <2>5. ToldFirst \cap running' = {}
    BY <2>1 DEF InOrder
  <2> QED BY <2>1, <2>2, <2>3, <2>4, <2>5 DEF KeptOpen, Live
<1>6. CASE StopJoin
  <2> DEFINE w == StopOrder[session.step]
  <2>1. w \in Workers /\ session.step \in 1..7 /\ Doing("join") /\ ~ Live(w)
    BY <1>6, WorkerNames DEF StopJoin, SessionTyped, Live
  <2>2. UNCHANGED <<running, thread>> /\ open' = open \ Owns(w)
    BY <1>6 DEF StopJoin
  <2>3. \/ session' = Phase("stopped", 0)
        \/ session.step < 7 /\ session' = Phase("join", session.step + 1)
        \/ session.step < 7 /\ session' = Phase("signal", session.step + 1)
    BY <1>6, <2>1, WorkerNames DEF StopJoin
  <2>4. SessionTyped'
    BY <2>1, <2>2, <2>3 DEF SessionTyped, Phase, Doing, Live
  <2>5. \A j \in 1..7 : j < session.step + 1 => ~ Live(StopOrder[j])
    <3> SUFFICES ASSUME NEW j \in 1..7, j < session.step + 1 PROVE ~ Live(StopOrder[j])
      OBVIOUS
    <3>1. j < session.step \/ j = session.step
      BY <2>1
    <3> QED BY <2>1, <3>1 DEF InOrder
  <2>6. InOrder'
    BY <2>1, <2>2, <2>3, <2>5 DEF InOrder, Phase, Doing, Live
  <2>7. "frame_event" \in Owns(w) => ~ Live("decode")
    <3>1. "frame_event" \in Owns(w) => session.step = 7
      <4>1. session.step \in {1, 2, 3, 4, 5, 6, 7}
        BY <2>1
      <4> QED BY <4>1 DEF StopOrder, Owns
    <3>2. StopOrder[6] = "decode"
      BY DEF StopOrder
    <3> QED BY <2>1, <3>1, <3>2 DEF InOrder
  <2>8. ASSUME NEW v \in Workers, Live(v), Owns(v) \subseteq open PROVE Owns(v) \subseteq open'
    BY <2>1, <2>2, <2>8, OwnsApart
  <2>9. running \subseteq Workers /\ \A v \in running : Live(v)
    BY DEF SessionTyped
  <2> HIDE DEF w
  <2> QED BY <2>2, <2>4, <2>6, <2>7, <2>8, <2>9 DEF KeptOpen, Live
<1>7. ASSUME NEW w \in Workers, NEW from \in {"loop", "shifted", "record", "read"},
             NEW to \in {"loop", "shifted", "record", "read", "ended"},
             Goes(w, from, to), to = "ended" => w \notin running
      PROVE  SessionTyped' /\ InOrder' /\ KeptOpen'
  <2>1. /\ thread[w] = from /\ thread' = [thread EXCEPT ![w] = to]
        /\ UNCHANGED <<session, running, open>>
    BY <1>7 DEF Goes
  <2>2. \A v \in Workers : Live(v)' => Live(v)
    BY <2>1 DEF Live, SessionTyped
  <2>3. \A v \in running : Live(v)'
    BY <1>7, <2>1 DEF Live, SessionTyped
  <2>4. SessionTyped'
    BY <2>1, <2>3 DEF SessionTyped, Doing
  <2>5. InOrder'
    BY <2>1, <2>2, WorkerNames DEF InOrder, Doing
  <2>6. "decode" \in Workers
    BY WorkerNames
  <2> QED BY <2>1, <2>2, <2>4, <2>5, <2>6 DEF KeptOpen
<1>8. ASSUME NEW w \in Workers, WorkerStep(w)
      PROVE  SessionTyped' /\ InOrder' /\ KeptOpen'
  BY <1>7, <1>8 DEF WorkerStep, EndLoop, FrameDecoded, SendFeedback
<1>9. ASSUME NEW f, DecodeFrame(f)
      PROVE  SessionTyped' /\ InOrder' /\ KeptOpen'
  BY <1>7, <1>9, WorkerNames DEF DecodeFrame
<1>10. CASE UNCHANGED vars
  BY <1>10 DEF vars, sessionVars, SessionTyped, InOrder, KeptOpen, Doing, Live
<1> QED
  BY <1>1, <1>2, <1>3, <1>4, <1>5, <1>6, <1>8, <1>9, <1>10 DEF Next, SessionStep, Environment

(* However far Init got before Stop and however the threads interleave with *)
(* it, Stop closes nothing that is in use, but the feedback and haptic      *)
(* socket under threads it has told to stop, and the poll thread's socket   *)
(* under a decoder that asks for an IDR frame.                              *)
THEOREM ClosedAfterUse == Spec => []OpenWhileNeeded
<1>1. Spec => [](SessionTyped /\ InOrder /\ KeptOpen)
  BY InitOrdered, StepOrdered, PTL DEF Spec
<1> QED BY <1>1, KeptIsOpen, PTL

------------------------------------------------------------------------------
(* Arithmetic of the report's 16 bits, for any width. *)

LEMMA ModRange ==
  \A m \in Nat \ {0}, x \in Int : x % m \in 0..(m - 1) /\ x \div m \in Int /\ x = m * (x \div m) + (x % m)
  BY SMT

LEMMA ModIs ==
  ASSUME NEW m \in Nat \ {0}, NEW q \in Int, NEW r \in 0..(m - 1), NEW x \in Int, x = m * q + r
  PROVE  x % m = r
<1> DEFINE p == x \div m
           s == x % m
<1>1. p \in Int /\ s \in 0..(m - 1) /\ x = m * p + s
  BY ModRange
<1>2. m * (p - q) = r - s /\ m * (q - p) = s - r
  BY <1>1
<1>3. CASE p = q
  BY <1>1, <1>3
<1>4. CASE p - q >= 1
  <2>1. m * (p - q) >= m
    BY <1>1, <1>4
  <2> QED BY <1>1, <1>2, <2>1
<1>5. CASE q - p >= 1
  <2>1. m * (q - p) >= m
    BY <1>1, <1>5
  <2> QED BY <1>1, <1>2, <2>1
<1> QED BY <1>1, <1>3, <1>4, <1>5

(* The 16-bit gap is the distance, or at least MapBits if that is negative. *)
LEMMA GapIs ==
  ASSUME NEW c \in Nat, NEW f \in Nat, ~ Lap(f - c)
  PROVE  LET gap == Number(f - Number(c))
         IN  IF f >= c THEN gap = f - c ELSE gap \in Nat /\ gap >= MapBits
<1> DEFINE M == FrameModulus
           q == c \div M
           x == f - Number(c)
<1>1. M \in Nat \ {0} /\ MapBits \in Nat \ {0}
  BY FeedbackAssumption
<1>2. f - c \in (MapBits - M)..(M - 1)
  BY DEF Lap
<1>3. q \in Int /\ Number(c) \in Int /\ c = M * q + Number(c)
  BY <1>1, ModRange DEF Number
<1>4. x \in Int /\ x = M * q + (f - c)
  <2>1. M * q \in Int
    BY <1>1, <1>3
  <2> QED BY <1>3, <2>1
<1>5. CASE f >= c
  <2>1. f - c \in 0..(M - 1)
    BY <1>1, <1>2, <1>5
  <2>2. x % M = f - c
    <3> DEFINE r == f - c
    <3>1. q \in Int /\ x = M * q + r /\ r \in 0..(M - 1)
      BY <1>3, <1>4, <2>1
    <3> HIDE DEF M, q, x, r
    <3>2. x % M = r
      BY <1>1, <1>4, <3>1, ModIs
    <3> QED BY <3>2 DEF r
  <2> QED BY <1>5, <2>2 DEF Number
<1>6. CASE f < c
  <2>1. f - c + M \in 0..(M - 1) /\ f - c + M >= MapBits
    BY <1>1, <1>2, <1>6
  <2>2. q - 1 \in Int /\ x = M * (q - 1) + (f - c + M)
    BY <1>1, <1>3, <1>4
  <2>3. x % M = f - c + M
    <3> DEFINE r == f - c + M
               p == q - 1
    <3>1. p \in Int /\ x = M * p + r /\ r \in 0..(M - 1)
      BY <2>1, <2>2
    <3> HIDE DEF M, q, x, r, p
    <3>2. x % M = r
      BY <1>1, <1>4, <3>1, ModIs
    <3> QED BY <3>2 DEF r
  <2> QED BY <1>6, <2>1, <2>3 DEF Number
<1> QED BY <1>5, <1>6

------------------------------------------------------------------------------
(* What the bitmap means: bit k stands for the frame k before the one that  *)
(* was decoded last, or that is being recorded; bit 0 may still be missing  *)
(* then.                                                                    *)
MapOf(f, set) == {k \in 0..(MapBits - 1) : f - k \in set}

FeedbackTyped ==
  /\ lastFrameRecv \in FrameNumbers
  /\ recvBitmap \subseteq 0..(MapBits - 1)
  /\ decoding \in Nat /\ basis \in Nat /\ newest \in Nat /\ frames \in Nat
  /\ kept \subseteq 1..newest /\ lapped \in BOOLEAN
  /\ report \in [last: FrameNumbers, clean: BOOLEAN]

(* Between two frames the number is the last one's, and an undisturbed      *)
(* report has read it.                                                      *)
Recorded ==
  /\ \A g \in kept : g <= basis
  /\ IF basis = NoFrame THEN kept = {} /\ ~ lapped ELSE basis \in kept
  /\ decoding # NoFrame => decoding = basis /\ thread["decode"] \in {"shifted", "record"} /\ ~ report.clean
  /\ decoding = NoFrame => lastFrameRecv = Number(basis) /\ thread["decode"] \notin {"shifted", "record"}
  /\ report.clean => report.last = lastFrameRecv

Mapped ==
  ~ lapped => /\ recvBitmap \subseteq MapOf(basis, kept)
              /\ MapOf(basis, kept) \subseteq recvBitmap \cup {0}
              /\ thread["decode"] # "shifted" => recvBitmap = MapOf(basis, kept)

FeedbackInv == FeedbackTyped /\ Recorded /\ Mapped /\ FeedbackTruthful

LEMMA NumberRange == \A n \in Int : Number(n) \in FrameNumbers
  BY FeedbackAssumption, ModRange DEF Number, FrameNumbers

LEMMA InitFeedback == Init => FeedbackInv
<1> SUFFICES ASSUME Init PROVE FeedbackInv
  OBVIOUS
<1>1. Number(0) = 0
  BY FeedbackAssumption, ModIs DEF Number
<1>2. thread["decode"] = "none"
  BY WorkerNames DEF Init
<1>3. MapOf(basis, kept) = {} /\ recvBitmap = {}
  BY DEF Init, FeedbackInit, MapOf
<1>4. FeedbackTyped
  <2>1. 0 \in FrameNumbers
    BY FeedbackAssumption DEF FrameNumbers
  <2> QED BY <2>1 DEF Init, FeedbackInit, FeedbackTyped, NoReport, NoFrame
<1>5. Recorded
  BY <1>1, <1>2 DEF Init, FeedbackInit, Recorded, NoReport, NoFrame
<1>6. Mapped
  BY <1>3 DEF Mapped
<1>7. FeedbackTruthful
  BY DEF Init, FeedbackInit, FeedbackTruthful, NoPacket
<1> QED BY <1>4, <1>5, <1>6, <1>7 DEF FeedbackInv

(* OnFrameDecoded shifts the bitmap: bit b moves to b + gap. *)
LEMMA ShiftKeeps ==
  ASSUME FeedbackTyped, Recorded, Mapped, decoding = NoFrame, NEW f \in Nat \ {0}, ShiftBitmap(f), ~ lapped'
  PROVE  recvBitmap' \subseteq MapOf(f, kept') /\ MapOf(f, kept') \subseteq recvBitmap' \cup {0}
<1> DEFINE gap == Number(f - lastFrameRecv)
<1>1. MapBits \in Nat \ {0} /\ basis \in Nat /\ recvBitmap \subseteq 0..(MapBits - 1)
  BY FeedbackAssumption DEF FeedbackTyped
<1>2. /\ recvBitmap' = Shifted(gap)
      /\ kept' = IF f < basis THEN {f} ELSE kept \cup {f}
      /\ gap >= MapBits \/ (~ lapped /\ (basis # NoFrame => ~ Lap(f - basis)))
  <2>1. gap \in Int
    BY FeedbackAssumption, NumberRange DEF FeedbackTyped, FrameNumbers
  <2>2. ~ (gap < MapBits /\ (lapped \/ (basis # NoFrame /\ Lap(f - basis))))
    BY DEF ShiftBitmap
  <2>3. gap < MapBits \/ gap >= MapBits
    BY <1>1, <2>1
  <2>4. recvBitmap' = Shifted(gap) /\ kept' = IF f < basis THEN {f} ELSE kept \cup {f}
    BY DEF ShiftBitmap
  <2> QED BY <2>2, <2>3, <2>4
<1>3. f \in kept' /\ 0 \in MapOf(f, kept')
  BY <1>1, <1>2 DEF MapOf
<1>4. basis # NoFrame /\ ~ Lap(f - basis) =>
        IF f >= basis THEN gap = f - basis ELSE gap \in Nat /\ gap >= MapBits
  BY <1>1, GapIs DEF Recorded
<1>5. \A g \in kept : g \in Nat /\ g <= basis
  BY DEF FeedbackTyped, Recorded
<1>6. CASE gap >= MapBits
  <2>1. recvBitmap' = {}
    BY <1>2, <1>6 DEF Shifted
  <2>2. ASSUME NEW k \in MapOf(f, kept'), k # 0 PROVE FALSE
    <3>1. k \in 1..(MapBits - 1) /\ f - k \in kept'
      BY <1>1, <2>2 DEF MapOf
    <3>2. f >= basis /\ f - k \in kept
      BY <1>1, <1>2, <3>1
    <3>3. f - k <= basis /\ basis # 0
      BY <1>1, <1>5, <3>2 DEF Recorded, NoFrame
    <3>4. f - basis \in 0..(MapBits - 1)
      BY <1>1, <3>1, <3>2, <3>3
    <3>5. ~ Lap(f - basis)
      BY <1>1, <3>4, FeedbackAssumption DEF Lap
    <3>6. gap = f - basis
      BY <1>4, <3>2, <3>3, <3>5 DEF NoFrame
    <3> QED BY <1>1, <1>6, <3>4, <3>6
  <2> QED BY <2>1, <2>2
<1>7. CASE basis = NoFrame
  <2>1. recvBitmap = {}
    BY <1>2, <1>6, <1>7 DEF Mapped, Recorded, MapOf
  <2>2. recvBitmap' = {} /\ kept' = {f}
    BY <1>1, <1>2, <1>7, <2>1 DEF Shifted, Recorded, NoFrame
  <2>3. MapOf(f, kept') \subseteq {0}
    BY <1>1, <2>2 DEF MapOf
  <2> QED BY <2>2, <2>3
<1>8. CASE ~ (gap >= MapBits) /\ basis # NoFrame
  <2>1. f >= basis /\ gap = f - basis /\ gap < MapBits /\ gap \in Nat
    BY <1>1, <1>2, <1>4, <1>8
  <2>2. kept' = kept \cup {f} /\ recvBitmap \subseteq MapOf(basis, kept) /\ recvBitmap = MapOf(basis, kept)
    BY <1>1, <1>2, <1>8, <2>1 DEF Mapped, Recorded
  <2>3. ASSUME NEW b \in Shifted(gap) PROVE b \in MapOf(f, kept')
    <3>1. b \in 0..(MapBits - 1) /\ b - gap \in recvBitmap
      BY <1>1, <2>1, <2>3 DEF Shifted
    <3>2. basis - (b - gap) \in kept /\ basis - (b - gap) = f - b
      BY <1>1, <2>1, <2>2, <3>1 DEF MapOf
    <3> QED BY <2>2, <3>1, <3>2 DEF MapOf
  <2>4. ASSUME NEW k \in MapOf(f, kept'), k # 0 PROVE k \in Shifted(gap)
    <3>1. k \in 1..(MapBits - 1) /\ f - k \in kept
      BY <1>1, <2>2, <2>4 DEF MapOf
    <3>2. f - k <= basis
      BY <1>5, <3>1
    <3>3. k - gap \in 0..(MapBits - 1) /\ basis - (k - gap) = f - k
      BY <1>1, <2>1, <3>1, <3>2
    <3>4. k - gap \in recvBitmap
      BY <2>2, <3>1, <3>3 DEF MapOf
    <3> QED BY <1>1, <2>1, <3>1, <3>4 DEF Shifted
  <2> QED BY <1>2, <2>3, <2>4
<1> QED BY <1>6, <1>7, <1>8

LEMMA BitmapShifted ==
  ASSUME SessionTyped, FeedbackInv, NEW f \in Nat \ {0}, ShiftBitmap(f), thread["decode"]' = "shifted"
  PROVE  FeedbackInv'
<1> USE DEF FeedbackInv
<1>1. decoding = NoFrame /\ decoding' = f /\ basis' = f /\ UNCHANGED <<lastFrameRecv, sent>>
  BY DEF ShiftBitmap
<1>2. recvBitmap' \subseteq 0..(MapBits - 1)
  <2>1. recvBitmap' = Shifted(Number(f - lastFrameRecv))
    BY DEF ShiftBitmap
  <2> QED BY <2>1 DEF Shifted
<1>3. kept' \subseteq 1..newest' /\ newest' \in Nat
  <2>1. newest \in Nat /\ kept \subseteq 1..newest /\ newest' = IF f > newest THEN f ELSE newest
    BY DEF ShiftBitmap, FeedbackTyped
  <2>2. newest' \in Nat /\ f \in 1..newest' /\ 1..newest \subseteq 1..newest'
    BY <2>1
  <2> QED BY <2>1, <2>2 DEF ShiftBitmap
<1>4. FeedbackTyped'
  <2>1. frames' \in Nat
    BY DEF ShiftBitmap, FeedbackTyped
  <2>2. lapped' \in BOOLEAN
    <3> DEFINE now == Number(f - lastFrameRecv) < MapBits /\ (lapped \/ (basis # NoFrame /\ Lap(f - basis)))
    <3>1. lapped' = now
      BY DEF ShiftBitmap
    <3>2. now \in BOOLEAN
      OBVIOUS
    <3> QED BY <3>1, <3>2
  <2>3. report' \in [last: FrameNumbers, clean: BOOLEAN]
    <3>1. report' = [report EXCEPT !.clean = FALSE]
      BY DEF ShiftBitmap
    <3> QED BY <3>1 DEF FeedbackTyped
  <2> QED BY <1>1, <1>2, <1>3, <2>1, <2>2, <2>3 DEF FeedbackTyped
<1>5. Recorded'
  <2>1. \A g \in kept' : g <= f
    <3>1. \A g \in kept : g \in Nat /\ g <= basis
      BY DEF FeedbackTyped, Recorded
    <3>2. basis \in Nat
      BY DEF FeedbackTyped
    <3> QED BY <3>1, <3>2 DEF ShiftBitmap
  <2>2. report'.clean = FALSE
    BY DEF ShiftBitmap, FeedbackTyped
  <2>3. f \in kept'
    BY DEF ShiftBitmap
  <2> QED BY <1>1, <2>1, <2>2, <2>3 DEF Recorded, NoFrame
<1>6. Mapped'
  BY <1>1, ShiftKeeps DEF Mapped
<1>7. FeedbackTruthful'
  BY <1>1 DEF FeedbackTruthful
<1> QED BY <1>4, <1>5, <1>6, <1>7

LEMMA BitSet ==
  ASSUME FeedbackInv, SetBit, thread["decode"] = "shifted", thread["decode"]' = "record"
  PROVE  FeedbackInv'
<1> USE DEF FeedbackInv
<1>1. decoding # NoFrame /\ basis # NoFrame /\ basis \in kept /\ basis \in Nat
  BY DEF Recorded, FeedbackTyped
<1>2. 0 \in MapOf(basis, kept) /\ MapBits \in Nat \ {0}
  BY <1>1, FeedbackAssumption DEF MapOf
<1>3. recvBitmap' = recvBitmap \cup {0} /\ UNCHANGED <<lastFrameRecv, decoding, report, sent, historyVars>>
  BY DEF SetBit
<1>4. FeedbackTyped' /\ Recorded' /\ FeedbackTruthful'
  BY <1>2, <1>3 DEF historyVars, FeedbackTyped, Recorded, FeedbackTruthful
<1>5. Mapped'
  BY <1>2, <1>3 DEF historyVars, Mapped
<1> QED BY <1>4, <1>5

LEMMA NumberRecorded ==
  ASSUME FeedbackInv, RecordNumber, thread["decode"] = "record", thread["decode"]' = "loop"
  PROVE  FeedbackInv'
<1> USE DEF FeedbackInv
<1>1. decoding # NoFrame /\ decoding = basis /\ ~ report.clean
  BY DEF Recorded
<1>2. /\ decoding' = NoFrame /\ lastFrameRecv' = Number(basis)
      /\ UNCHANGED <<recvBitmap, report, sent, historyVars>>
  BY <1>1 DEF RecordNumber
<1>3. FeedbackTyped'
  BY <1>2, NumberRange DEF historyVars, FeedbackTyped, NoFrame
<1>4. Recorded' /\ Mapped' /\ FeedbackTruthful'
  BY <1>1, <1>2 DEF historyVars, Recorded, Mapped, FeedbackTruthful
<1> QED BY <1>3, <1>4

LEMMA NumberRead ==
  ASSUME FeedbackInv, ReadNumber, UNCHANGED (thread["decode"])
  PROVE  FeedbackInv'
<1> USE DEF FeedbackInv
<1>1. report' = [last |-> lastFrameRecv, clean |-> decoding = NoFrame]
      /\ UNCHANGED <<lastFrameRecv, recvBitmap, decoding, sent, historyVars>>
  BY DEF ReadNumber
<1>2. (decoding = NoFrame) \in BOOLEAN
  OBVIOUS
<1>3. report'.last = lastFrameRecv /\ report'.clean = (decoding = NoFrame)
  BY <1>1
<1>4. report' \in [last: FrameNumbers, clean: BOOLEAN]
  BY <1>1, <1>2 DEF FeedbackTyped
<1>5. FeedbackTyped' /\ FeedbackTruthful' /\ Mapped'
  BY <1>1, <1>4 DEF historyVars, FeedbackTyped, FeedbackTruthful, Mapped
<1>6. Recorded'
  BY <1>1, <1>3 DEF historyVars, Recorded
<1> QED BY <1>5, <1>6

LEMMA ReportSent ==
  ASSUME FeedbackInv, SendReport, UNCHANGED (thread["decode"])
  PROVE  FeedbackInv'
<1> USE DEF FeedbackInv
<1>1. report' = NoReport /\ UNCHANGED <<lastFrameRecv, recvBitmap, decoding, historyVars>>
  BY DEF SendReport
<1>2. sent' = [last |-> report.last, map |-> recvBitmap, clean |-> report.clean,
               of |-> Number(basis), kept |-> MapOf(basis, kept), lapped |-> lapped]
  BY DEF SendReport, Kept, MapOf
<1>3. 0 \in FrameNumbers
  BY FeedbackAssumption DEF FrameNumbers
<1>4. FeedbackTyped' /\ Mapped'
  BY <1>1, <1>3 DEF historyVars, FeedbackTyped, Mapped, NoReport
<1>5. Recorded'
  BY <1>1 DEF historyVars, Recorded, NoReport
<1>6. report.clean => report.last = Number(basis) /\ thread["decode"] # "shifted"
  BY DEF Recorded
<1>7. FeedbackTruthful'
  <2>1. /\ sent'.last = report.last /\ sent'.map = recvBitmap /\ sent'.clean = report.clean
        /\ sent'.of = Number(basis) /\ sent'.kept = MapOf(basis, kept) /\ sent'.lapped = lapped
    BY <1>2
  <2> QED BY <1>6, <2>1 DEF FeedbackTruthful, Mapped
<1> QED BY <1>4, <1>5, <1>7

LEMMA StepFeedback == SessionTyped /\ InOrder /\ FeedbackInv /\ [Next]_vars => FeedbackInv'
<1> SUFFICES ASSUME SessionTyped, InOrder, FeedbackInv, [Next]_vars PROVE FeedbackInv'
  OBVIOUS
<1>0. "decode" \in Workers /\ "feedback" \in Workers
  BY WorkerNames
<1>1. ASSUME UNCHANGED feedbackVars, thread["decode"]' \in {"shifted", "record"} <=> thread["decode"] \in {"shifted", "record"},
             thread["decode"]' = "shifted" <=> thread["decode"] = "shifted"
      PROVE  FeedbackInv'
  <2>1. FeedbackTyped' /\ FeedbackTruthful'
    BY <1>1 DEF feedbackVars, historyVars, FeedbackInv, FeedbackTyped, FeedbackTruthful
  <2>2. Recorded' /\ Mapped'
    BY <1>1 DEF feedbackVars, historyVars, FeedbackInv, Recorded, Mapped
  <2> QED BY <2>1, <2>2 DEF FeedbackInv
<1>2. ASSUME NEW f \in {newest + j : j \in Jumps} \cup 1..newest, DecodeFrame(f)
      PROVE  FeedbackInv'
  <2>1. f \in Nat \ {0}
    BY FeedbackAssumption DEF FeedbackInv, FeedbackTyped
  <2>2. thread["decode"]' = "shifted"
    BY <1>0, <1>2 DEF DecodeFrame, Goes, SessionTyped
  <2> QED BY <1>2, <2>1, <2>2, BitmapShifted DEF DecodeFrame
<1>3. CASE SessionStep \/ Stop
  <2>1. UNCHANGED feedbackVars
    BY <1>3 DEF SessionStep, StartWorker, StartFails, StopFlags, StopCloses, StopSignal, StopJoin, Stop
  <2>2. thread' = thread \/ (StartWorker /\ thread' = [thread EXCEPT ![StartOrder[session.step]] = "loop"])
    BY <1>3 DEF SessionStep, StartWorker, StartFails, StopFlags, StopCloses, StopSignal, StopJoin, Stop
  <2>3. CASE StartWorker /\ StartOrder[session.step] = "decode"
    <3>1. session.step <= 2
      <4>1. session.step \in {1, 2, 3, 4, 5, 6, 7}
        BY <2>3 DEF StartWorker, SessionTyped
      <4> QED BY <2>3, <4>1 DEF StartOrder
    <3>2. thread["decode"] = "none"
      BY <2>3, <3>1 DEF InOrder, StartWorker
    <3>3. thread["decode"]' = "loop"
      BY <1>0, <2>3 DEF StartWorker, SessionTyped
    <3> QED BY <1>1, <2>1, <3>2, <3>3
  <2>4. CASE ~ (StartWorker /\ StartOrder[session.step] = "decode")
    <3>1. thread["decode"]' = thread["decode"]
      BY <1>0, <2>2, <2>4 DEF SessionTyped
    <3> QED BY <1>1, <2>1, <3>1
  <2> QED BY <2>3, <2>4
<1>4. ASSUME NEW w \in Workers, WorkerStep(w)
      PROVE  FeedbackInv'
  <2>1. CASE EndLoop(w)
    <3>1. UNCHANGED feedbackVars /\ thread[w] = "loop" /\ thread' = [thread EXCEPT ![w] = "ended"]
      BY <2>1 DEF EndLoop, Goes
    <3> QED BY <1>0, <1>1, <3>1 DEF SessionTyped
  <2>2. CASE w = "decode" /\ FrameDecoded
    <3>1. CASE Goes("decode", "shifted", "record") /\ SetBit
      <4>1. thread["decode"] = "shifted" /\ thread["decode"]' = "record"
        BY <1>0, <3>1 DEF Goes, SessionTyped
      <4> QED BY <3>1, <4>1, BitSet
    <3>2. CASE Goes("decode", "record", "loop") /\ RecordNumber
      <4>1. thread["decode"] = "record" /\ thread["decode"]' = "loop"
        BY <1>0, <3>2 DEF Goes, SessionTyped
      <4> QED BY <3>2, <4>1, NumberRecorded
    <3> QED BY <2>2, <3>1, <3>2 DEF FrameDecoded
  <2>3. CASE w = "feedback" /\ SendFeedback
    <3>1. UNCHANGED (thread["decode"])
      BY <1>0, <2>3 DEF SendFeedback, Goes, SessionTyped
    <3>2. ReadNumber \/ SendReport \/ UNCHANGED feedbackVars
      BY <2>3 DEF SendFeedback, SendIfOpen
    <3> QED BY <1>1, <3>1, <3>2, NumberRead, ReportSent
  <2> QED BY <1>4, <2>1, <2>2, <2>3 DEF WorkerStep
<1>5. CASE UNCHANGED vars
  BY <1>1, <1>5 DEF vars, sessionVars
<1> QED BY <1>2, <1>3, <1>4, <1>5 DEF Next, Environment

(* For any width of the frame number and any order in which frames are      *)
(* decoded, a report shows exactly the frames decoded since one came late;  *)
(* only its number and the last frame's bit may lag, in a race.             *)
THEOREM ReportsTruthful == Spec => []FeedbackTruthful
<1>1. Spec => [](SessionTyped /\ InOrder /\ KeptOpen /\ FeedbackInv)
  <2>1. SessionTyped /\ InOrder /\ KeptOpen /\ FeedbackInv /\ [Next]_vars
          => (SessionTyped /\ InOrder /\ KeptOpen /\ FeedbackInv)'
    BY StepOrdered, StepFeedback
  <2> QED BY <2>1, InitOrdered, InitFeedback, PTL DEF Spec
<1>2. FeedbackInv => FeedbackTruthful
  BY DEF FeedbackInv
<1> QED BY <1>1, <1>2, PTL

------------------------------------------------------------------------------
(* What the last packet says keeps its width.                               *)
PacketTyped ==
  /\ sent.last \in FrameNumbers /\ sent.map \subseteq 0..(MapBits - 1)
  /\ sent.clean \in BOOLEAN /\ sent.lapped \in BOOLEAN

LEMMA InitPackets == Init => PacketTyped
  BY FeedbackAssumption DEF Init, FeedbackInit, PacketTyped, NoPacket, FrameNumbers

LEMMA StepPackets == FeedbackInv /\ PacketTyped /\ [Next]_vars => PacketTyped'
<1> SUFFICES ASSUME FeedbackInv, PacketTyped, [Next]_vars PROVE PacketTyped'
  OBVIOUS
<1>1. CASE UNCHANGED sent
  BY <1>1 DEF PacketTyped
<1>2. CASE SendReport
  <2>1. /\ sent'.last = report.last /\ sent'.map = recvBitmap
        /\ sent'.clean = report.clean /\ sent'.lapped = lapped
    BY <1>2 DEF SendReport
  <2> QED BY <2>1 DEF PacketTyped, FeedbackInv, FeedbackTyped
<1>3. UNCHANGED sent \/ SendReport
  <2>1. CASE SessionStep \/ Stop
    BY <2>1 DEF SessionStep, StartWorker, StartFails, StopFlags, StopCloses, StopSignal, StopJoin, Stop, feedbackVars
  <2>2. CASE \E w \in Workers : WorkerStep(w)
    BY <2>2
    DEF WorkerStep, EndLoop, FrameDecoded, SetBit, RecordNumber, SendFeedback, SendIfOpen, ReadNumber, feedbackVars
  <2>3. CASE \E f \in {newest + j : j \in Jumps} \cup 1..newest : DecodeFrame(f)
    BY <2>3 DEF DecodeFrame, ShiftBitmap
  <2>4. CASE UNCHANGED vars
    BY <2>4 DEF vars, feedbackVars
  <2> QED BY <2>1, <2>2, <2>3, <2>4 DEF Next, Environment
<1> QED BY <1>1, <1>2, <1>3

(* Types hold in every reachable state, and a worker whose m_running is set *)
(* has been started and has not ended, through every Init and Stop.         *)
THEOREM ClientTypeCorrect == Spec => []TypeOK
<1>1. Spec => [](SessionTyped /\ InOrder /\ KeptOpen)
  BY InitOrdered, StepOrdered, PTL DEF Spec
<1>2. Spec => [](FeedbackInv /\ PacketTyped)
  BY <1>1, InitFeedback, StepFeedback, InitPackets, StepPackets, PTL DEF Spec
<1>3. SessionTyped /\ FeedbackInv /\ PacketTyped => TypeOK
  <2> SUFFICES ASSUME SessionTyped, FeedbackInv, PacketTyped PROVE TypeOK
    OBVIOUS
  <2>1. FeedbackTypeOK
    BY DEF FeedbackInv, FeedbackTyped, PacketTyped, FeedbackTypeOK
  <2> QED BY <2>1, WorkerNames DEF SessionTyped, Live, TypeOK
<1> QED BY <1>1, <1>2, <1>3, PTL
=============================================================================
