# Couch Conduit: a formal model

TLA+ modules, TLC configurations and TLAPS proofs for Couch Conduit, a Windows
remote-play program: a host captures the desktop, encodes it with NVENC and
streams it over UDP; a client reassembles, decodes and renders it and sends
input back. File names below are relative to the repository.

## 1. Inventory

| Component | State | Operations | Talks to | Modelled in |
|---|---|---|---|---|
| `VideoSender` (`common/transport/video_sender.cpp`) | `m_sequence`, `m_fecGroupId`, `m_fecRatio`, `m_crypto` | `SendFrame`, `GenerateFec`, `SetFecRatio`, `SetEncryptionKey` | called by `HostSession::OnEncodeDone`, sends datagrams | `VideoSender` |
| `VideoReceiver` (`video_receiver.cpp`) | `m_currentFrame`, 16 FEC states, `m_crypto` | `RecvLoop`, `TryRsFecRecovery`, `TryAssembleFrame`, `SetEncryptionKey` | calls `D3D11Decoder::SubmitFrame`, sets the frame-ready event | `VideoReceiver` |
| `ReedSolomon` (`common/fec`) | none | `Encode`, `Decode` | sender and receiver | `VideoReceiver`, by what it recovers |
| `NvencEncoder` (`host/encode`) | `m_forceIdr`, one output buffer, statistics | `EncodeFrame`, `ForceIdr`, `SetBitrate` | called by the capture thread and the input thread | `NvencEncoder` |
| `DxgiCapture` (`host/capture`) | trigger event, last capture time, duplication interface | `CaptureLoop`, `TriggerCapture`, `Start`, `Stop` | calls `HostSession::OnFrameCaptured` | `DxgiCapture` |
| `HostSession` (`host/host_session.cpp`) | clients under `m_clientsMutex` | `AddClient`, `Start`, `OnEncodeDone`, `OnInputReceived`, `Stop`, `AdjustFec` | everything on the host | `HostSession` |
| `D3D11Decoder` (`client/decode`) | one pending slot, `m_needsIdr`, time of the last request | `SubmitFrame`, `DecodeLoop` | calls `ClientSession::OnFrameDecoded`, `RequestIdr` | `FrameDecoder` |
| `Renderer` (`client/render`) | one pending frame, one deferred free | `SubmitFrame`, `RenderLoop`, `Stop` | decode thread, render thread | `RendererFrames` |
| `ClientSession` (`client/client_session.cpp`) | receive bitmap, seven threads, owned components | `Init`, `Stop`, `OnFrameDecoded`, `FeedbackSendLoop` | everything on the client | `FrameFeedback`, `ClientSession` |
| `InputCapture`, `InputSender`, `InputReceiver`, `InputInjector` | sequence number, mouse accumulators, virtual pads | send, receive inline, inject | three client threads, one host thread | `InputSender`, `InputReceiver`, `InputPath` |
| `Session` (`common/protocol/session.cpp`) | sockets, key pair, session key | `HostListen`, `AcceptClient`, `ConnectToHost`, `Close` | TCP, both mains | `SessionHandshake` |
| Main programs (`host/main.cpp`, `client/main.cpp`, `client/ui/connection_screen.cpp`) | room code, where the program is | register, negotiate, stream, delete; connect, fall back, disconnect | server, `Session`, both sessions | `StreamSetup` |
| Signaling server (`server/src/index.ts`) | rooms with an expiry | create, resolve, delete | HTTP | `SignalingServer` |
| `CongestionEstimator` (`congestion.cpp`) | bitrate, gradient, loss | `OnTwccFeedback`, `OnLossUpdate`, `ComputeBitrate` | `FeedbackRecvLoop`, which nothing starts | no |
| Audio sender, receiver, player | ring buffer | `SendAudio`, `PlaySamples` | not wired up in this version | the receiver's thread, in `ClientSession` |

What makes it hard: every stage runs on its own thread and hands over through a
single slot or a shared flag; the network loses, repeats and reorders; recovery
(FEC, IDR requests) is itself lossy; narrow header fields wrap; keys are
installed while threads already run; shutdown joins threads that may be in
callbacks. The hazards, each at its line, are listed in `PROJECT.json`.

Correctness, per component: the receiver hands over only frames the host sent,
whole, and misses none it could have had; parity only ever rebuilds what was
lost; an IDR request is answered and the decoder leaves the waiting state; no
decoded frame is freed twice or rendered after it is freed; both ends of a
handshake agree on the key or both give up, and neither waits for ever; a room
code leads to one host and is removed with it; `Stop` terminates on both sides
and shuts nothing down that a thread still uses; a change of the desktop is
captured in time; keys, pad and mouse end up on the host as they are on the
client unless the network or the user's focus is to blame; a feedback report is
true of the frames decoded.

## 2. What is modelled

### The video path

    VideoPackets <- VideoSender   \
                                   VideoTransport <- MCVideoTransport,
    VideoPackets <- VideoReceiver /        |         VideoTransportProofs <- VideoDeliveryProofs
                                     FrameStream (what it promises)

* `VideoPackets`: the fields of `VideoPacketHeader` and the widths they wrap
  at. A payload is not bytes but the part of which frame it is and in which form
  (plain, encrypted, rebuilt with padding, rebuilt from shards that do not
  belong together, or not there at all).
* `VideoSender`: `SendFrame` and `GenerateFec`. The packets of a frame are one
  step because nothing else touches the sender and the network may interleave
  them with anything afterwards.
* `VideoReceiver`: one action for every way through the body of `RecvLoop` for
  one datagram: refused, for the current frame, for another frame, for another
  frame with repair of the current one, parity. Recovery and delivery are part
  of the action, as they are part of the iteration. `SetEncryptionKey` is three
  steps on another thread, because the receive thread runs by then.
* `VideoTransport`: both ends and the network between them.
* `FrameStream`: the abstract specification, an in-order stream with gaps.

Abstractions. Frames are numbered by the order in which they are sent; the
receiver compares numbers for equality only, so gaps in the host's numbers do not
matter. `m_sequence` is not wrapped: it only feeds the nonce and, in the model,
the network's notion of order. Reed-Solomon decoding recovers the data exactly if
all the shards it uses come from one encoding; otherwise what it yields is
"corrupt". The last data shard is shorter than the others in general, so its
reconstruction is "padded"; a frame with a padded last packet counts as genuine,
since an H.264/HEVC bitstream tolerates trailing zero bytes. `m_fecRatio` is a whole
percentage and constant: `AdjustFec` never runs. Use of the AES object while it is
being released is left out.

### The IDR loop

    EncodedFrame <- NvencEncoder \
                                  IdrRecovery <- MCIdrRecovery, IdrRecoveryProofs
    EncodedFrame <- FrameDecoder /

* `NvencEncoder`: one `EncodeFrame` call is three steps, up to the test of
  `m_forceIdr`, its clearing, the submission; its outcomes are the output, a
  failed submission, or an output that is lost (timeout, failed lock). `ForceIdr`
  comes between any two of them, from the input thread.
* `FrameDecoder`: `SubmitFrame` and `SetEvent` are two steps of the receive
  thread; the wait, the grab under the lock and the rest of the iteration three
  of the decode thread. `needsIdr` and the 500 ms limit are those of
  `DecodeLoop`.
* `IdrRecovery`: both, the frames on their way, the requests on their way back,
  and how far `ClientSession::Init` has come (decode thread started, input
  sender ready, first request).

Abstractions. The video path is the in-order stream with gaps that `FrameStream`
promises. A frame is known by whether it is an IDR and whether the picture it refers to
is the one before it at this point of the pipeline (`linked`); losing a frame
breaks the link of the next. `intact` says the same of the codec. Whether FFmpeg
refuses a picture without its reference or hands one out is its choice. The
encoder's first picture is an IDR (NVENC), unless the client joins later
(`started`). `EncodeFrame` calls that return before they read `m_forceIdr` change
nothing and are not steps; `owed` and `asked` are history variables. Wall-clock time is
reduced to whether the 500 ms since the last request have passed. The input path
works once `Init` has set it up: the case that it cannot be opened, which the
code reports and goes on from, leaves the client without any request and is not
modelled. `Stop` is not modelled.

### The hand-over to the renderer

    RendererFrames <- MCRendererFrames, RendererFramesProofs

`RendererFrames` follows each decoded frame from the decode thread through the
pending slot, the render thread's hand and `m_deferredFreeFrame` back to FFmpeg.
`m_pendingLock` is modelled by what it excludes: the render thread's grab does not run
while `SubmitFrame` is between its first and last step. Reading the deferred
pointer, freeing what it points to (and clearing it), and storing the next one are
steps of their own on both threads, because no lock covers all of them; the
undefined behaviour of the two `av_frame_free` calls is reduced to the outcome that
both free what they have read (`corrupted`). The history variable `raced` records
that both threads were between reading and storing at once. `ClientSession::Stop`
ends the render thread, then the decode thread; what it joins before and after
does not touch frames. Frames still pending or deferred when all threads have
ended are never freed by the code, nor in the model. The grab's test for a
spurious wake-up also looks at the frame number, which matters only for builds without
FFmpeg. `Resize` is left out: nothing calls it.

### How a stream comes about

    HostRuns <- SignalingServer   \
                                   StreamSetup <- MCStreamSetup, StreamSetupProofs
    HostRuns <- SessionHandshake  /

* `HostRuns`: machines that host, and the numbered runs of the host program on
  them; what a room and a key pair belong to.
* `SignalingServer`: a POST is its arrival, one step per code drawn and looked
  up (`DrawCode`, which keeps the last of `MaxTries` codes even if it is
  taken), and the store (`StoreRoom`); those of several hosts interleave. GET is
  the guard of `JoinRoom`, DELETE is `RemoveRoom`, expiry `ExpireRoom`. The
  store is consistent: what was put is read by the next request. Cloudflare KV
  promises less, which would add ways to `mishap`.
* `SessionHandshake`: one `Session` object per host and one connection per
  attempt of a client. The steps of `AcceptClient` are `Accept`, `AnswerHello` and
  `Agree`; those of `ConnectToHost` are `Connect` (with CLIENT_HELLO) and `Confirm`
  (HOST_HELLO read, SESSION_READY sent, success returned). Every other return of the two,
  timeouts included, is `HostGivesUp` or `ClientGivesUp`, which may come at any
  point, also with the awaited message in the socket. `OtherConnects` is a
  program that connects and says nothing.
* `StreamSetup`: the two main programs around them. A host registers, goes on
  without a code if the answer is late, listens, negotiates, streams and deletes its
  room; every early return of `main` ends the run with the room still stored and
  is recorded in `unclean`. A client joins by code or address, falls back to
  plain UDP when the handshake fails, and returns to the connection screen or
  ends. The phase between two calls is the state of each program.

Abstractions. A public key is its owner, a session key the pair of owners: ECDH
yields the same secret at two ends exactly when they hold each other's key, and a
proof (HMAC) is right exactly for that key. Messages of a connection arrive in
order (TCP) or not at all. A client is one machine with one program at a time. `mishap`
and `unclean` are history variables that name the excuses of two properties.

### The host at run time

    DxgiCapture <- HostSession <- MCHostSession, HostSessionProofs

* `DxgiCapture`: `CaptureLoop` in discrete time. `WaitForSingleObject` returns on
  the trigger or after `Fallback`; the ways through one iteration are actions of
  their own: stop, too early (the wake-up is dropped, and the trigger consumed), nothing
  new, a picture, a failure with the duplication lost or made again. A tick of
  the clock is possible only while the thread waits, encodes or is blocked.
* `HostSession`: the session thread step by step through `AddClient`, `Start` and
  `Stop`; the capture thread's `OnFrameCaptured` and `OnEncodeDone`, which
  takes `m_clientsMutex`; the input thread's `RecvLoop` and `OnInputReceived`. The
  call that uses a part (encode, send, force an IDR, inject) is a state of the
  thread, so that a shutdown may come in between if the code lets it.

Abstractions. One client, which is what `main.cpp` serves: `Init` adds it and nothing else
calls `AddClient`, so the collision of ports of a second client cannot happen in
this program. The video path and the contents of input messages are in their own
models. Rumble, which would take the mutex from the driver's thread, is
left out with the driver. `Stop` before `Start` is not modelled: `main.cpp` leaves such a
run by exiting.

### The input path

    InputSender <- InputReceiver <- InputPath <- MCInputPath, InputPathProofs

* `InputSender`: `WndProc` and the mouse accumulator on the window thread, the
  pad and mouse polling on the poll thread, IDR requests from the decode thread, and
  `SendInput`, which the three call without a lock: reading `m_sequence`,
  writing it back and sending are three steps (`Begin`, `Count`, `Transmit`). A
  payload that cannot be encrypted is sent as it is.
* `InputReceiver`: `RecvLoop` injects inline; a payload that does not decrypt is
  injected as it came, so what it does to keys, pad and mouse is any choice
  (`InjectCiphertext`). `SetEncryptionKey` allocates and initialises the cipher
  while the thread runs. A virtual pad that cannot be added (`PadNotAdded`) is
  tried again with the next state.
* `InputPath`: both, with UDP between them. `causes` collects what excuses the
  host: `lost`, `overtaken`, `doubled`, `focus` (a message went to another
  window), `stop`, `renumbered` (the pad's packet numbers started again),
  `key_gap` (undecryptable) and `unadded` (no virtual pad). Each property excuses
  only some of them. Races for `m_sequence` excuse nothing: two packets with one
  number are injected like any others, since the host never looks at it. That
  they are encrypted under one nonce is a defect of the code (hazard at
  `input_sender.cpp:29`) that no property here can call otherwise.

Abstractions. Keys and mouse buttons take the same way through the program and
are one kind of message; the fourth and fifth button are sent but not injected.
One pad with one axis; one axis of the mouse. Text, wheel and rumble are left out.

### The client at run time

    FrameFeedback <- ClientSession <- MCClientSession, ClientSessionProofs

* `FrameFeedback`: `OnFrameDecoded` shifts the bitmap, sets its bit 0 and then
  writes `m_lastFrameRecv`; `FeedbackSendLoop` reads the number and then the
  bitmap; each is a step. Numbers are cast to 16 bits, the shift by the gap of two
  numbers is the code's: a frame that comes late looks like a gap of 64 or more
  and clears the bitmap.
* `ClientSession`: `Init` starts seven parts in order, of which sound and rumble
  may fail and video must not; `Stop` clears two flags (`StopFlags`), closes the
  sockets of the feedback and the haptic thread (`StopCloses`), joins these two,
  then signals and joins the others in its own order and closes what each part
  opened. A worker's wait ends within 100 ms, so a loop iteration is a step.

`OpenWhileNeeded` holds with two exceptions, which it names. `Stop` closes the
feedback and haptic sockets before it joins their threads (`client_session.cpp:131-133`,
"Close sockets FIRST to unblock any threads"), once both have been told; and
`InputCapture::Stop` (line 137) closes the input socket while the decoder, stopped
in line 140, may ask for an IDR frame through it, as it may before
`InputCapture::Init` has opened it. A call on a closed socket fails and sends
nothing (`SendIfOpen`); that `UdpSocket::Close` writes `m_socket` without
synchronisation is taken as a write between two calls.

What the map of a report means. `transport.h:56` calls it "received/lost for last 64
pkts", as does `docs/ARCHITECTURE.md:147`. The code reports frames, not packets, and
decoded ones: a frame that was received but overwritten in the decoder's slot, or
dropped while it waits for an IDR, is reported lost. `FeedbackTruthful` is therefore
about decoded frames, and says exactly which: those since a frame last came late.

Abstractions. What a thread opens and uses is a set of resources. The decode
thread's loop is reduced to the frames it records, since `IdrRecovery` has the
rest. `basis`, `kept` and `lapped` are history: the frame bit 0 stands for, the
frames decoded since one last came late, and whether a gap of a whole lap of the
16-bit counter has misplaced the bits since they were last cleared.

## 3. Runs

Twelve runs: one for each composition with its invariants and liveness, two for the
video path (reordering without parity, parity without reordering), and one for each
disagreement between the code and what is said of it.

| Run | Question | Result |
|---|---|---|
| `TransportReorder` | Under loss, reordering, duplication and a key installed while packets arrive: are packets of two frames ever mixed or counted twice, frames repeated, ciphertext shown? | holds: types, consistent reassembly; frames as the encoder produced them, decrypted to the last packet, once the key is in place; a frame is delivered again at most once per repeated datagram; ciphertext never after plaintext |
| `TransportFec` | In order, with losses, parity and wrapping numbers: is the path an in-order stream of whole frames, does every undamaged or repairable frame arrive intact, when can a repair be wrong? | refines `FrameStream`; they arrive once a later frame is noticed, a repairable one unless a slot of the ring misleads its repair; wrong only by another frame's shard of a state of as many packets, or an old shard where the frame's own was lost |
| `TransportSealedParity` | Does recovery rebuild what was sent, with encryption on? | violated: parity is over ciphertext |
| `TransportWideFrame` | Is a frame of 257 packets delivered whole? | violated: the count wraps to 1 |
| `IdrLoop` | Can the decode thread sleep on a frame? Is every `ForceIdr` answered? After faults stop: does the decoder leave its wait, do requests die out? | no lost wake-up; only a failed encode forgets a request; both liveness properties hold |
| `IdrCorruption` | Does the decoder notice that pictures lack their reference? | violated: only a refused picture is noticed |
| `RendererHandover` | Is a frame freed while pending or shown? When are frames lost or freed twice? Can the latest frame stay in the slot? Does `Stop` return? | never; only after a race for `m_deferredFreeFrame`; no; yes |
| `RendererDoubleFree` | Is every frame freed once? | violated: both threads free the same one |
| `SessionSetup` | Do host and client agree when either may give up at any time? Can two clients have one host, two hosts one code? Is a room left behind? Does every handshake end? | they agree; no; only after a `mishap` of the server; only by a run that failed; yes |
| `HostRuntime` | Is a part shut down in use? Is every change captured within `Latency`, and after a lost duplication at all? Does `Stop` return? | no; yes; yes |
| `InputDelivery` | Can a key hang, the pad stand wrong, motion be lost without an outside cause, whatever order the threads send in and whatever numbers their packets get? | no |
| `ClientRuntime` | Is what a thread uses open? Are reports true, and spoiled ones put right? Does `Stop` return, however far `Init` got? | yes, but for the sockets of threads that are told to stop and the decoder's requests; yes; yes |

Bounds of the video path: `MaxFrames` frames sent, `PacketCounts` the packets a
frame may have, `MaxReorder` packets one packet may overtake, `MaxLoss` and
`MaxDup` datagrams lost and repeated. The behaviour of the receiver depends on
the frame under assembly, the frame of the packet at hand and the parity states,
so three frames (before, current, next) of one packet and of more reach every
branch; parity needs frames of two packets and more, and a frame of one packet
completes in the very step that repairs the one before. `TransportFec` sends four
frames of one, two or four packets: one, none or two packets of parity each, so
that a state of the ring can hold the shards of one frame under the count of
another, and two losses, so that a frame of four needs both. Where wrapping
matters the moduli are small enough to wrap within the bound (`FrameMod` 3 with
four frames: the third is numbered 0 like an empty `m_currentFrame`, and the fourth
has the number of the first, which the receiver may have delivered last when the
two between are lost; `GroupMod` and `RingSize` 2, so that the third and fourth parity group land on the
first and second). `IdrFlags` are the frame kinds the encoder is asked for: both
where reordering and repeats could mix them up, one in `TransportFec`, whose
recovery never reads the flag. A lap of which the first
frame is still incomplete takes three losses here and 65,535 lost frames in a row in
the program; the two frames would then be mixed, in the model as in the code.
59,895 states; `TransportReorder`, whose numbers do not wrap, has 1,721,982.

Bounds of the IDR loop: `MaxFaults` counts frames and requests lost, frames
overwritten in the slot and good frames the codec refuses; `MaxEncodeFaults`
encodes that fail. Frames are not numbered and their number is not bounded, so
the runs cover endless streams. One frame in flight and one request make the
slot, the event and the flag the only places to wait in, which is what the
liveness properties are about; the safety properties are proved for all bounds.
Overwriting is counted among the faults: a decode thread that is always slower
than the stream never recovers, in the model as in the code.

Seven decoded frames let every place of the renderer hold a frame of its own
(pending, fresh, shown, deferred, two being freed) and one more arrive.

Bounds of the setup: two hosts, of which one may be started twice or both once
(`MaxRuns` 2 over all), one client with two attempts (its own, or a stranger's
from the same machine), a backlog of one, one code and two tries. One code makes
two hosts collide in every second request, whether by the two steps of POST or by
running out of tries; two attempts are the least for a second client
of the same run, one of which waits in the backlog while the other is served.
390,437 states, about two minutes. Two codes, three runs and one attempt
were checked too while the invariants about rooms were found.

Bounds of the host: intervals of 4 and 3 ticks and encodes of up to 2 keep the
order of the real 16.7 and 16 ms and make a trigger fall before, in and after the
minimum interval; two faults cover a lost duplication that cannot be made again
at once. 18,480 states.

Bounds of the input path: three events, three packets, two kinds of causes; motion
wraps at 4, so that one move does not fit. All packets have the same sequence number
(`SeqModulus` 1), the worst that races for `m_sequence` can come to; the theorems
hold for any modulus. Three events are enough for a key that is pressed and released while another
thread sends, and for a pad that is unplugged and comes back. 1,489,251 states.

Bounds of the client: frames jump by 1 or 3 or come late, numbers wrap at 4 and
the bitmap has 3 bits, so that a gap can be within the bitmap, beyond it, and
beyond a lap; three frames are recorded (nine writes). 423,812 states, two and a half minutes.

Fairness. `FairSpec` assumes the receive thread keeps taking packets in flight
(it loops on `Recv` while the session runs) and that `SetEncryptionKey` returns.
Nothing is assumed of the host or of losses. In the IDR loop `FairSpec` assumes
that pictures keep being captured (the capture thread encodes at least one per
fallback interval), that each thread keeps running, that what is not lost
arrives, and that time passes; faults are never forced, and each kind of thread
has one fairness condition over all its steps. In `RendererFrames` each thread
keeps running; nobody has to decode another frame or to stop.
In `StreamSetup` a program that negotiates goes on, because each of its waits ends
by a message or its timeout, with one exception: a host in `accept` that nobody
connects to. The code sets `SO_RCVTIMEO` on the listening socket, which Winsock
promises for receives only, so no step is assumed there. Nothing makes anyone
start, connect or stop. In `HostSession` and `ClientSession` each thread runs and
every wait ends within its timeout (100 ms). Stop's lock
is fair in the strong sense: the capture thread takes and releases the mutex over
and over, but holds it only while it hands a frame to the sockets and then waits
for the next picture, so that the session thread gets it in the end. Time passes in the strong
sense too, since triggers interrupt the capture thread's wait. `InputPath` has
no liveness: nothing is repeated, so nothing need arrive.

Deadlock checking is off where the system comes to an end: a bounded number of
frames, packets, runs or attempts is used up (`Transport`, `Renderer`,
`InputDelivery`, `SessionSetup`), or the session has stopped (`HostRuntime`,
`ClientRuntime`). It is on in the `Idr` runs.

The violations are disagreements between the code and what its comments and
README say; each is described in `PROJECT.json` with the lines concerned.

## 4. Proofs

`VideoTransportProofs` proves, for all values of the constants:

* `TypeCorrect`: `Spec => []TypeOK`. `TypeOK` is inductive as it stands,
  because it contains `WellFormed(current)`: the received set and the
  counter agree and the slots have the announced number.
* `ReassemblySound`: `NoWrap => (Spec => []ReassemblyConsistent)`, and
  `OnlyWholeFrames`, the same for `DeliveredWhole`. `NoWrap` says that frame
  numbers and packet counts fit their fields. The inductive invariant adds that
  every packet in flight is one of a frame that was sent, with that frame's
  count, IDR flag and position (`SendWhole`, `ReceiveWhole`), and that no
  delivered or current frame has an untrue slot; recovery is covered by the
  lemma that it changes only the slots that were missing (`RecoveredSlots`).
* `GenuineWithoutFec`: `DeliveredGenuine` when `FecPercent = 0`; without parity in
  flight no FEC state is ever usable (`NothingRebuiltInvariant`), and the history
  variable `unkeyed` counts the deliveries up to the one under assembly when the
  key was installed: `GenuineInv` adds that the frame under assembly, if begun
  later, has only decrypted packets (`PlainSlots`). `ReassemblyConsistent` alone would be met by ciphertext.

The proofs hold for any loss, duplication and reordering and for any state of
the key, since they use of `Arrive` only that the packet was in flight.

`VideoDeliveryProofs` builds on them:

* `KeyInstalledOnce`: `Spec => []KeyTakesEffectOnce`. Once a packet could be opened
  every later one is (`Opening`); the frame under assembly may still hold
  ciphertext from before, but once one is delivered that holds a decrypted packet
  no ciphertext is left in it. A rebuilt slot has the form of the shards it is
  rebuilt from (`RebuiltForm`).
* `WrongRepairsUseLeftovers`: `~ Encrypted`, `NoWrap`, no reordering
  `=> (Spec => WrongRepairNeedsLeftover)`, an action property: the step that hands
  over a wrongly rebuilt frame uses a state that holds a shard of another frame of
  as many packets, or lends the frame an older shard in place of one of its own that
  was lost. The invariant says of every parity packet and of every shard in the
  ring which frame it belongs to and which slot that frame's group number leads to,
  which takes arithmetic on numbers that wrap (`CountWraps`, `RemainderIs`); that a
  state announces the count of a frame whose parity goes to its slot; and, as packets
  arrive in order, that nothing still under way belongs to an earlier frame than the
  one under assembly or those in the ring (`CurrentBehind`, `ShardsBehind`). With encryption it is false: that is
  `TransportSealedParity`.
* `ImplementsStream`: `NoWrap`, no reordering and no repeats
  `=> (Spec => InOrderStream)`, the refinement of `FrameStream`, initial state and
  every step. What is in flight comes after what has left the network, so a
  frame begun is later than every one delivered, and the one step that delivers two
  frames (a repair and a frame of one packet) maps to two positions in order.
* `CopiesBounded`: `FecPercent = 0`, `NoWrap => (Spec => []DeliveredAtMostCopies)`.
  A frame is delivered by a packet of each of its slots; the proof counts, for
  slot 0, the copies still in flight, the one in the frame under assembly and
  those already delivered against `1 + dups`.

`NoWrap` allows as many frames as there are frame numbers, the one numbered 0
included, and is the assumption of the theorems that tell frames by their number: with
more, a frame a whole lap earlier has the same number, in the model as in the code.

`IdrRecoveryProofs` proves, for all bounds:

* `LoopTypeCorrect`: `Spec => []TypeOK`, inductive as it stands.
* `DecoderWakes`: `Spec => []NoLostWakeup`, inductive too: the slot is filled
  before the event is set, and emptied only after the event was consumed.
* `ForcedIdrEncoded`: `Spec => []ForceIdrHonoured`, which speaks of executions in
  which no encode has failed yet. The strengthening `RequestKept` says that until
  then a request that is owed is still flagged or already in the picture being
  encoded. The condition is needed: `EncodeFrame` clears `m_forceIdr` before it
  submits the picture, and no failure path sets it again.

`RendererFramesProofs` proves, for any number of frames:

* `RendererTypeCorrect`: `Spec => []TypeOK`.
* `ShownFramesLive`: `Spec => []InUseLive`. The strengthening `Owned` says that a
  frame pending, shown or fresh is in exactly one of these places and is neither
  freed nor among those about to be.
* `OnlyRacesLose`: `Spec => []LossNeedsRace`. `Orderly` says what a thread may
  rely on while no race has happened: what it read is still in
  `m_deferredFreeFrame` until it clears it, and the field stays empty until it stores.

`StreamSetupProofs` proves, for any number of hosts, clients, codes, runs,
attempts and any backlog, under `RunsAssumption`, `SessionAssumption` and
`ServerAssumption` (the bounds are positive, "no code" is not a code):

* `SetupTypeCorrect`: with `Phased`, which ties the phase of each main program to
  its `Session` object (a program that streams has one that agreed).
* `BothAgree`: `Spec => []SessionAgreed`. `Proved` is the strengthening: a
  SESSION_READY under way is that of a client that is done, with the same key.
  It needs that a client that is done stays so (`DoneIsFinal`).
* `OneSessionPerRun`: `Spec => []ExclusiveSession`. `Issued` says that a trace of a
  run's key, in a message or at a client, means that its Session is past HOST_HELLO,
  `SentOnce` that the traces of one key are at one attempt; `RunsGrow` that a key once sent is
  never before HOST_HELLO again in the same run.

* `CodesNeverShared` and `RoomsAccountedFor`. `RoomsKept` says that without a
  mishap at most one POST is at work, the code it is about to store is free, a
  code shown or about to be is that of the host's present run, and every room is
  either noted as left behind or held by a host that runs.

`HostSessionProofs`, for all intervals, encode times and numbers of faults:

* `HostTypeCorrect`, which includes who holds `m_clientsMutex`.
* `PartsStayAlive`: `Staged` says where the other threads can be at each step of
  `Stop`: nobody receives input after its join, nobody encodes or sends after
  the join of the capture thread.
* `CapturedInTime`: `Punctual` bounds the age of a change by where the capture thread is and
  by the time since the last capture, so that `Latency` is the larger of
  the longest encode and the minimum interval less one tick, plus one fallback.
  The invariant holds for any `Fallback` up to `MinInterval`.

`InputPathProofs`, for any modulus, widths, keys, moves, pad positions and number
of packets and mishaps, under `InputAssumption` and `KeysAssumption` (F1 and the
extra mouse buttons are not among the keys the host injects):

* `KeysFollow` and `PadsAgree`: `Spec => []StuckKeyNeedsCause` and `[]PadFollows`.
  The client's half (`ClientTells`) says that the last thing a thread has sent of a
  key or the pad, or is sending, is how the user holds it, up to what the poll thread
  has still to see. The host's half (`HostFollows`) says that there is a place in the
  sequence of packets behind which nothing has left the network, such that the host
  stands as the packets up to there say, unless one of them is still to come. It is a
  statement about the whole sequence, because packets that are not late may
  overtake each other as long as they speak of different things. With nothing on the
  way the two halves meet (`QuietHost`). Both hold across races and repeated packets.
* `MotionNotLost`: `Spec => []MotionConserved`. `MotionKept` says that motion seen
  and motion accounted for differ by a multiple of `Width`. The motion under way is
  a sum over a set, which the community modules compute by a recursive function on the
  subsets: `SumExists`, `SumSplits` and `SumsAgree` show that the function exists,
  does not depend on the order in which it picks elements, and is a sum, by a smallest
  counterexample each (`LeastExists`), the form of induction the provers can follow.

`ClientSessionProofs`, for any widths, jumps and number of frames:

* `ClientTypeCorrect`: `Spec => []TypeOK`.
* `ClosedAfterUse`: `Spec => []OpenWhileNeeded`, with the exceptions it names.
  `InOrder` says which parts can be running at each step of `Init` and `Stop`,
  `KeptOpen` which resources a thread that has not ended finds open.
* `ReportsTruthful`: `Spec => []FeedbackTruthful`. `Recorded` relates number and
  frames, `Mapped` bitmap and frames between the writes: until `SetBit` the bit of
  the last frame may be missing, and no other. The step of `ShiftBitmap`
  (`ShiftKeeps`) is arithmetic modulo the width of the number, in the lemmas
  `ModRange`, `ModIs` and `GapIs`.

Every invariant, the action property and the refinement that a passing run checks is a theorem.
Model-checked only are the liveness properties, which speak of fairness and so of
ENABLED, out of TLAPS's reach: `UndamagedFramesArrive`, `RepairableFramesArrive`,
`DecoderRecovers`, `RequestsSubside`, `LatestTaken`, `HandshakeEnds`,
`ChangesCaptured`, `FeedbackCatchesUp` and the three `StopReturns`. The theorems that assume
something of the constants (no wrapping numbers, no FEC, no encryption, no reordering) do so
because outside the assumption the property is false, or no argument for it was found.

## 5. Plan

Done: the video path, the IDR loop, the hand-over to the renderer, the setup of a
stream (server, handshake, main programs), the host at run time with capture, the
input path, the client at run time with its feedback.

Left, in this order:

1. Proofs that no thread waits for one that waits for it: the safety half of the
   three `StopReturns` and of `HandshakeEnds`.
2. `ReedSolomon` over a small field, where decoding inverts encoding.
3. `Congestion`, once something starts `FeedbackRecvLoop`.

## 6. Not modelled

* `CongestionEstimator`, `AdjustFec`, `FeedbackRecvLoop`, `SetBitrate` and
  `SetFecRatio`: nothing starts the loop that would call them, so the FEC ratio and
  the bitrate are constants of a run.
* Rumble and haptics beyond the haptic thread's life: the data is passed from driver to pad.
* `AudioPlayer`, `AudioSender` and WASAPI capture: nothing instantiates the player or
  feeds the sender.
* `Init` of encoder, decoder, renderer and capture: one attempt after the other at
  devices of the machine, whose failure ends the program (`HostExits`,
  `InitSession`).
* The overlay's contents, window creation and drawing. (The overlay sees keys
  first, but ImGui's handler answers 0 for them and they go on to the host, although
  the comment at `src/src/client/main.cpp:39` says that they are not forwarded if the
  overlay wants them.)
* `ReedSolomon`'s arithmetic: that any k of its shards give the data back is assumed.
* The life of the receiver's cipher object (`video_receiver.cpp:45` releases it
  while the receive thread may be using it): `SetEncryptionKey` is modelled as atomic
  steps.
* HTTP and STUN parsing, Direct3D, FFmpeg, NVENC, DXGI, WASAPI, ViGEm and CNG
  internals; installers, scripts and vendored code; logging and statistics.
* `InvalidateRefFrame`, `Resize` and a second client of one host: never called.

The receiver chooses a parity state by its number of shards alone
(`video_receiver.cpp:182`): that an old group's parity can be used is covered by
`WrongRepairNeedsLeftover`, which says when, and by `Misled` in `RepairableFramesArrive`.
