---------------------------- MODULE InputReceiver ----------------------------
(***************************************************************************)
(* The host's half of the input path: RecvLoop of                          *)
(* common/transport/input_receiver.cpp, which injects what it receives     *)
(* inline (host/input/input_injector.cpp).                                 *)
(***************************************************************************)
EXTENDS InputSender

VARIABLES
  crypto,          (* m_crypto: "none", "allocated", "ready", "failed"       *)
  down,            (* what the host's desktop takes for held down            *)
  pad,             (* the virtual pad's position, NoPad before it is added   *)
  turned           (* mouse motion injected                                  *)

receiverVars == <<crypto, down, pad, turned>>

NoPad == -1

ReceiverInit ==
  /\ crypto = "none"
  /\ down = {}
  /\ pad = NoPad
  /\ turned = 0

(* SetEncryptionKey, on the session thread, after the receive thread has    *)
(* been started: the object is there before it is initialised.              *)
AllocateCrypto == keys.host /\ crypto = "none" /\ crypto' = "allocated" /\ UNCHANGED <<down, pad, turned>>
InitCrypto == crypto = "allocated" /\ crypto' \in {"ready", "failed"} /\ UNCHANGED <<down, pad, turned>>

InjectKey(k, press) ==
  /\ down' = IF k \in XButtons THEN down ELSE IF press THEN down \cup {k} ELSE down \ {k}
  /\ UNCHANGED <<crypto, pad, turned>>

(* The first state adds the virtual pad; if that fails (ConnectController), *)
(* the state is lost and the next one tries again.                          *)
InjectPad(s) == pad' = s /\ UNCHANGED <<crypto, down, turned>>
PadNotAdded == pad = NoPad /\ UNCHANGED receiverVars

InjectMotion(d) == turned' = turned + d /\ UNCHANGED <<crypto, down, pad>>

(* Decrypt succeeds, or there is nothing to decrypt: after a failure the    *)
(* payload is taken as it came, which is right if it was never encrypted.   *)
Readable(p) == p.sealed => crypto = "ready" /\ keys.client = keys.host

Inject(msg) ==
  CASE msg.kind = "key"    -> InjectKey(msg.key, msg.press)
    [] msg.kind = "pad"    -> InjectPad(msg.stick)
    [] msg.kind = "motion" -> InjectMotion(msg.delta)
    [] msg.kind = "idr"    -> UNCHANGED receiverVars

(* The ciphertext is injected; the pad's may name a slot that is not there. *)
InjectCiphertext(kind) ==
  \/ kind = "key" /\ \E k \in Keys \cup XButtons, press \in BOOLEAN : InjectKey(k, press)
  \/ kind = "pad" /\ (UNCHANGED receiverVars \/ \E s \in Sticks : InjectPad(s))
  \/ kind = "motion" /\ \E d \in Moves : InjectMotion(d)
=============================================================================
