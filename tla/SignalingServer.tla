--------------------------- MODULE SignalingServer ---------------------------
(***************************************************************************)
(* The room-code service (server/src/index.ts): a key-value store of rooms *)
(* and, for each host, the POST that creates one, which looks a code up    *)
(* and stores it in two separate steps.                                    *)
(***************************************************************************)
EXTENDS HostRuns

CONSTANTS
  Codes,           (* room codes                                             *)
  MaxTries         (* codes drawn before a collision is accepted             *)

NoCode == "none"

ASSUME ServerAssumption ==
  /\ MaxTries \in Nat \ {0}
  /\ NoCode \notin Codes

VARIABLES
  rooms,           (* code -> the run of a host that stored it               *)
  post,            (* host -> its POST, from arrival to answer               *)
  mishap           (* history: two requests overlapped, every code drawn was *)
                   (* taken, or a room expired: two hosts may share a code   *)

serverVars == <<rooms, post, mishap>>

NoRoom == [host |-> "none", run |-> 0]
NoPost == [stage |-> "none", tries |-> 0, code |-> NoCode, run |-> 0]

ServerInit ==
  /\ rooms = [k \in Codes |-> NoRoom]
  /\ post = [h \in Hosts |-> NoPost]
  /\ mishap = FALSE

InProgress(h) == post[h].stage \in {"draw", "put"}

Note(event) == mishap' = (mishap \/ event)

(* A POST reaches the server. *)
CreateRequest(h, run) ==
  /\ post' = [post EXCEPT ![h] = [stage |-> "draw", tries |-> 0, code |-> NoCode, run |-> run]]
  /\ Note(\E g \in Hosts \ {h} : InProgress(g))
  /\ UNCHANGED rooms

(* Mutant of DrawCode: the code is not looked up. *)
DrawAnyCode(h, k) ==
  /\ post[h].stage = "draw"
  /\ post' = [post EXCEPT ![h] = [stage |-> "put", tries |-> @.tries + 1, code |-> k, run |-> @.run]]
  /\ UNCHANGED <<rooms, mishap>>

(* generateCode and the lookup: a free code is kept, and so is the last one *)
(* drawn when every attempt met a room.                                     *)
DrawCode(h, k) ==
  LET free == rooms[k] = NoRoom
      last == post[h].tries + 1 = MaxTries
  IN /\ post[h].stage = "draw"
     /\ post' = [post EXCEPT ![h] = [stage |-> IF free \/ last THEN "put" ELSE "draw",
                                     tries |-> @.tries + 1, code |-> k, run |-> @.run]]
     /\ Note(last /\ ~ free)
     /\ UNCHANGED rooms

StoreRoom(h) ==
  /\ post[h].stage = "put"
  /\ rooms' = [rooms EXCEPT ![post[h].code] = [host |-> h, run |-> post[h].run]]
  /\ post' = [post EXCEPT ![h].stage = "reply"]
  /\ UNCHANGED mishap

(* expirationTtl passes. *)
ExpireRoom(k) ==
  /\ rooms[k] # NoRoom
  /\ rooms' = [rooms EXCEPT ![k] = NoRoom]
  /\ Note(TRUE)
  /\ UNCHANGED post

(* DELETE: whoever asks, whichever host's room the code now leads to. *)
RemoveRoom(k) == rooms' = [rooms EXCEPT ![k] = NoRoom] /\ UNCHANGED <<post, mishap>>

ServerTypeOK ==
  /\ rooms \in [Codes -> Run \union {NoRoom}]
  /\ post \in [Hosts -> [stage: {"none", "draw", "put", "reply"}, tries: 0..MaxTries,
                         code: Codes \union {NoCode}, run: 0..MaxRuns]]
  /\ \A h \in Hosts :
       /\ post[h].stage \in {"put", "reply"} => post[h].code \in Codes
       /\ post[h].stage = "draw" => post[h].tries < MaxTries
       /\ post[h].stage # "none" => post[h].run > 0
  /\ mishap \in BOOLEAN
=============================================================================
