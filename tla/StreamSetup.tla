----------------------------- MODULE StreamSetup -----------------------------
(***************************************************************************)
(* How a stream comes about: the main programs of host and client over the *)
(* signaling server and the TCP session.                                   *)
(***************************************************************************)
EXTENDS SignalingServer, SessionHandshake

CONSTANT
  ScreenClients    (* clients started without a host address: they show the  *)
                   (* connection screen, the others have an address already  *)

VARIABLES
  host,            (* host -> where its main program is, and the code shown  *)
  client,          (* client -> where its main program is                    *)
  unclean          (* history: runs that could not remove their room         *)

appVars == <<host, client, unclean>>
vars == <<serverVars, sessionVars, appVars>>

Init ==
  /\ ServerInit
  /\ SessionInit
  /\ host = [h \in Hosts |-> [phase |-> "off", run |-> 0, code |-> NoCode]]
  /\ client = [c \in Clients |-> [phase |-> "idle", attempt |-> 0, target |-> "none"]]
  /\ unclean = {}

RunOf(h) == [host |-> h, run |-> host[h].run]
At(h, phase) == host[h].phase = phase
Goto(h, phase) == host' = [host EXCEPT ![h].phase = phase]
Ends(h) == host' = [host EXCEPT ![h].phase = "off", ![h].code = NoCode]
Fails(h) == unclean' = unclean \union {RunOf(h)}

------------------------------------------------------------------------------
(* Host. *)

(* The program starts; with a signaling server and a public address it      *)
(* registers a room.  Runs are numbered over all hosts.                     *)
Starts(h, run, phase) ==
  /\ At(h, "off")
  /\ ~ InProgress(h)
  /\ \A g \in Hosts : host[g].run < run
  /\ run = 1 \/ \E g \in Hosts : host[g].run = run - 1
  /\ host' = [host EXCEPT ![h] = [phase |-> phase, run |-> run, code |-> NoCode]]
  /\ UNCHANGED <<sessionVars, client, unclean>>

StartWithRoom(h, run) == Starts(h, run, "register") /\ CreateRequest(h, run)

StartWithoutRoom(h, run) == Starts(h, run, "listen") /\ UNCHANGED serverVars

RoomCreated(h) ==
  /\ At(h, "register")
  /\ post[h].stage = "reply"
  /\ host' = [host EXCEPT ![h].phase = "listen", ![h].code = post[h].code]
  /\ UNCHANGED <<serverVars, sessionVars, client, unclean>>

(* No answer within the timeout: the host goes on without a code, and does  *)
(* not know the room it may have.                                           *)
RoomMissed(h) ==
  /\ At(h, "register")
  /\ Goto(h, "listen")
  /\ Fails(h)
  /\ UNCHANGED <<serverVars, sessionVars, client>>

Listen(h) ==
  /\ At(h, "listen")
  /\ Goto(h, "negotiate")
  /\ HostListen(h, host[h].run)
  /\ UNCHANGED <<serverVars, client, unclean>>

Negotiate(h) ==
  /\ Accept(h) \/ AnswerHello(h)
  /\ UNCHANGED <<serverVars, appVars>>

Negotiated(h) ==
  /\ Agree(h)
  /\ Goto(h, "init")
  /\ UNCHANGED <<serverVars, client, unclean>>

(* AcceptClient fails: the program exits with its room still registered.    *)
NegotiationFails(h) ==
  /\ HostGivesUp(h)
  /\ Ends(h)
  /\ Fails(h)
  /\ UNCHANGED <<serverVars, client>>

Stream(h) ==
  /\ At(h, "init")
  /\ Goto(h, "streaming")
  /\ UNCHANGED <<serverVars, sessionVars, client, unclean>>

(* HostListen, HostSession::Init or Start fails, or the process dies.       *)
HostExits(h) ==
  /\ host[h].phase \in {"listen", "init", "streaming"}
  /\ Ends(h)
  /\ ForgetSession(h)
  /\ Fails(h)
  /\ UNCHANGED <<serverVars, client>>

(* Mutant of StopStreaming: the room is forgotten. *)
StopOnly(h) ==
  /\ At(h, "streaming")
  /\ Ends(h)
  /\ ForgetSession(h)
  /\ UNCHANGED <<serverVars, client, unclean>>

(* Ctrl+C or the end of --duration; Stop; DeleteRoom if a code is known.    *)
StopStreaming(h) ==
  /\ At(h, "streaming")
  /\ Goto(h, IF host[h].code = NoCode THEN "off" ELSE "delete")
  /\ ForgetSession(h)
  /\ UNCHANGED <<serverVars, client, unclean>>

DeleteRoom(h) ==
  /\ At(h, "delete")
  /\ Ends(h)
  /\ \/ RemoveRoom(host[h].code) /\ UNCHANGED unclean
     \/ UNCHANGED serverVars /\ Fails(h)
  /\ UNCHANGED <<sessionVars, client>>

------------------------------------------------------------------------------
(* Client. *)

Current(c) == <<c, client[c].attempt>>

Goal(c, h) ==
  /\ client[c].phase = "idle"
  /\ client[c].attempt < MaxAttempts
  /\ client' = [client EXCEPT ![c] = [phase |-> "connect", attempt |-> @.attempt + 1, target |-> h]]
  /\ UNCHANGED <<serverVars, sessionVars, host, unclean>>

(* The connection screen: a room code that the server knows ... *)
JoinRoom(c, k) ==
  /\ c \in ScreenClients
  /\ rooms[k] # NoRoom
  /\ Goal(c, rooms[k].host)

(* ... or an address; without the screen, the address of the command line.  *)
JoinAddress(c, h) == Goal(c, h)

ClientConnects(c) ==
  /\ client[c].phase = "connect"
  /\ Connect(Current(c), client[c].target)
  /\ client' = [client EXCEPT ![c].phase = "hello", ![c].target = "none"]
  /\ UNCHANGED <<serverVars, host, unclean>>

ClientConfirms(c) ==
  /\ client[c].phase = "hello"
  /\ Confirm(Current(c))
  /\ client' = [client EXCEPT ![c].phase = "init"]
  /\ UNCHANGED <<serverVars, host, unclean>>

(* "TCP session failed - falling back to direct UDP". *)
FallBack(c) ==
  /\ client[c].phase \in {"connect", "hello"}
  /\ ClientGivesUp(Current(c))
  /\ client' = [client EXCEPT ![c].phase = "init", ![c].target = "none"]
  /\ UNCHANGED <<serverVars, host, unclean>>

(* ClientSession::Init; when it fails the screen is shown again, or the     *)
(* window stays without a stream.                                           *)
InitSession(c) ==
  /\ client[c].phase = "init"
  /\ \E phase \in {"streaming", IF c \in ScreenClients THEN "idle" ELSE "window"} :
       client' = [client EXCEPT ![c].phase = phase]
  /\ UNCHANGED <<serverVars, sessionVars, host, unclean>>

(* Disconnect returns to the screen; the programs without one end.          *)
Disconnect(c) ==
  /\ client[c].phase \in {"streaming", "window"}
  /\ client' = [client EXCEPT ![c].phase = IF c \in ScreenClients THEN "idle" ELSE "gone"]
  /\ UNCHANGED <<serverVars, sessionVars, host, unclean>>

(* Another program on c's machine takes a connection of the host.           *)
Stranger(c, h) ==
  /\ client[c].phase = "idle"
  /\ client[c].attempt < MaxAttempts
  /\ OtherConnects(<<c, client[c].attempt + 1>>, h)
  /\ client' = [client EXCEPT ![c].attempt = @ + 1]
  /\ UNCHANGED <<serverVars, host, unclean>>

------------------------------------------------------------------------------
HandleRequests ==
  /\ \/ \E h \in Hosts, k \in Codes : DrawCode(h, k)
     \/ \E h \in Hosts : StoreRoom(h)
     \/ \E k \in Codes : ExpireRoom(k)
  /\ UNCHANGED <<sessionVars, appVars>>

NegotiateTurn(h) == NegotiationFails(h) \/ Negotiate(h) \/ Negotiated(h)

HostTurn(h) ==
  \/ RoomCreated(h) \/ RoomMissed(h)
  \/ Listen(h) \/ NegotiateTurn(h)
  \/ Stream(h) \/ HostExits(h) \/ StopStreaming(h) \/ DeleteRoom(h)

ConnectTurn(c) == FallBack(c) \/ ClientConnects(c) \/ ClientConfirms(c)

Next ==
  \/ HandleRequests
  \/ \E h \in Hosts : HostTurn(h) \/ \E run \in 1..MaxRuns : StartWithRoom(h, run) \/ StartWithoutRoom(h, run)
  \/ \E c \in Clients :
       \/ \E k \in Codes : JoinRoom(c, k)
       \/ \E h \in Hosts : JoinAddress(c, h) \/ Stranger(c, h)
       \/ ConnectTurn(c) \/ InitSession(c) \/ Disconnect(c)

Spec == Init /\ [][Next]_vars

(* A program that has begun to negotiate goes on until it is through: each  *)
(* wait of the handshake ends by a message or by its timeout.  Only accept  *)
(* may wait for ever: Winsock promises SO_RCVTIMEO for receives alone.      *)
Unvisited(h) == session[h].stage = "accept" /\ backlog[h] = << >>

Fairness ==
  /\ \A h \in Hosts : WF_vars(~ Unvisited(h) /\ NegotiateTurn(h))
  /\ \A c \in Clients : WF_vars(ConnectTurn(c))

FairSpec == Spec /\ Fairness

------------------------------------------------------------------------------
Programs == {"off", "register", "listen", "negotiate", "init", "streaming", "delete"}

(* Every variable of the setup keeps its type. *)
TypeOK ==
  /\ ServerTypeOK
  /\ SessionTypeOK
  /\ host \in [Hosts -> [phase: Programs, run: 0..MaxRuns, code: Codes \union {NoCode}]]
  /\ client \in [Clients -> [phase: {"idle", "connect", "hello", "init", "streaming", "window", "gone"},
                             attempt: 0..MaxAttempts, target: Hosts \union {"none"}]]
  /\ unclean \subseteq Run

(* When AcceptClient succeeds, the attempt it accepted has ended in success *)
(* with the same key: host and client never disagree on the key, and a      *)
(* client the host encrypts for has not fallen back to plain UDP.           *)
SessionAgreed ==
  \A h \in Hosts : session[h].stage = "agreed" =>
    LET conn == conns[session[h].conn]
    IN conn.state = "done" /\ conn.key = session[h].key

(* ConnectToHost returns success before the host has seen the proof.  It    *)
(* may be wrong about being served, but never two clients are told they     *)
(* have a session with one run of a host, which serves one client only.     *)
ExclusiveSession ==
  \A i, j \in Attempt :
    conns[i].state = "done" /\ conns[j].state = "done" /\ conns[i].key.host = conns[j].key.host => i = j

(* Hosts that wait for players show different codes, unless two POSTs were  *)
(* handled at once, every code drawn was taken, or a room has expired.      *)
CodesDistinct ==
  ~ mishap => \A g, h \in Hosts : g # h /\ host[h].code # NoCode /\ host[g].phase # "off" /\ host[h].phase # "off"
                                        => host[g].code # host[h].code

(* A room is left behind only by a run that failed, or whose request to the *)
(* server failed: a clean exit removes the room of its run.                 *)
LeftoverNeedsFailure ==
  ~ mishap => \A k \in Codes :
    rooms[k] # NoRoom =>
      \/ rooms[k] \in unclean
      \/ rooms[k] = RunOf(rooms[k].host) /\ ~ At(rooms[k].host, "off")

(* Every handshake ends, at both ends, whoever else is connected, silent or *)
(* gone; a host waits only for somebody to connect.                         *)
HandshakeEnds ==
  /\ \A c \in Clients : client[c].phase \in {"connect", "hello"} ~> client[c].phase = "init"
  /\ \A h \in Hosts : At(h, "negotiate") /\ ~ Unvisited(h) ~> ~ At(h, "negotiate")
=============================================================================
