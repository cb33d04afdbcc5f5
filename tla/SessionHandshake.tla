-------------------------- MODULE SessionHandshake --------------------------
(***************************************************************************)
(* The TCP session of common/protocol/session.cpp: one Session object per  *)
(* host, one per connection attempt of a client, and the connections       *)
(* between them.  A key is modelled by who owns it; ECDH yields the same   *)
(* secret at two ends exactly when they hold each other's public key.      *)
(* Any receive may time out or fail, even with its message on the way.     *)
(***************************************************************************)
EXTENDS HostRuns, Sequences

CONSTANTS
  Clients,         (* machines that join                                     *)
  MaxAttempts,     (* bound: connections a client tries                      *)
  Backlog          (* connections the listening socket queues                *)

ASSUME SessionAssumption ==
  /\ MaxAttempts \in Nat \ {0}
  /\ Backlog \in Nat \ {0}

VARIABLES
  session,         (* host -> its Session object                             *)
  backlog,         (* host -> connections not yet accepted                   *)
  conns            (* attempt of a client -> its connection                  *)

sessionVars == <<session, backlog, conns>>

Attempt == Clients \X (1..MaxAttempts)
NoAttempt == <<"none", 0>>

(* The key pair a host makes in one run; a session key has two owners.     *)
HostKey == Hosts \X (1..MaxRuns)
NoHostKey == <<"none", 0>>
Key(i, hostKey) == [client |-> i, host |-> hostKey]
Keys == [client: Attempt \union {NoAttempt}, host: HostKey \union {NoHostKey}]
NoKey == Key(NoAttempt, NoHostKey)

Message == [type: {"CLIENT_HELLO", "HOST_HELLO", "SESSION_READY"}, key: Keys]
ClientHello(i) == [type |-> "CLIENT_HELLO", key |-> Key(i, NoHostKey)]
HostHello(hostKey) == [type |-> "HOST_HELLO", key |-> Key(NoAttempt, hostKey)]
SessionReady(key) == [type |-> "SESSION_READY", key |-> key]

NoSession == [stage |-> "none", run |-> 0, conn |-> NoAttempt, key |-> NoKey]

SessionInit ==
  /\ session = [h \in Hosts |-> NoSession]
  /\ backlog = [h \in Hosts |-> << >>]
  /\ conns = [i \in Attempt |-> [state |-> "unused", up |-> << >>, down |-> << >>, key |-> NoKey]]

------------------------------------------------------------------------------
(* Host. *)

Listening(h) == session[h].stage \in {"accept", "hello", "proof"}

HostListen(h, run) ==
  /\ session' = [session EXCEPT ![h] = [stage |-> "accept", run |-> run, conn |-> NoAttempt, key |-> NoKey]]
  /\ UNCHANGED <<backlog, conns>>

Accept(h) ==
  /\ session[h].stage = "accept"
  /\ backlog[h] # << >>
  /\ session' = [session EXCEPT ![h] = [@ EXCEPT !.stage = "hello", !.conn = Head(backlog[h])]]
  /\ backlog' = [backlog EXCEPT ![h] = Tail(@)]
  /\ UNCHANGED conns

Received(h) == conns[session[h].conn].up

(* A valid CLIENT_HELLO: derive the key and answer with HOST_HELLO. *)
AnswerHello(h) ==
  LET i == session[h].conn
      hostKey == <<h, session[h].run>>
  IN /\ session[h].stage = "hello"
     /\ Received(h) # << >>
     /\ Head(Received(h)).type = "CLIENT_HELLO"
     /\ session' = [session EXCEPT ![h] = [@ EXCEPT !.stage = "proof",
                                                    !.key = Key(Head(Received(h)).key.client, hostKey)]]
     /\ conns' = [conns EXCEPT ![i] = [state |-> @.state, key |-> @.key, up |-> Tail(@.up),
                                       down |-> Append(@.down, HostHello(hostKey))]]
     /\ UNCHANGED backlog

(* Mutant of Agree: HOST_HELLO is taken for the end of the handshake. *)
AgreeUnproved(h) ==
  /\ session[h].stage = "proof"
  /\ session' = [session EXCEPT ![h].stage = "agreed"]
  /\ backlog' = [backlog EXCEPT ![h] = << >>]
  /\ UNCHANGED conns

(* A SESSION_READY with the right proof.  AcceptClient returns, the Session *)
(* goes out of scope and closes both sockets.                               *)
Agree(h) ==
  LET i == session[h].conn
  IN /\ session[h].stage = "proof"
     /\ Received(h) # << >>
     /\ Head(Received(h)).type = "SESSION_READY"
     /\ Head(Received(h)).key = session[h].key
     /\ session' = [session EXCEPT ![h].stage = "agreed"]
     /\ conns' = [conns EXCEPT ![i].up = Tail(@)]
     /\ backlog' = [backlog EXCEPT ![h] = << >>]

(* Mutant of HostGivesUp: the next client is accepted instead. *)
AcceptsNext(h) ==
  /\ Listening(h)
  /\ session' = [session EXCEPT ![h].stage = "accept"]
  /\ UNCHANGED <<backlog, conns>>

(* A timeout, a closed connection, a message of another kind, a wrong proof *)
(* or a failing system call: AcceptClient returns false and the Session is  *)
(* destroyed with the program.                                              *)
HostGivesUp(h) ==
  /\ Listening(h)
  /\ session' = [session EXCEPT ![h] = NoSession]
  /\ backlog' = [backlog EXCEPT ![h] = << >>]
  /\ UNCHANGED conns

(* The session, and the key it agreed on, go with the program. *)
ForgetSession(h) == session' = [session EXCEPT ![h] = NoSession] /\ UNCHANGED <<backlog, conns>>

------------------------------------------------------------------------------
(* Client: ConnectToHost. *)

(* Mutant of Enqueue: no limit to the queue. *)
EnqueueUnbounded(i, h, messages, state) ==
  /\ Listening(h)
  /\ conns[i].state = "unused"
  /\ backlog' = [backlog EXCEPT ![h] = Append(@, i)]
  /\ conns' = [conns EXCEPT ![i] = [@ EXCEPT !.state = state, !.up = messages]]
  /\ UNCHANGED session

Enqueue(i, h, messages, state) ==
  /\ Listening(h)
  /\ conns[i].state = "unused"
  /\ Len(backlog[h]) < Backlog
  /\ backlog' = [backlog EXCEPT ![h] = Append(@, i)]
  /\ conns' = [conns EXCEPT ![i] = [@ EXCEPT !.state = state, !.up = messages]]
  /\ UNCHANGED session

(* The connection is made and CLIENT_HELLO sent. *)
Connect(i, h) == Enqueue(i, h, <<ClientHello(i)>>, "waiting")

(* Some other program connects, says nothing of use, and leaves.            *)
OtherConnects(i, h) == Enqueue(i, h, << >>, "failed")

(* A HOST_HELLO: derive the key, send SESSION_READY, return success without *)
(* waiting for an answer.                                                   *)
Confirm(i) ==
  /\ conns[i].state = "waiting"
  /\ conns[i].down # << >>
  /\ LET key == Key(i, Head(conns[i].down).key.host)
     IN conns' = [conns EXCEPT ![i] = [state |-> "done", down |-> Tail(@.down), key |-> key,
                                       up |-> Append(@.up, SessionReady(key))]]
  /\ UNCHANGED <<session, backlog>>

(* Mutant of ClientGivesUp: HOST_HELLO is awaited without a timeout. *)
ClientWaits(i) ==
  /\ conns[i].state = "unused"
  /\ conns' = [conns EXCEPT ![i].state = "failed"]
  /\ UNCHANGED <<session, backlog>>

(* Refused, timed out, closed by the host, or a failing system call. *)
ClientGivesUp(i) ==
  /\ conns[i].state \in {"unused", "waiting"}
  /\ conns' = [conns EXCEPT ![i] = [@ EXCEPT !.state = "failed", !.down = << >>]]
  /\ UNCHANGED <<session, backlog>>

------------------------------------------------------------------------------
SessionTypeOK ==
  /\ session \in [Hosts -> [stage: {"none", "accept", "hello", "proof", "agreed"}, run: 0..MaxRuns,
                            conn: Attempt \union {NoAttempt}, key: Keys]]
  /\ backlog \in [Hosts -> Seq(Attempt)]
  /\ \A h \in Hosts : Len(backlog[h]) <= Backlog
  /\ conns \in [Attempt -> [state: {"unused", "waiting", "done", "failed"}, up: Seq(Message),
                            down: Seq(Message), key: Keys]]
  /\ \A h \in Hosts : session[h].stage \in {"hello", "proof", "agreed"} => session[h].conn \in Attempt
  /\ \A h \in Hosts : session[h].stage # "none" => session[h].run > 0
=============================================================================
