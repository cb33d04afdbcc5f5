-------------------------- MODULE StreamSetupProofs --------------------------
(***************************************************************************)
(* Proofs about StreamSetup for any number of hosts, clients, codes, runs  *)
(* and attempts: types, the session keys and the room codes.               *)
(***************************************************************************)
EXTENDS StreamSetup, SequenceTheorems, TLAPS

Conn == [state: {"unused", "waiting", "done", "failed"}, up: Seq(Message), down: Seq(Message), key: Keys]

Program == [phase: Programs, run: 0..MaxRuns, code: Codes \union {NoCode}]
Screen == [phase: {"idle", "connect", "hello", "init", "streaming", "window", "gone"},
           attempt: 0..MaxAttempts, target: Hosts \union {"none"}]

AppTypeOK ==
  /\ host \in [Hosts -> Program]
  /\ client \in [Clients -> Screen]
  /\ unclean \subseteq Run

(* What the phase of a program p says about its run and its Session s, ...  *)
Fits(p, s) ==
  /\ p.phase # "off" => p.run > 0
  /\ s.stage # "none" => s.run = p.run
  /\ p.phase = "negotiate" => s.stage \in {"accept", "hello", "proof"}
  /\ p.phase \in {"init", "streaming"} => s.stage = "agreed"
  /\ p.phase \notin {"negotiate", "init", "streaming"} => s.stage = "none"

(* ... and that of a client p about its attempt to connect.                 *)
Aims(p) ==
  /\ p.phase \in {"connect", "hello"} => p.attempt > 0
  /\ p.phase = "connect" => p.target \in Hosts

Phased ==
  /\ \A h \in Hosts : Fits(host[h], session[h])
  /\ \A c \in Clients : Aims(client[c])

(* The calls into the signaling server and into the TCP session a step can  *)
(* make, whatever program makes them.                                       *)
ServerCall ==
  \/ UNCHANGED serverVars
  \/ \E h \in Hosts, run \in 1..MaxRuns : CreateRequest(h, run)
  \/ \E h \in Hosts, k \in Codes : DrawCode(h, k)
  \/ \E h \in Hosts : StoreRoom(h)
  \/ \E k \in Codes : ExpireRoom(k)
  \/ \E h \in Hosts : RemoveRoom(host[h].code)

SessionCall ==
  \/ UNCHANGED sessionVars
  \/ \E h \in Hosts : At(h, "listen") /\ HostListen(h, host[h].run)
  \/ \E h \in Hosts : Accept(h) \/ AnswerHello(h) \/ Agree(h) \/ HostGivesUp(h) \/ ForgetSession(h)
  \/ \E i \in Attempt, h \in Hosts : Connect(i, h) \/ OtherConnects(i, h)
  \/ \E i \in Attempt : Confirm(i) \/ ClientGivesUp(i)

------------------------------------------------------------------------------
LEMMA TypeParts == TypeOK <=> ServerTypeOK /\ SessionTypeOK /\ AppTypeOK
  BY DEF TypeOK, AppTypeOK, Program, Screen

LEMMA ServerCalls == [Next]_vars => ServerCall
<1> SUFFICES ASSUME [Next]_vars PROVE ServerCall
  OBVIOUS
<1>1. CASE HandleRequests
  BY <1>1 DEF HandleRequests, ServerCall
<1>2. ASSUME NEW h \in Hosts, HostTurn(h)
      PROVE  ServerCall
  BY <1>2 DEF HostTurn, RoomCreated, RoomMissed, Listen, NegotiateTurn, NegotiationFails, Negotiate, Negotiated,
              Stream, HostExits, StopStreaming, DeleteRoom, ServerCall
<1>3. ASSUME NEW h \in Hosts, NEW run \in 1..MaxRuns, StartWithRoom(h, run) \/ StartWithoutRoom(h, run)
      PROVE  ServerCall
  BY <1>3 DEF StartWithRoom, StartWithoutRoom, ServerCall
<1>4. ASSUME NEW c \in Clients,
             \/ \E k \in Codes : JoinRoom(c, k)
             \/ \E h \in Hosts : JoinAddress(c, h) \/ Stranger(c, h)
             \/ ConnectTurn(c) \/ InitSession(c) \/ Disconnect(c)
      PROVE  UNCHANGED serverVars
  BY <1>4 DEF JoinRoom, JoinAddress, Goal, Stranger, ConnectTurn, FallBack, ClientConnects, ClientConfirms,
              InitSession, Disconnect, serverVars
<1>5. CASE UNCHANGED vars
  BY <1>5 DEF vars, serverVars, ServerCall
<1> QED BY <1>1, <1>2, <1>3, <1>4, <1>5 DEF Next, ServerCall

LEMMA SessionCalls == AppTypeOK /\ Phased /\ [Next]_vars => SessionCall
<1> SUFFICES ASSUME AppTypeOK, Phased, [Next]_vars PROVE SessionCall
  OBVIOUS
<1>1. CASE HandleRequests \/ UNCHANGED vars
  BY <1>1 DEF HandleRequests, vars, sessionVars, SessionCall
<1>2. ASSUME NEW h \in Hosts, HostTurn(h)
      PROVE  SessionCall
  BY <1>2 DEF HostTurn, RoomCreated, RoomMissed, Listen, NegotiateTurn, NegotiationFails, Negotiate, Negotiated,
              Stream, HostExits, StopStreaming, DeleteRoom, SessionCall
<1>3. ASSUME NEW h \in Hosts, NEW run \in 1..MaxRuns, StartWithRoom(h, run) \/ StartWithoutRoom(h, run)
      PROVE  SessionCall
  BY <1>3 DEF StartWithRoom, StartWithoutRoom, Starts, SessionCall
<1>4. ASSUME NEW c \in Clients,
             (\E k \in Codes : JoinRoom(c, k)) \/ (\E h \in Hosts : JoinAddress(c, h))
             \/ InitSession(c) \/ Disconnect(c)
      PROVE  SessionCall
  BY <1>4 DEF JoinRoom, JoinAddress, Goal, InitSession, Disconnect, SessionCall
<1>5. ASSUME NEW c \in Clients, ConnectTurn(c)
      PROVE  SessionCall
  <2>1. client[c].phase \in {"connect", "hello"}
    BY <1>5 DEF ConnectTurn, FallBack, ClientConnects, ClientConfirms
  <2>2. client[c].attempt \in 1..MaxAttempts
    BY <2>1, SessionAssumption DEF AppTypeOK, Screen, Phased, Aims
  <2>3. Current(c) \in Attempt
    BY <2>2 DEF Current, Attempt
  <2>4. client[c].phase = "connect" => client[c].target \in Hosts
    BY DEF Phased, Aims
  <2> QED BY <1>5, <2>3, <2>4 DEF ConnectTurn, FallBack, ClientConnects, ClientConfirms, SessionCall
<1>6. ASSUME NEW c \in Clients, NEW h \in Hosts, Stranger(c, h)
      PROVE  SessionCall
  <2>1. client[c].attempt + 1 \in 1..MaxAttempts
    BY <1>6, SessionAssumption DEF Stranger, AppTypeOK, Screen
  <2>2. <<c, client[c].attempt + 1>> \in Attempt
    BY <2>1 DEF Attempt
  <2> QED BY <1>6, <2>2 DEF Stranger, SessionCall
<1> QED BY <1>1, <1>2, <1>3, <1>4, <1>5, <1>6 DEF Next

------------------------------------------------------------------------------
(* Types. *)

LEMMA ServerTyped == ServerTypeOK /\ ServerCall => ServerTypeOK'
<1> SUFFICES ASSUME ServerTypeOK, ServerCall PROVE ServerTypeOK'
  OBVIOUS
<1> USE ServerAssumption DEF ServerTypeOK
<1>1. CASE UNCHANGED serverVars
  BY <1>1 DEF serverVars
<1>2. ASSUME NEW h \in Hosts, NEW run \in 1..MaxRuns, CreateRequest(h, run)
      PROVE  ServerTypeOK'
  BY <1>2 DEF CreateRequest, Note
<1>3. ASSUME NEW h \in Hosts, NEW k \in Codes, DrawCode(h, k)
      PROVE  ServerTypeOK'
  <2>1. rooms' = rooms /\ mishap' \in BOOLEAN
    BY <1>3 DEF DrawCode, Note
  <2>2. post[h].tries \in Nat /\ post[h].tries < MaxTries
    BY <1>3 DEF DrawCode
  <2> DEFINE stage == IF rooms[k] = NoRoom \/ post[h].tries + 1 = MaxTries THEN "put" ELSE "draw"
  <2>3. post' = [post EXCEPT ![h] = [stage |-> stage, tries |-> post[h].tries + 1, code |-> k, run |-> post[h].run]]
    BY <1>3 DEF DrawCode
  <2>4. stage \in {"draw", "put"}
    OBVIOUS
  <2>5. stage = "draw" => post[h].tries + 1 < MaxTries
    BY <2>2
  <2>6. post[h].run > 0 /\ post[h].run \in 0..MaxRuns
    BY <1>3 DEF DrawCode
  <2> HIDE DEF stage
  <2> QED BY <2>1, <2>2, <2>3, <2>4, <2>5, <2>6
<1>4. ASSUME NEW h \in Hosts, StoreRoom(h)
      PROVE  ServerTypeOK'
  <2>1. [host |-> h, run |-> post[h].run] \in Run
    BY <1>4, RunsAssumption DEF StoreRoom, Run
  <2> QED BY <1>4, <2>1 DEF StoreRoom
<1>5. ASSUME NEW k, RemoveRoom(k) \/ ExpireRoom(k)
      PROVE  ServerTypeOK'
  BY <1>5 DEF RemoveRoom, ExpireRoom, Note
<1> QED BY <1>1, <1>2, <1>3, <1>4, <1>5 DEF ServerCall

LEMMA KeysTyped ==
  /\ \A i \in Attempt : \A k \in HostKey \union {NoHostKey} : Key(i, k) \in Keys
  /\ \A k \in HostKey : Key(NoAttempt, k) \in Keys
  /\ NoKey \in Keys
  BY DEF Key, Keys, NoKey

LEMMA MessagesTyped ==
  /\ \A i \in Attempt : ClientHello(i) \in Message
  /\ \A k \in HostKey : HostHello(k) \in Message
  /\ \A key \in Keys : SessionReady(key) \in Message
  BY KeysTyped DEF ClientHello, HostHello, SessionReady, Message, Key, Keys

(* A Session object and a connection, by the type of its parts. *)
SessionObject == [stage: {"none", "accept", "hello", "proof", "agreed"}, run: 0..MaxRuns,
                  conn: Attempt \union {NoAttempt}, key: Keys]
ObjectFits(s) == /\ s.stage \in {"hello", "proof", "agreed"} => s.conn \in Attempt
                 /\ s.stage # "none" => s.run > 0

LEMMA SessionTypeParts ==
  SessionTypeOK <=>
    /\ session \in [Hosts -> SessionObject] /\ \A h \in Hosts : ObjectFits(session[h])
    /\ backlog \in [Hosts -> Seq(Attempt)] /\ \A h \in Hosts : Len(backlog[h]) <= Backlog
    /\ conns \in [Attempt -> Conn]
  BY DEF SessionTypeOK, SessionObject, ObjectFits, Conn

LEMMA SessionTyped == SessionTypeOK /\ Phased /\ AppTypeOK /\ SessionCall => SessionTypeOK'
<1> SUFFICES ASSUME SessionTypeOK, Phased, AppTypeOK, SessionCall PROVE SessionTypeOK'
  OBVIOUS
<1>0. /\ session \in [Hosts -> SessionObject] /\ \A h \in Hosts : ObjectFits(session[h])
      /\ backlog \in [Hosts -> Seq(Attempt)] /\ \A h \in Hosts : Len(backlog[h]) <= Backlog
      /\ conns \in [Attempt -> Conn]
  BY SessionTypeParts
<1>1. ASSUME session' \in [Hosts -> SessionObject], \A h \in Hosts : ObjectFits(session[h])',
             backlog' \in [Hosts -> Seq(Attempt)], \A h \in Hosts : Len(backlog[h])' <= Backlog,
             conns' \in [Attempt -> Conn]
      PROVE  SessionTypeOK'
  BY <1>1 DEF SessionTypeOK, SessionObject, ObjectFits, Conn
<1>2. ASSUME NEW h \in Hosts, NEW s \in SessionObject, ObjectFits(s), session' = [session EXCEPT ![h] = s]
      PROVE  session' \in [Hosts -> SessionObject] /\ \A g \in Hosts : ObjectFits(session[g])'
  BY <1>0, <1>2 DEF ObjectFits
<1>3. ASSUME NEW h \in Hosts, NEW q \in Seq(Attempt), Len(q) <= Backlog, backlog' = [backlog EXCEPT ![h] = q]
      PROVE  backlog' \in [Hosts -> Seq(Attempt)] /\ \A g \in Hosts : Len(backlog[g])' <= Backlog
  BY <1>0, <1>3
<1>4. ASSUME NEW i \in Attempt, NEW c \in Conn, conns' = [conns EXCEPT ![i] = c]
      PROVE  conns' \in [Attempt -> Conn]
  BY <1>0, <1>4
<1>14. UNCHANGED session => session' \in [Hosts -> SessionObject] /\ \A h \in Hosts : ObjectFits(session[h])'
  BY <1>0 DEF ObjectFits
<1>5. CASE UNCHANGED sessionVars
  BY <1>0, <1>1, <1>5 DEF sessionVars, ObjectFits
<1>6. ASSUME NEW h \in Hosts, At(h, "listen"), HostListen(h, host[h].run)
      PROVE  SessionTypeOK'
  <2> DEFINE s == [stage |-> "accept", run |-> host[h].run, conn |-> NoAttempt, key |-> NoKey]
  <2>1. s \in SessionObject /\ ObjectFits(s)
    BY <1>6, KeysTyped DEF AppTypeOK, Program, SessionObject, ObjectFits, At, Phased, Fits
  <2>2. session' = [session EXCEPT ![h] = s] /\ UNCHANGED <<backlog, conns>>
    BY <1>6 DEF HostListen
  <2> HIDE DEF s
  <2> QED BY <1>0, <1>2, <2>1, <2>2, <1>1
<1>7. ASSUME NEW h \in Hosts, Accept(h)
      PROVE  SessionTypeOK'
  <2> DEFINE s == [session[h] EXCEPT !.stage = "hello", !.conn = Head(backlog[h])]
             q == Tail(backlog[h])
  <2>1. Head(backlog[h]) \in Attempt /\ q \in Seq(Attempt) /\ Len(q) <= Backlog
    BY <1>0, <1>7, HeadTailProperties, SessionAssumption DEF Accept
  <2>2. s \in SessionObject /\ ObjectFits(s)
    BY <1>0, <1>7, <2>1 DEF Accept, SessionObject, ObjectFits
  <2>3. session' = [session EXCEPT ![h] = s]
    BY <1>7 DEF Accept
  <2>4. backlog' = [backlog EXCEPT ![h] = q] /\ UNCHANGED conns
    BY <1>7 DEF Accept
  <2> HIDE DEF s, q
  <2> QED BY <1>0, <1>2, <1>3, <2>1, <2>2, <2>3, <2>4, <1>1
<1>8. ASSUME NEW h \in Hosts, AnswerHello(h)
      PROVE  SessionTypeOK'
  <2> DEFINE i == session[h].conn
             hostKey == <<h, session[h].run>>
             key == Key(Head(conns[i].up).key.client, hostKey)
             s == [session[h] EXCEPT !.stage = "proof", !.key = key]
             c == [state |-> conns[i].state, key |-> conns[i].key, up |-> Tail(conns[i].up),
                   down |-> Append(conns[i].down, HostHello(hostKey))]
  <2>1. i \in Attempt /\ session[h].run \in 1..MaxRuns /\ conns[i].up # << >>
    <3>1. session[h].stage = "hello" /\ conns[i].up # << >>
      BY <1>8 DEF AnswerHello, Received
    <3> QED BY <1>0, <3>1, RunsAssumption DEF ObjectFits, SessionObject
  <2>2. hostKey \in HostKey
    BY <2>1 DEF HostKey
  <2>3. Head(conns[i].up) \in Message /\ Tail(conns[i].up) \in Seq(Message)
    BY <1>0, <2>1, HeadTailProperties DEF Conn
  <2>4. key \in Keys
    BY <2>2, <2>3 DEF Message, Keys, Key
  <2>5. s \in SessionObject /\ ObjectFits(s)
    <3> HIDE DEF key
    <3>1. s \in SessionObject
      BY <1>0, <2>4 DEF SessionObject
    <3>2. s.conn = i /\ s.run = session[h].run
      BY <1>0 DEF SessionObject
    <3> QED BY <2>1, <3>1, <3>2, RunsAssumption DEF ObjectFits
  <2>6. c \in Conn
    <3>1. Append(conns[i].down, HostHello(hostKey)) \in Seq(Message)
      BY <1>0, <2>1, <2>2, MessagesTyped, AppendProperties DEF Conn
    <3> QED BY <1>0, <2>1, <2>3, <3>1 DEF Conn
  <2>7. session' = [session EXCEPT ![h] = s]
    BY <1>8 DEF AnswerHello, Received
  <2>8. conns' = [conns EXCEPT ![i] = c]
    BY <1>8 DEF AnswerHello
  <2>9. UNCHANGED backlog
    BY <1>8 DEF AnswerHello
  <2> HIDE DEF s, c
  <2> QED BY <1>0, <1>2, <1>4, <2>1, <2>5, <2>6, <2>7, <2>8, <2>9, <1>1
<1>9. ASSUME NEW h \in Hosts, Agree(h)
      PROVE  SessionTypeOK'
  <2> DEFINE i == session[h].conn
             s == [session[h] EXCEPT !.stage = "agreed"]
             c == [conns[i] EXCEPT !.up = Tail(@)]
  <2>1. i \in Attempt /\ conns[i].up # << >>
    BY <1>0, <1>9 DEF Agree, ObjectFits, Received
  <2>2. Tail(conns[i].up) \in Seq(Message)
    BY <1>0, <2>1, HeadTailProperties DEF Conn
  <2>3. s \in SessionObject /\ ObjectFits(s)
    BY <1>0, <1>9, <2>1 DEF Agree, SessionObject, ObjectFits
  <2>4. c \in Conn
    BY <1>0, <2>1, <2>2 DEF Conn
  <2>5. session' = [session EXCEPT ![h] = s]
    BY <1>9 DEF Agree
  <2>6. conns' = [conns EXCEPT ![i] = c]
    BY <1>9 DEF Agree
  <2>7. << >> \in Seq(Attempt) /\ Len(<< >>) <= Backlog /\ backlog' = [backlog EXCEPT ![h] = << >>]
    BY <1>9, SessionAssumption, EmptySeq DEF Agree
  <2> HIDE DEF s, c
  <2> QED BY <1>2, <1>3, <1>4, <2>1, <2>3, <2>4, <2>5, <2>6, <2>7, <1>1
<1>10. ASSUME NEW h \in Hosts, HostGivesUp(h) \/ ForgetSession(h)
       PROVE  SessionTypeOK'
  <2>1. NoSession \in SessionObject /\ ObjectFits(NoSession)
    BY KeysTyped, RunsAssumption DEF NoSession, SessionObject, ObjectFits
  <2>2. session' = [session EXCEPT ![h] = NoSession] /\ UNCHANGED conns
    BY <1>10 DEF HostGivesUp, ForgetSession
  <2>3. << >> \in Seq(Attempt) /\ Len(<< >>) <= Backlog
    BY SessionAssumption, EmptySeq
  <2>4. backlog' = [backlog EXCEPT ![h] = << >>] \/ backlog' = backlog
    BY <1>10 DEF HostGivesUp, ForgetSession
  <2> QED BY <1>0, <1>2, <1>3, <2>1, <2>2, <2>3, <2>4, <1>1
<1>11. ASSUME NEW i \in Attempt, NEW h \in Hosts, Connect(i, h) \/ OtherConnects(i, h)
       PROVE  SessionTypeOK'
  <2>0. << >> \in Seq(Message) /\ <<ClientHello(i)>> \in Seq(Message)
    BY MessagesTyped, EmptySeq
  <2>1. PICK messages \in Seq(Message), state \in {"waiting", "failed"} : Enqueue(i, h, messages, state)
    BY <1>11, <2>0 DEF Connect, OtherConnects
  <2> DEFINE q == Append(backlog[h], i)
             c == [conns[i] EXCEPT !.state = state, !.up = messages]
  <2>2. q \in Seq(Attempt) /\ Len(q) <= Backlog
    BY <1>0, <2>1, AppendProperties, LenProperties, SessionAssumption DEF Enqueue
  <2>3. c \in Conn
    BY <1>0 DEF Conn
  <2>4. conns' = [conns EXCEPT ![i] = c]
    BY <2>1 DEF Enqueue
  <2>5. backlog' = [backlog EXCEPT ![h] = q] /\ UNCHANGED session
    BY <2>1 DEF Enqueue
  <2> HIDE DEF q, c
  <2> QED BY <1>0, <1>3, <1>4, <2>2, <2>3, <2>4, <2>5, <1>1, <1>14
<1>12. ASSUME NEW i \in Attempt, Confirm(i)
       PROVE  SessionTypeOK'
  <2> DEFINE key == Key(i, Head(conns[i].down).key.host)
             c == [state |-> "done", up |-> Append(conns[i].up, SessionReady(key)),
                   down |-> Tail(conns[i].down), key |-> key]
  <2>1. Head(conns[i].down) \in Message /\ Tail(conns[i].down) \in Seq(Message)
    BY <1>0, <1>12, HeadTailProperties DEF Confirm, Conn
  <2>2. key \in Keys
    BY <2>1 DEF Message, Keys, Key
  <2>3. Append(conns[i].up, SessionReady(key)) \in Seq(Message)
    BY <1>0, <2>2, MessagesTyped, AppendProperties DEF Conn
  <2>4. c \in Conn
    BY <2>1, <2>2, <2>3 DEF Conn
  <2>5. conns' = [conns EXCEPT ![i] = c] /\ UNCHANGED <<session, backlog>>
    BY <1>12 DEF Confirm
  <2> HIDE DEF c
  <2> QED BY <1>0, <1>4, <2>4, <2>5, <1>1, <1>14
<1>13. ASSUME NEW i \in Attempt, ClientGivesUp(i)
       PROVE  SessionTypeOK'
  <2> DEFINE c == [conns[i] EXCEPT !.state = "failed", !.down = << >>]
  <2>1. c \in Conn
    BY <1>0, EmptySeq DEF Conn
  <2>2. conns' = [conns EXCEPT ![i] = c] /\ UNCHANGED <<session, backlog>>
    BY <1>13 DEF ClientGivesUp
  <2> HIDE DEF c
  <2> QED BY <1>0, <1>4, <2>1, <2>2, <1>1, <1>14
<1> QED
  BY <1>5, <1>6, <1>7, <1>8, <1>9, <1>10, <1>11, <1>12, <1>13 DEF SessionCall

(* A step of the program on host h, and one of client c. *)
LEMMA HostMoves ==
  ASSUME AppTypeOK, Phased, SessionTypeOK, NEW h \in Hosts, NEW p \in Program, NEW s, Fits(p, s),
         host' = [host EXCEPT ![h] = p], session' = [session EXCEPT ![h] = s],
         UNCHANGED client, unclean' \subseteq Run
  PROVE  AppTypeOK' /\ Phased'
  BY DEF AppTypeOK, Phased, SessionTypeOK, Fits, Aims

LEMMA ClientMoves ==
  ASSUME AppTypeOK, Phased, NEW c \in Clients, NEW p \in Screen, Aims(p),
         client' = [client EXCEPT ![c] = p], UNCHANGED <<host, session, unclean>>
  PROVE  AppTypeOK' /\ Phased'
  BY DEF AppTypeOK, Phased, Fits, Aims

LEMMA SameSession == SessionTypeOK /\ UNCHANGED session => \A h \in Hosts : session' = [session EXCEPT ![h] = session[h]]
  BY DEF SessionTypeOK

LEMMA HostPhased == TypeOK /\ Phased /\ (\E h \in Hosts : HostTurn(h)) => AppTypeOK' /\ Phased'
<1> SUFFICES ASSUME TypeOK, Phased, NEW h \in Hosts, HostTurn(h)
             PROVE  AppTypeOK' /\ Phased'
  OBVIOUS
<1>0. AppTypeOK /\ SessionTypeOK /\ ServerTypeOK /\ host[h] \in Program /\ Fits(host[h], session[h])
  BY TypeParts DEF AppTypeOK, Phased
<1>1. host[h].phase # "off" => RunOf(h) \in Run
  BY <1>0, RunsAssumption DEF RunOf, Run, Program, Fits
<1>2. ASSUME NEW phase \in Programs PROVE [host[h] EXCEPT !.phase = phase] \in Program
  BY <1>0 DEF Program
<1>3. [host[h] EXCEPT !.phase = "off", !.code = NoCode] \in Program
  BY <1>0 DEF Program, Programs
<1>4. Ends(h) => host' = [host EXCEPT ![h] = [host[h] EXCEPT !.phase = "off", !.code = NoCode]]
  BY DEF Ends
<1>5. CASE RoomCreated(h)
  <2> DEFINE p == [host[h] EXCEPT !.phase = "listen", !.code = post[h].code]
  <2>1. p \in Program
    BY <1>0 DEF Program, Programs, ServerTypeOK
  <2>2. Fits(p, session[h])
    BY <1>0, <1>5 DEF Fits, RoomCreated, At, Program
  <2>3. host' = [host EXCEPT ![h] = p] /\ UNCHANGED <<session, client, unclean>>
    BY <1>5 DEF RoomCreated, sessionVars
  <2> HIDE DEF p
  <2> QED BY <1>0, <2>1, <2>2, <2>3, HostMoves, SameSession DEF AppTypeOK
<1>6. CASE RoomMissed(h) \/ Stream(h)
  <2>1. PICK phase \in {"listen", "streaming"} :
          /\ host' = [host EXCEPT ![h].phase = phase]
          /\ phase = "listen" => host[h].phase = "register"
          /\ phase = "streaming" => host[h].phase = "init"
    BY <1>6 DEF RoomMissed, Stream, Goto, At
  <2> DEFINE p == [host[h] EXCEPT !.phase = phase]
  <2>2. p \in Program
    BY <1>2 DEF Programs
  <2>3. Fits(p, session[h])
    BY <1>0, <2>1 DEF Fits, Program
  <2>4. UNCHANGED <<session, client>> /\ unclean' \subseteq Run
    BY <1>0, <1>1, <1>6 DEF RoomMissed, Stream, Fails, At, AppTypeOK, sessionVars
  <2>5. host' = [host EXCEPT ![h] = p]
    BY <2>1
  <2> HIDE DEF p
  <2> QED BY <1>0, <2>2, <2>3, <2>4, <2>5, HostMoves, SameSession
<1>7. CASE Listen(h)
  <2> DEFINE p == [host[h] EXCEPT !.phase = "negotiate"]
             s == [stage |-> "accept", run |-> host[h].run, conn |-> NoAttempt, key |-> NoKey]
  <2>1. p \in Program
    BY <1>2 DEF Programs
  <2>2. Fits(p, s)
    BY <1>0, <1>7 DEF Fits, Listen, At, Program
  <2>3. host' = [host EXCEPT ![h] = p] /\ session' = [session EXCEPT ![h] = s] /\ UNCHANGED <<client, unclean>>
    BY <1>7 DEF Listen, Goto, HostListen
  <2> HIDE DEF p, s
  <2> QED BY <1>0, <2>1, <2>2, <2>3, HostMoves DEF AppTypeOK
<1>8. CASE Negotiate(h)
  <2>1. PICK s : session' = [session EXCEPT ![h] = s]
                 /\ s.stage \in {"hello", "proof"} /\ s.run = session[h].run /\ session[h].stage \in {"accept", "hello"}
    <3>1. session[h] \in SessionObject
      BY <1>0, SessionTypeParts
    <3>2. CASE Accept(h)
      <4> DEFINE s == [session[h] EXCEPT !.stage = "hello", !.conn = Head(backlog[h])]
      <4>1. session' = [session EXCEPT ![h] = s] /\ session[h].stage = "accept"
        BY <3>2 DEF Accept
      <4>2. s.stage = "hello" /\ s.run = session[h].run
        BY <3>1 DEF SessionObject
      <4> QED BY <4>1, <4>2
    <3>3. CASE AnswerHello(h)
      <4> DEFINE s == [session[h] EXCEPT !.stage = "proof", !.key = Key(Head(Received(h)).key.client, <<h, session[h].run>>)]
      <4>1. session' = [session EXCEPT ![h] = s] /\ session[h].stage = "hello"
        BY <3>3 DEF AnswerHello
      <4>2. s.stage = "proof" /\ s.run = session[h].run
        BY <3>1 DEF SessionObject
      <4> QED BY <4>1, <4>2
    <3> QED BY <1>8, <3>2, <3>3 DEF Negotiate
  <2>2. host' = [host EXCEPT ![h] = host[h]] /\ UNCHANGED <<client, unclean>>
    BY <1>0, <1>8 DEF Negotiate, appVars, AppTypeOK
  <2>3. Fits(host[h], s)
    BY <1>0, <2>1 DEF Fits
  <2> QED BY <1>0, <2>1, <2>2, <2>3, HostMoves DEF AppTypeOK
<1>9. CASE Negotiated(h)
  <2> DEFINE p == [host[h] EXCEPT !.phase = "init"]
             s == [session[h] EXCEPT !.stage = "agreed"]
  <2>1. p \in Program
    BY <1>2 DEF Programs
  <2>2. session[h].stage = "proof" /\ host' = [host EXCEPT ![h] = p] /\ session' = [session EXCEPT ![h] = s]
        /\ UNCHANGED <<client, unclean>>
    BY <1>9 DEF Negotiated, Agree, Goto
  <2>3. s.stage = "agreed" /\ s.run = session[h].run /\ p.phase = "init" /\ p.run = host[h].run
    BY <1>0, SessionTypeParts DEF SessionObject, Program
  <2> HIDE DEF p, s
  <2>4. Fits(p, s)
    BY <1>0, <2>2, <2>3 DEF Fits
  <2> QED BY <1>0, <2>1, <2>2, <2>4, HostMoves DEF AppTypeOK
<1>10. CASE NegotiationFails(h) \/ HostExits(h) \/ (StopStreaming(h) /\ host[h].code = NoCode)
  <2> DEFINE p == [host[h] EXCEPT !.phase = "off", !.code = NoCode]
  <2>1. p.phase = "off"
    BY <1>0 DEF Program
  <2>2. host[h].phase # "off"
    BY <1>0, <1>10 DEF NegotiationFails, HostGivesUp, Listening, HostExits, StopStreaming, At, Fits
  <2>3. session' = [session EXCEPT ![h] = NoSession] /\ UNCHANGED client /\ unclean' \subseteq Run
    BY <1>0, <1>1, <1>10, <2>2
    DEF NegotiationFails, HostGivesUp, HostExits, StopStreaming, ForgetSession, Fails, AppTypeOK
  <2>4. host' = [host EXCEPT ![h] = p]
    <3>1. CASE NegotiationFails(h) \/ HostExits(h)
      BY <1>4, <3>1 DEF NegotiationFails, HostExits
    <3>2. CASE StopStreaming(h) /\ host[h].code = NoCode
      <4>1. host' = [host EXCEPT ![h] = [host[h] EXCEPT !.phase = "off"]]
        BY <3>2 DEF StopStreaming, Goto
      <4>2. [host[h] EXCEPT !.phase = "off"] = p
        BY <1>0, <3>2 DEF Program
      <4> QED BY <4>1, <4>2
    <3> QED BY <1>10, <3>1, <3>2
  <2>5. Fits(p, NoSession)
    BY <2>1 DEF Fits, NoSession
  <2> HIDE DEF p
  <2> QED BY <1>0, <1>3, <2>3, <2>4, <2>5, HostMoves DEF p
<1>11. CASE StopStreaming(h) /\ host[h].code # NoCode
  <2> DEFINE p == [host[h] EXCEPT !.phase = "delete"]
  <2>1. p \in Program
    BY <1>2 DEF Programs
  <2>2. p.phase = "delete" /\ p.run > 0
    BY <1>0, <1>11 DEF StopStreaming, At, Fits, Program
  <2>3. host' = [host EXCEPT ![h] = p] /\ session' = [session EXCEPT ![h] = NoSession] /\ UNCHANGED <<client, unclean>>
    BY <1>11 DEF StopStreaming, Goto, ForgetSession
  <2> HIDE DEF p
  <2>4. Fits(p, NoSession)
    BY <2>2 DEF Fits, NoSession
  <2> QED BY <1>0, <2>1, <2>3, <2>4, HostMoves DEF AppTypeOK
<1>12. CASE DeleteRoom(h)
  <2> DEFINE p == [host[h] EXCEPT !.phase = "off", !.code = NoCode]
  <2>1. p.phase = "off"
    BY <1>0 DEF Program
  <2>2. session[h].stage = "none"
    BY <1>0, <1>12 DEF DeleteRoom, At, Fits
  <2>3. UNCHANGED <<session, client>> /\ unclean' \subseteq Run
    BY <1>0, <1>1, <1>12 DEF DeleteRoom, At, Fails, AppTypeOK, sessionVars
  <2>4. host' = [host EXCEPT ![h] = p]
    BY <1>4, <1>12 DEF DeleteRoom
  <2>5. Fits(p, session[h])
    BY <2>1, <2>2 DEF Fits
  <2> HIDE DEF p
  <2> QED BY <1>0, <1>3, <2>3, <2>4, <2>5, HostMoves, SameSession DEF p
<1> QED
  BY <1>5, <1>6, <1>7, <1>8, <1>9, <1>10, <1>11, <1>12 DEF HostTurn, NegotiateTurn

LEMMA StartPhased ==
  ASSUME TypeOK, Phased, NEW h \in Hosts, NEW run \in 1..MaxRuns, StartWithRoom(h, run) \/ StartWithoutRoom(h, run)
  PROVE  AppTypeOK' /\ Phased'
<1>0. AppTypeOK /\ SessionTypeOK /\ Fits(host[h], session[h])
  BY TypeParts DEF Phased
<1>1. PICK phase \in {"register", "listen"} : Starts(h, run, phase)
  BY DEF StartWithRoom, StartWithoutRoom
<1> DEFINE p == [phase |-> phase, run |-> run, code |-> NoCode]
<1>2. p \in Program
  BY RunsAssumption DEF Program, Programs
<1>3. Fits(p, session[h])
  BY <1>0, <1>1 DEF Starts, At, Fits
<1>4. host' = [host EXCEPT ![h] = p] /\ UNCHANGED <<session, client, unclean>>
  BY <1>1 DEF Starts, sessionVars
<1> HIDE DEF p
<1> QED BY <1>0, <1>2, <1>3, <1>4, HostMoves, SameSession DEF AppTypeOK

LEMMA ClientPhased ==
  ASSUME TypeOK, Phased, NEW c \in Clients,
         \/ \E k \in Codes : JoinRoom(c, k)
         \/ \E h \in Hosts : JoinAddress(c, h) \/ Stranger(c, h)
         \/ ConnectTurn(c) \/ InitSession(c) \/ Disconnect(c)
  PROVE  AppTypeOK' /\ Phased'
<1>0. AppTypeOK /\ SessionTypeOK /\ ServerTypeOK /\ client[c] \in Screen /\ Aims(client[c])
  BY TypeParts DEF AppTypeOK, Phased
<1>1. ASSUME NEW h \in Hosts, Goal(c, h)
      PROVE  AppTypeOK' /\ Phased'
  <2> DEFINE p == [phase |-> "connect", attempt |-> client[c].attempt + 1, target |-> h]
  <2>1. p \in Screen /\ Aims(p)
    BY <1>0, <1>1, SessionAssumption DEF Goal, Screen, Aims
  <2>2. client' = [client EXCEPT ![c] = p] /\ UNCHANGED <<host, session, unclean>>
    BY <1>1 DEF Goal, sessionVars
  <2> HIDE DEF p
  <2> QED BY <1>0, <2>1, <2>2, ClientMoves
<1>2. ASSUME NEW k \in Codes, JoinRoom(c, k)
      PROVE  AppTypeOK' /\ Phased'
  <2>1. rooms[k].host \in Hosts
    BY <1>0, <1>2 DEF JoinRoom, ServerTypeOK, Run
  <2> QED BY <1>1, <1>2, <2>1 DEF JoinRoom
<1>3. ASSUME NEW h \in Hosts, Stranger(c, h)
      PROVE  AppTypeOK' /\ Phased'
  <2> DEFINE p == [client[c] EXCEPT !.attempt = client[c].attempt + 1]
  <2>1. p \in Screen /\ p.phase = "idle"
    BY <1>0, <1>3, SessionAssumption DEF Stranger, Screen
  <2>2. client' = [client EXCEPT ![c] = p] /\ UNCHANGED <<host, session, unclean>>
    BY <1>3 DEF Stranger, OtherConnects, Enqueue
  <2> HIDE DEF p
  <2> QED BY <1>0, <2>1, <2>2, ClientMoves DEF Aims
<1>4. CASE ClientConnects(c)
  <2> DEFINE p == [client[c] EXCEPT !.phase = "hello", !.target = "none"]
  <2>1. p \in Screen /\ p.phase = "hello" /\ p.attempt = client[c].attempt
    BY <1>0 DEF Screen
  <2>2. client[c].attempt > 0
    BY <1>0, <1>4 DEF ClientConnects, Aims
  <2>3. client' = [client EXCEPT ![c] = p] /\ UNCHANGED <<host, session, unclean>>
    BY <1>4 DEF ClientConnects, Connect, Enqueue
  <2> HIDE DEF p
  <2> QED BY <1>0, <2>1, <2>2, <2>3, ClientMoves DEF Aims
<1>5. CASE ClientConfirms(c)
  <2> DEFINE p == [client[c] EXCEPT !.phase = "init"]
  <2>1. p \in Screen /\ p.phase = "init"
    BY <1>0 DEF Screen
  <2>2. client' = [client EXCEPT ![c] = p] /\ UNCHANGED <<host, session, unclean>>
    BY <1>5 DEF ClientConfirms, Confirm
  <2> HIDE DEF p
  <2> QED BY <1>0, <2>1, <2>2, ClientMoves DEF Aims
<1>6. CASE FallBack(c)
  <2> DEFINE p == [client[c] EXCEPT !.phase = "init", !.target = "none"]
  <2>1. p \in Screen /\ p.phase = "init"
    BY <1>0 DEF Screen
  <2>2. client' = [client EXCEPT ![c] = p] /\ UNCHANGED <<host, session, unclean>>
    BY <1>6 DEF FallBack, ClientGivesUp
  <2> HIDE DEF p
  <2> QED BY <1>0, <2>1, <2>2, ClientMoves DEF Aims
<1>7. CASE InitSession(c) \/ Disconnect(c)
  <2>1. PICK phase \in {"idle", "streaming", "window", "gone"} : client' = [client EXCEPT ![c].phase = phase]
    BY <1>7 DEF InitSession, Disconnect
  <2> DEFINE p == [client[c] EXCEPT !.phase = phase]
  <2>2. p \in Screen /\ p.phase \notin {"connect", "hello"}
    BY <1>0 DEF Screen
  <2>3. client' = [client EXCEPT ![c] = p] /\ UNCHANGED <<host, session, unclean>>
    BY <1>7, <2>1 DEF InitSession, Disconnect, sessionVars
  <2> HIDE DEF p
  <2> QED BY <1>0, <2>2, <2>3, ClientMoves DEF Aims
<1> QED BY <1>1, <1>2, <1>3, <1>4, <1>5, <1>6, <1>7 DEF JoinAddress, ConnectTurn

LEMMA StepTyped == TypeOK /\ Phased /\ [Next]_vars => TypeOK' /\ Phased'
<1> SUFFICES ASSUME TypeOK, Phased, [Next]_vars PROVE TypeOK' /\ Phased'
  OBVIOUS
<1>1. ServerTypeOK /\ SessionTypeOK /\ AppTypeOK
  BY TypeParts
<1>2. ServerTypeOK'
  BY <1>1, ServerCalls, ServerTyped
<1>3. SessionTypeOK'
  BY <1>1, SessionCalls, SessionTyped
<1>4. AppTypeOK' /\ Phased'
  <2>1. CASE HandleRequests \/ UNCHANGED vars
    BY <1>1, <2>1 DEF HandleRequests, vars, sessionVars, appVars, AppTypeOK, Phased, Fits, Aims
  <2> QED BY <2>1, HostPhased, StartPhased, ClientPhased DEF Next
<1> QED BY <1>2, <1>3, <1>4 DEF TypeOK, AppTypeOK, Program, Screen

LEMMA InitTyped == Init => TypeOK /\ Phased
<1> SUFFICES ASSUME Init PROVE TypeOK /\ Phased
  OBVIOUS
<1>1. ServerTypeOK
  <2>1. NoPost \in [stage: {"none", "draw", "put", "reply"}, tries: 0..MaxTries,
                    code: Codes \union {NoCode}, run: 0..MaxRuns]
    BY ServerAssumption, RunsAssumption DEF NoPost
  <2>2. NoPost.stage = "none"
    BY DEF NoPost
  <2> QED BY <2>1, <2>2 DEF Init, ServerInit, ServerTypeOK
<1>2. SessionTypeOK
  <2>1. NoSession \in SessionObject /\ ObjectFits(NoSession)
    BY KeysTyped, RunsAssumption DEF NoSession, SessionObject, ObjectFits
  <2>2. << >> \in Seq(Attempt) /\ << >> \in Seq(Message) /\ Len(<< >>) <= Backlog
    BY EmptySeq, SessionAssumption
  <2>3. [state |-> "unused", up |-> << >>, down |-> << >>, key |-> NoKey] \in Conn
    BY <2>2, KeysTyped DEF Conn
  <2> QED BY <2>1, <2>2, <2>3, SessionTypeParts DEF Init, SessionInit
<1>3. AppTypeOK
  BY RunsAssumption, SessionAssumption DEF Init, AppTypeOK, Program, Programs, Screen
<1>4. Phased
  BY DEF Init, SessionInit, NoSession, Phased, Fits, Aims
<1> QED BY <1>1, <1>2, <1>3, <1>4, TypeParts

(* Every variable of the setup keeps its type, for any number of hosts,     *)
(* clients, room codes, runs and attempts.                                  *)
THEOREM SetupTypeCorrect == Spec => []TypeOK
<1>1. Spec => [](TypeOK /\ Phased)
  BY InitTyped, StepTyped, PTL DEF Spec
<1> QED BY <1>1, PTL

------------------------------------------------------------------------------
(* Keys. *)

HostKeys == HostKey \union {NoHostKey}

(* What can happen to the connection of an attempt i: nothing but the host  *)
(* reading from it, a HOST_HELLO, the connect, the proof, or the end.       *)
SameEnd(i) == conns'[i].state = conns[i].state /\ conns'[i].key = conns[i].key
Reads(i) == conns'[i].up = conns[i].up \/ (conns[i].up # << >> /\ conns'[i].up = Tail(conns[i].up))

Untouched(i) == SameEnd(i) /\ Reads(i) /\ conns'[i].down = conns[i].down
Answered(i, h) ==
  /\ SameEnd(i) /\ Reads(i)
  /\ session[h].stage = "hello" /\ session'[h].stage = "proof" /\ i = session[h].conn
  /\ session'[h].run = session[h].run
  /\ conns'[i].down = Append(conns[i].down, HostHello(<<h, session[h].run>>))
Opened(i) ==
  /\ conns[i].state = "unused" /\ conns'[i].state \in {"waiting", "failed"}
  /\ conns'[i].up \in {<< >>, <<ClientHello(i)>>} /\ conns'[i].down = conns[i].down /\ conns'[i].key = conns[i].key
Confirmed(i) == LET key == Key(i, Head(conns[i].down).key.host)
                IN /\ conns[i].state = "waiting" /\ conns'[i].state = "done" /\ conns'[i].key = key
                   /\ conns[i].down # << >> /\ conns'[i].down = Tail(conns[i].down)
                   /\ conns'[i].up = Append(conns[i].up, SessionReady(key))
GivenUp(i) ==
  /\ conns[i].state \in {"unused", "waiting"} /\ conns'[i].state = "failed"
  /\ conns'[i].up = conns[i].up /\ conns'[i].down = << >> /\ conns'[i].key = conns[i].key

LEMMA ConnSteps ==
  ASSUME TypeOK, SessionCall, NEW i \in Attempt
  PROVE  Untouched(i) \/ (\E h \in Hosts : Answered(i, h)) \/ Opened(i) \/ Confirmed(i) \/ GivenUp(i)
<1>0. /\ session \in [Hosts -> SessionObject] /\ \A h \in Hosts : ObjectFits(session[h])
      /\ conns \in [Attempt -> Conn]
  BY TypeParts, SessionTypeParts
<1> USE DEF SameEnd, Reads
<1>1. ASSUME conns' = conns PROVE Untouched(i)
  BY <1>1 DEF Untouched
<1>2. ASSUME NEW h \in Hosts, AnswerHello(h)
      PROVE  Untouched(i) \/ Answered(i, h)
  <2> DEFINE j == session[h].conn
  <2>1. /\ j \in Attempt /\ conns[j].up # << >> /\ session[h].stage = "hello"
        /\ conns' = [conns EXCEPT ![j] = [state |-> conns[j].state, key |-> conns[j].key, up |-> Tail(conns[j].up),
                                          down |-> Append(conns[j].down, HostHello(<<h, session[h].run>>))]]
    BY <1>0, <1>2 DEF AnswerHello, Received, ObjectFits
  <2>2. session'[h].stage = "proof" /\ session'[h].run = session[h].run
    BY <1>0, <1>2 DEF AnswerHello, SessionObject
  <2> QED BY <1>0, <2>1, <2>2 DEF Untouched, Answered
<1>3. ASSUME NEW h \in Hosts, Agree(h)
      PROVE  Untouched(i)
  <2>1. session[h].conn \in Attempt /\ conns[session[h].conn].up # << >>
    BY <1>0, <1>3 DEF Agree, Received, ObjectFits
  <2> QED BY <1>0, <1>3, <2>1 DEF Agree, Untouched, Conn
<1>4. ASSUME NEW j \in Attempt, NEW h \in Hosts, Connect(j, h) \/ OtherConnects(j, h)
      PROVE  Untouched(i) \/ Opened(i)
  <2>1. PICK messages \in {<< >>, <<ClientHello(j)>>}, state \in {"waiting", "failed"} : Enqueue(j, h, messages, state)
    BY <1>4 DEF Connect, OtherConnects
  <2>2. conns[j].state = "unused" /\ conns' = [conns EXCEPT ![j] = [conns[j] EXCEPT !.state = state, !.up = messages]]
    BY <2>1 DEF Enqueue
  <2> QED BY <1>0, <2>2 DEF Untouched, Opened, Conn
<1>5. ASSUME NEW j \in Attempt, Confirm(j)
      PROVE  Untouched(i) \/ Confirmed(i)
  BY <1>0, <1>5 DEF Confirm, Untouched, Confirmed
<1>6. ASSUME NEW j \in Attempt, ClientGivesUp(j)
      PROVE  Untouched(i) \/ GivenUp(i)
  BY <1>0, <1>6 DEF ClientGivesUp, Untouched, GivenUp, Conn
<1> QED
  BY <1>1, <1>2, <1>3, <1>4, <1>5, <1>6
  DEF SessionCall, sessionVars, HostListen, Accept, HostGivesUp, ForgetSession

(* A SESSION_READY on its way is the proof of a client that is done.        *)
Proved ==
  \A i \in Attempt : \A n \in 1..Len(conns[i].up) :
    conns[i].up[n].type = "SESSION_READY" => conns[i].state = "done" /\ conns[i].up[n].key = conns[i].key

LEMMA DoneIsFinal ==
  ASSUME TypeOK, SessionCall, NEW i \in Attempt, conns[i].state = "done"
  PROVE  conns'[i].state = "done" /\ conns'[i].key = conns[i].key
  BY ConnSteps DEF Untouched, Answered, Opened, Confirmed, GivenUp, SameEnd

LEMMA StepProved == TypeOK /\ Proved /\ SessionCall => Proved'
<1> SUFFICES ASSUME TypeOK, Proved, SessionCall,
                    NEW i \in Attempt, NEW n \in 1..Len(conns'[i].up), conns'[i].up[n].type = "SESSION_READY"
             PROVE  conns'[i].state = "done" /\ conns'[i].up[n].key = conns'[i].key
  BY DEF Proved
<1>0. conns[i] \in Conn
  BY TypeParts, SessionTypeParts
<1>1. ASSUME SameEnd(i), Reads(i)
      PROVE  conns'[i].state = "done" /\ conns'[i].up[n].key = conns'[i].key
  <2>1. CASE conns'[i].up = conns[i].up
    BY <1>1, <2>1 DEF SameEnd, Proved
  <2>2. CASE conns[i].up # << >> /\ conns'[i].up = Tail(conns[i].up)
    <3>1. conns'[i].up[n] = conns[i].up[n + 1] /\ n + 1 \in 1..Len(conns[i].up)
      BY <1>0, <2>2, HeadTailProperties, LenProperties DEF Conn
    <3> QED BY <1>1, <3>1 DEF SameEnd, Proved
  <2> QED BY <1>1, <2>1, <2>2 DEF Reads
<1>2. CASE Opened(i)
  BY <1>2 DEF Opened, ClientHello
<1>3. CASE Confirmed(i)
  <2> DEFINE key == Key(i, Head(conns[i].down).key.host)
  <2>1. /\ conns'[i].state = "done" /\ conns'[i].key = key /\ conns[i].state = "waiting"
        /\ conns'[i].up = Append(conns[i].up, SessionReady(key))
    BY <1>3 DEF Confirmed
  <2>2. Head(conns[i].down) \in Message
    BY <1>0, <1>3, HeadTailProperties DEF Confirmed, Conn
  <2>3. SessionReady(key) \in Message
    BY <2>2, MessagesTyped DEF Key, Keys, Message
  <2> HIDE DEF key
  <2>4. CASE n = Len(conns[i].up) + 1
    <3>1. conns'[i].up[n] = SessionReady(key)
      BY <1>0, <2>1, <2>3, <2>4, AppendProperties DEF Conn
    <3> QED BY <2>1, <3>1 DEF SessionReady
  <2>5. CASE n # Len(conns[i].up) + 1
    <3>1. n \in 1..Len(conns[i].up) /\ conns'[i].up[n] = conns[i].up[n]
      BY <1>0, <2>1, <2>3, <2>5, AppendProperties, LenProperties DEF Conn
    <3> QED BY <2>1, <3>1 DEF Proved
  <2> QED BY <2>4, <2>5
<1>4. CASE GivenUp(i)
  BY <1>4 DEF GivenUp, Proved
<1> QED BY <1>1, <1>2, <1>3, <1>4, ConnSteps DEF Untouched, Answered

LEMMA StepAgreed == TypeOK /\ Proved /\ SessionAgreed /\ SessionCall => SessionAgreed'
<1> SUFFICES ASSUME TypeOK, Proved, SessionAgreed, SessionCall, NEW h \in Hosts, session'[h].stage = "agreed"
             PROVE  LET conn == conns'[session'[h].conn]
                    IN  conn.state = "done" /\ conn.key = session'[h].key
  BY DEF SessionAgreed
<1>0. /\ session \in [Hosts -> SessionObject] /\ \A g \in Hosts : ObjectFits(session[g])
      /\ conns \in [Attempt -> Conn]
  BY TypeParts, SessionTypeParts
<1>1. CASE session'[h] = session[h]
  <2>1. session[h].conn \in Attempt /\ session[h].stage = "agreed"
    BY <1>0, <1>1 DEF ObjectFits
  <2> QED BY <1>1, <2>1, DoneIsFinal DEF SessionAgreed
<1>2. CASE Agree(h)
  <2> DEFINE i == session[h].conn
  <2>1. i \in Attempt /\ conns[i].up # << >> /\ Head(conns[i].up).type = "SESSION_READY"
        /\ Head(conns[i].up).key = session[h].key
    BY <1>0, <1>2 DEF Agree, Received, ObjectFits
  <2>2. Head(conns[i].up) = conns[i].up[1] /\ 1 \in 1..Len(conns[i].up)
    BY <1>0, <2>1, HeadTailProperties, EmptySeq, LenProperties DEF Conn
  <2>3. conns[i].state = "done" /\ conns[i].key = session[h].key
    BY <2>1, <2>2 DEF Proved
  <2>4. session'[h].conn = i /\ session'[h].key = session[h].key
    BY <1>0, <1>2 DEF Agree, SessionObject
  <2> QED BY <2>1, <2>3, <2>4, DoneIsFinal
<1>3. session'[h] = session[h] \/ Agree(h)
  <2>1. ASSUME NEW g \in Hosts, Accept(g) \/ AnswerHello(g) \/ HostGivesUp(g) \/ ForgetSession(g) \/ HostListen(g, host[g].run)
        PROVE  session'[h] = session[h]
    <3>1. session[g] \in SessionObject
      BY <1>0
    <3>2. session'[g].stage # "agreed"
      <4>1. CASE Accept(g)
        BY <1>0, <3>1, <4>1 DEF Accept, SessionObject
      <4>2. CASE AnswerHello(g)
        BY <1>0, <3>1, <4>2 DEF AnswerHello, SessionObject
      <4>3. CASE HostGivesUp(g) \/ ForgetSession(g) \/ HostListen(g, host[g].run)
        BY <1>0, <4>3 DEF HostGivesUp, ForgetSession, HostListen, NoSession
      <4> QED BY <2>1, <4>1, <4>2, <4>3
    <3>3. \E s : session' = [session EXCEPT ![g] = s]
      BY <2>1 DEF Accept, AnswerHello, HostGivesUp, ForgetSession, HostListen
    <3> QED BY <1>0, <3>2, <3>3
  <2>2. ASSUME NEW g \in Hosts, Agree(g)
        PROVE  session'[h] = session[h] \/ Agree(h)
    BY <1>0, <2>2 DEF Agree, SessionObject
  <2> QED
    BY <2>1, <2>2
    DEF SessionCall, sessionVars, Connect, OtherConnects, Enqueue, Confirm, ClientGivesUp
<1> QED BY <1>1, <1>2, <1>3

LEMMA InitProved == Init => Proved /\ SessionAgreed
  BY EmptySeq DEF Init, SessionInit, NoSession, Proved, SessionAgreed

(* When AcceptClient succeeds, the client whose attempt it accepted has     *)
(* succeeded too, with the same key, whatever was lost or timed out.        *)
THEOREM BothAgree == Spec => []SessionAgreed
<1> DEFINE Inv == TypeOK /\ Phased /\ Proved /\ SessionAgreed
<1>1. Init => Inv
  BY InitTyped, InitProved
<1>2. Inv /\ [Next]_vars => Inv'
  <2> SUFFICES ASSUME Inv, [Next]_vars PROVE Inv'
    OBVIOUS
  <2>1. SessionCall
    BY SessionCalls, TypeParts
  <2> QED BY <2>1, StepTyped, StepProved, StepAgreed
<1>3. Spec => []Inv
  BY <1>1, <1>2, PTL DEF Spec
<1> QED BY <1>3, PTL

(* The trace of a host key k: on its way to the client of attempt i, or in  *)
(* the session key that client has derived.                                 *)
OnItsWay(i, k) == \E n \in 1..Len(conns[i].down) : conns[i].down[n].key.host = k
Trace(i, k) == (conns[i].state = "done" /\ conns[i].key.host = k) \/ OnItsWay(i, k)

(* The key of h's present run may have been sent. *)
Sent(h) == host[h].phase \notin {"register", "listen"} /\ session[h].stage \notin {"accept", "hello"}

Issued ==
  \A i \in Attempt, k \in HostKeys : Trace(i, k) =>
    /\ k \in HostKey
    /\ k[2] <= host[k[1]].run
    /\ k[2] = host[k[1]].run => Sent(k[1])

SentOnce == \A i, j \in Attempt, k \in HostKeys : Trace(i, k) /\ Trace(j, k) => i = j

LEMMA TraceSteps ==
  ASSUME TypeOK, SessionCall, NEW i \in Attempt, NEW k \in HostKeys, Trace(i, k)'
  PROVE  Trace(i, k) \/ \E h \in Hosts : Answered(i, h) /\ k = <<h, session[h].run>>
<1>0. conns[i] \in Conn
  BY TypeParts, SessionTypeParts
<1>1. CASE Untouched(i) \/ Opened(i) \/ GivenUp(i)
  BY <1>1 DEF Untouched, SameEnd, Opened, GivenUp, Trace, OnItsWay
<1>2. ASSUME NEW h \in Hosts, Answered(i, h)
      PROVE  Trace(i, k) \/ k = <<h, session[h].run>>
  <2> DEFINE hostKey == <<h, session[h].run>>
  <2>1. session[h].run \in 1..MaxRuns
    <3>1. session[h] \in SessionObject /\ ObjectFits(session[h])
      BY TypeParts, SessionTypeParts
    <3>2. session[h].stage = "hello"
      BY <1>2 DEF Answered
    <3> QED BY <3>1, <3>2, RunsAssumption DEF SessionObject, ObjectFits
  <2>2. HostHello(hostKey) \in Message /\ HostHello(hostKey).key.host = hostKey
    BY <2>1, MessagesTyped DEF HostKey, HostHello, Key
  <2>3. ASSUME NEW n \in 1..Len(conns'[i].down), conns'[i].down[n].key.host = k
        PROVE  OnItsWay(i, k) \/ k = hostKey
    <3> HIDE DEF hostKey
    <3>1. conns'[i].down = Append(conns[i].down, HostHello(hostKey))
      BY <1>2 DEF Answered, hostKey
    <3>2. CASE n = Len(conns[i].down) + 1
      BY <1>0, <2>2, <2>3, <3>1, <3>2, AppendProperties DEF Conn
    <3>3. CASE n # Len(conns[i].down) + 1
      <4>1. n \in 1..Len(conns[i].down) /\ conns'[i].down[n] = conns[i].down[n]
        BY <1>0, <2>2, <3>1, <3>3, AppendProperties, LenProperties DEF Conn
      <4> QED BY <2>3, <4>1 DEF OnItsWay
    <3> QED BY <3>2, <3>3
  <2> QED BY <1>2, <2>3 DEF Answered, SameEnd, Trace, OnItsWay
<1>3. CASE Confirmed(i)
  <2>1. conns[i].down # << >> /\ conns'[i].down = Tail(conns[i].down)
        /\ conns'[i].key.host = Head(conns[i].down).key.host
    BY <1>3 DEF Confirmed, Key
  <2>2. Head(conns[i].down) = conns[i].down[1] /\ 1 \in 1..Len(conns[i].down)
    BY <1>0, <2>1, HeadTailProperties, EmptySeq, LenProperties DEF Conn
  <2>3. ASSUME NEW n \in 1..Len(conns'[i].down), conns'[i].down[n].key.host = k
        PROVE  OnItsWay(i, k)
    <3>1. conns'[i].down[n] = conns[i].down[n + 1] /\ n + 1 \in 1..Len(conns[i].down)
      BY <1>0, <2>1, HeadTailProperties, LenProperties DEF Conn
    <3> QED BY <2>3, <3>1 DEF OnItsWay
  <2> QED BY <2>1, <2>2, <2>3 DEF Trace, OnItsWay
<1> QED BY <1>1, <1>2, <1>3, ConnSteps

(* A run's key that has been sent stays sent until the next run begins.     *)
LEMMA RunsGrow ==
  ASSUME TypeOK, Phased, [Next]_vars, NEW h \in Hosts
  PROVE  /\ host'[h].run >= host[h].run
         /\ host'[h].run = host[h].run /\ Sent(h) => Sent(h)'
<1>0. /\ host \in [Hosts -> Program] /\ session \in [Hosts -> SessionObject]
      /\ \A g \in Hosts : Fits(host[g], session[g])
  BY TypeParts, SessionTypeParts DEF AppTypeOK, Phased
<1>1. ASSUME UNCHANGED <<host, session>>
      PROVE  /\ host'[h].run >= host[h].run
             /\ host'[h].run = host[h].run /\ Sent(h) => Sent(h)'
  BY <1>0, <1>1 DEF Sent, Program
<1>2. ASSUME NEW g \in Hosts, HostTurn(g)
      PROVE  /\ host'[h].run >= host[h].run
             /\ host'[h].run = host[h].run /\ Sent(h) => Sent(h)'
  <2>1. host'[h].run = host[h].run
    BY <1>0, <1>2
    DEF HostTurn, RoomCreated, RoomMissed, Listen, NegotiateTurn, NegotiationFails, Negotiate, Negotiated, Stream,
        HostExits, StopStreaming, DeleteRoom, Goto, Ends, appVars, Program
  <2>2. Sent(h) => Sent(h)'
    <3>1. CASE RoomCreated(g) \/ RoomMissed(g) \/ Stream(g) \/ DeleteRoom(g)
      BY <1>0, <3>1 DEF RoomCreated, RoomMissed, Stream, DeleteRoom, Goto, Ends, At, sessionVars, Sent, Program
    <3>2. CASE Listen(g)
      BY <1>0, <3>2 DEF Listen, Goto, At, HostListen, Sent, Program, SessionObject
    <3>3. CASE Negotiate(g)
      <4>1. host' = host /\ \E s : session' = [session EXCEPT ![g] = s]
        BY <3>3 DEF Negotiate, appVars, Accept, AnswerHello
      <4>2. session[g].stage \in {"accept", "hello"}
        BY <3>3 DEF Negotiate, Accept, AnswerHello
      <4> QED BY <1>0, <4>1, <4>2 DEF Sent
    <3>4. CASE Negotiated(g)
      <4>1. host' = [host EXCEPT ![g].phase = "init"] /\ session' = [session EXCEPT ![g].stage = "agreed"]
        BY <3>4 DEF Negotiated, Goto, Agree
      <4>2. g # h => host'[h] = host[h] /\ session'[h] = session[h]
        BY <1>0, <4>1
      <4>3. g = h => host'[h].phase = "init" /\ session'[h].stage = "agreed"
        BY <1>0, <4>1 DEF Program, SessionObject
      <4> QED BY <4>2, <4>3 DEF Sent
    <3>5. CASE NegotiationFails(g) \/ HostExits(g) \/ StopStreaming(g)
      <4>1. session' = [session EXCEPT ![g] = NoSession]
        BY <3>5 DEF NegotiationFails, HostGivesUp, HostExits, StopStreaming, ForgetSession
      <4>2. \E p : host' = [host EXCEPT ![g] = p] /\ p.phase \in {"off", "delete"}
        <5> DEFINE ended == [host[g] EXCEPT !.phase = "off", !.code = NoCode]
                   stopped == [host[g] EXCEPT !.phase = IF host[g].code = NoCode THEN "off" ELSE "delete"]
        <5>1. host' = [host EXCEPT ![g] = ended] \/ host' = [host EXCEPT ![g] = stopped]
          BY <3>5 DEF NegotiationFails, HostExits, StopStreaming, Ends, Goto
        <5>2. ended.phase = "off" /\ stopped.phase \in {"off", "delete"}
          BY <1>0 DEF Program
        <5> HIDE DEF ended, stopped
        <5> QED BY <5>1, <5>2
      <4> QED BY <1>0, <4>1, <4>2 DEF Sent, NoSession
    <3> QED BY <1>2, <3>1, <3>2, <3>3, <3>4, <3>5 DEF HostTurn, NegotiateTurn
  <2> QED BY <1>0, <2>1, <2>2 DEF Program
<1>3. ASSUME NEW g \in Hosts, NEW run \in 1..MaxRuns, NEW phase, Starts(g, run, phase)
      PROVE  /\ host'[h].run >= host[h].run
             /\ host'[h].run = host[h].run /\ Sent(h) => Sent(h)'
  BY <1>0, <1>3, RunsAssumption DEF Starts, sessionVars, Sent, Program
<1>4. CASE \E g \in Hosts, run \in 1..MaxRuns : StartWithRoom(g, run) \/ StartWithoutRoom(g, run)
  BY <1>3, <1>4 DEF StartWithRoom, StartWithoutRoom
<1>5. CASE HandleRequests \/ UNCHANGED vars
  BY <1>1, <1>5 DEF HandleRequests, vars, sessionVars, appVars
<1>6. ASSUME NEW c \in Clients,
             \/ \E k \in Codes : JoinRoom(c, k)
             \/ \E g \in Hosts : JoinAddress(c, g) \/ Stranger(c, g)
             \/ ConnectTurn(c) \/ InitSession(c) \/ Disconnect(c)
      PROVE  UNCHANGED <<host, session>>
  BY <1>6
  DEF JoinRoom, JoinAddress, Goal, Stranger, OtherConnects, ConnectTurn, FallBack, ClientGivesUp, ClientConnects,
      Connect, Enqueue, ClientConfirms, Confirm, InitSession, Disconnect, sessionVars
<1> QED BY <1>1, <1>2, <1>4, <1>5, <1>6 DEF Next

LEMMA StepIssued == TypeOK /\ Phased /\ Issued /\ SentOnce /\ [Next]_vars => Issued' /\ SentOnce'
<1> SUFFICES ASSUME TypeOK, Phased, Issued, SentOnce, [Next]_vars PROVE Issued' /\ SentOnce'
  OBVIOUS
<1>0. SessionCall /\ TypeOK' /\ Phased'
  BY SessionCalls, TypeParts, StepTyped
<1>1. /\ host \in [Hosts -> Program] /\ session \in [Hosts -> SessionObject]
      /\ \A h \in Hosts : Fits(host[h], session[h]) /\ ObjectFits(session[h])
  BY TypeParts, SessionTypeParts DEF AppTypeOK, Phased
<1>2. /\ host' \in [Hosts -> Program]
      /\ \A h \in Hosts : Fits(host'[h], session'[h])
  BY <1>0 DEF Phased, TypeOK, Program
<1>3. ASSUME NEW i \in Attempt, NEW h \in Hosts, Answered(i, h)
      PROVE  /\ <<h, session[h].run>> \in HostKey /\ session[h].run = host[h].run /\ ~ Sent(h)
             /\ host'[h].run = host[h].run /\ Sent(h)'
  <2>1. session[h].stage = "hello" /\ session'[h].stage = "proof"
    BY <1>3 DEF Answered
  <2>2. session[h].run \in 1..MaxRuns /\ session[h].run = host[h].run
    BY <1>1, <2>1, RunsAssumption DEF Fits, ObjectFits, SessionObject
  <2>3. Sent(h)' /\ session'[h].run = host'[h].run
    BY <1>2, <2>1 DEF Fits, Sent
  <2> QED BY <1>3, <2>1, <2>2, <2>3 DEF Answered, HostKey, Sent
<1>4. ASSUME NEW i \in Attempt, NEW k \in HostKeys, Trace(i, k)
      PROVE  k \in HostKey /\ k[2] <= host'[k[1]].run /\ (k[2] = host'[k[1]].run => Sent(k[1])')
  <2>1. k \in HostKey /\ k[2] <= host[k[1]].run /\ (k[2] = host[k[1]].run => Sent(k[1]))
    BY <1>4 DEF Issued
  <2>2. k[1] \in Hosts /\ k[2] \in Nat
    BY <2>1 DEF HostKey
  <2>3. host[k[1]].run \in Nat /\ host'[k[1]].run \in Nat
    BY <1>1, <1>2, <2>2 DEF Program
  <2>4. /\ host'[k[1]].run >= host[k[1]].run
        /\ host'[k[1]].run = host[k[1]].run /\ Sent(k[1]) => Sent(k[1])'
    BY <2>2, RunsGrow
  <2> QED BY <2>1, <2>2, <2>3, <2>4
<1>5. Issued'
  <2> SUFFICES ASSUME NEW i \in Attempt, NEW k \in HostKeys, Trace(i, k)'
               PROVE  k \in HostKey /\ k[2] <= host'[k[1]].run /\ (k[2] = host'[k[1]].run => Sent(k[1])')
    BY DEF Issued
  <2>1. CASE Trace(i, k)
    BY <1>4, <2>1
  <2>2. ASSUME NEW h \in Hosts, Answered(i, h), k = <<h, session[h].run>>
        PROVE  k \in HostKey /\ k[2] <= host'[k[1]].run /\ (k[2] = host'[k[1]].run => Sent(k[1])')
    <3>1. k \in HostKey /\ k[1] = h /\ k[2] = host'[h].run /\ Sent(h)'
      BY <1>3, <2>2
    <3>2. host'[h].run \in Nat
      BY <1>2 DEF Program
    <3> QED BY <3>1, <3>2
  <2> QED BY <1>0, <2>1, <2>2, TraceSteps
<1>6. ASSUME NEW i \in Attempt, NEW k \in HostKeys, NEW h \in Hosts, Answered(i, h), k = <<h, session[h].run>>
      PROVE  \A j \in Attempt : ~ Trace(j, k) /\ (Trace(j, k)' => j = i)
  <2>1. k \in HostKey /\ k[1] = h /\ k[2] = host[h].run /\ ~ Sent(h)
    BY <1>3, <1>6
  <2>2. \A j \in Attempt : ~ Trace(j, k)
    BY <2>1 DEF Issued
  <2>3. ASSUME NEW j \in Attempt, Trace(j, k)' PROVE j = i
    <3>1. PICK g \in Hosts : Answered(j, g) /\ k = <<g, session[g].run>>
      BY <1>0, <2>2, <2>3, TraceSteps
    <3>2. g = h
      BY <1>6, <3>1
    <3> QED BY <1>6, <3>1, <3>2 DEF Answered
  <2> QED BY <2>2, <2>3
<1>7. SentOnce'
  <2> SUFFICES ASSUME NEW i \in Attempt, NEW j \in Attempt, NEW k \in HostKeys, Trace(i, k)', Trace(j, k)'
               PROVE  i = j
    BY DEF SentOnce
  <2>1. CASE Trace(i, k) /\ Trace(j, k)
    BY <2>1 DEF SentOnce
  <2> QED BY <1>0, <1>6, <2>1, TraceSteps
<1> QED BY <1>5, <1>7

LEMMA InitIssued == Init => Issued /\ SentOnce
  BY EmptySeq DEF Init, SessionInit, Issued, SentOnce, Trace, OnItsWay

(* Never two clients are told that they have a session with one run of a    *)
(* host: a host answers one CLIENT_HELLO in its life.                       *)
THEOREM OneSessionPerRun == Spec => []ExclusiveSession
<1> DEFINE Inv == TypeOK /\ Phased /\ Issued /\ SentOnce
<1>1. Init => Inv
  BY InitTyped, InitIssued
<1>2. Inv /\ [Next]_vars => Inv'
  BY StepTyped, StepIssued
<1>3. Inv => ExclusiveSession
  <2> SUFFICES ASSUME Inv, NEW i \in Attempt, NEW j \in Attempt, conns[i].state = "done", conns[j].state = "done",
                      conns[i].key.host = conns[j].key.host
               PROVE  i = j
    BY DEF ExclusiveSession
  <2>1. conns[i].key.host \in HostKeys
    BY TypeParts, SessionTypeParts DEF Conn, Keys, HostKeys
  <2> QED BY <2>1 DEF SentOnce, Trace
<1>4. Spec => []Inv
  BY <1>1, <1>2, PTL DEF Spec
<1> QED BY <1>3, <1>4, PTL

------------------------------------------------------------------------------
(* Room codes: as long as no two requests overlap, a free code is found    *)
(* and no room expires, every code shown leads to its host, and every room *)
(* can be accounted for.                                                   *)
(* The code k is h's: shown, or in the answer to its POST that it awaits.   *)
Holds(h, k) ==
  \/ host[h].code = k
  \/ At(h, "register") /\ post[h].stage = "reply" /\ post[h].code = k

PostRun(h) == [host |-> h, run |-> post[h].run]

OneAtATime == \A g, h \in Hosts : InProgress(g) /\ InProgress(h) => g = h

FreeToStore == \A h \in Hosts : post[h].stage = "put" => rooms[post[h].code] = NoRoom

Awaited ==
  \A h \in Hosts :
    /\ At(h, "register") => post[h].stage # "none" /\ post[h].run = host[h].run /\ host[h].code = NoCode
    /\ InProgress(h) /\ ~ At(h, "register") => PostRun(h) \in unclean

Owned == \A h \in Hosts, k \in Codes : ~ At(h, "off") /\ Holds(h, k) => rooms[k] = RunOf(h)

Accounted ==
  \A k \in Codes : rooms[k] # NoRoom =>
    \/ rooms[k] \in unclean
    \/ \E h \in Hosts : rooms[k] = RunOf(h) /\ ~ At(h, "off") /\ Holds(h, k)

Kept == OneAtATime /\ FreeToStore /\ Awaited /\ Owned /\ Accounted
RoomsKept == ~ mishap => Kept

(* What the proofs need of the types.                                       *)
RoomTyped ==
  /\ host \in [Hosts -> Program]
  /\ \A h \in Hosts : host[h].phase # "off" => host[h].run > 0
  /\ rooms \in [Codes -> Run \union {NoRoom}]
  /\ DOMAIN post = Hosts
  /\ \A h \in Hosts : post[h].stage \in {"put", "reply"} => post[h].code \in Codes

LEMMA Typed == TypeOK /\ Phased => RoomTyped
  BY DEF TypeOK, ServerTypeOK, Phased, Fits, RoomTyped, Program

LEMMA RunsAreRooms == ASSUME RoomTyped, NEW h \in Hosts, ~ At(h, "off") PROVE RunOf(h) # NoRoom
<1>1. RunOf(h).run > 0 /\ NoRoom.run = 0
  BY DEF RoomTyped, RunOf, NoRoom, At
<1> QED BY <1>1

LEMMA OwnRuns == \A g, h \in Hosts : RunOf(g) = RunOf(h) => g = h
<1> SUFFICES ASSUME NEW g \in Hosts, NEW h \in Hosts, RunOf(g) = RunOf(h) PROVE g = h
  OBVIOUS
<1>1. RunOf(g).host = g /\ RunOf(h).host = h
  BY DEF RunOf
<1> QED BY <1>1

------------------------------------------------------------------------------
(* The server. *)

LEMMA ServerKeeps ==
  ASSUME RoomTyped, Kept, ~ mishap', HandleRequests
  PROVE  Kept'
<1>0. UNCHANGED <<host, unclean>>
  BY DEF HandleRequests, appVars
<1> USE DEF RoomTyped, Kept
<1>1. ASSUME NEW h \in Hosts, NEW k \in Codes, DrawCode(h, k)
      PROVE  Kept'
  <2>1. /\ post[h].stage = "draw" /\ rooms' = rooms
        /\ \A g \in Hosts \ {h} : post'[g] = post[g]
        /\ post'[h].stage \in {"draw", "put"} /\ post'[h].run = post[h].run
        /\ post'[h].stage = "put" => rooms[k] = NoRoom /\ post'[h].code = k
    <3> DEFINE stage == IF rooms[k] = NoRoom \/ post[h].tries + 1 = MaxTries THEN "put" ELSE "draw"
               p == [stage |-> stage, tries |-> post[h].tries + 1, code |-> k, run |-> post[h].run]
    <3>1. post' = [post EXCEPT ![h] = p] /\ post[h].stage = "draw" /\ rooms' = rooms
      BY <1>1 DEF DrawCode
    <3>2. p.stage = stage /\ p.code = k /\ p.run = post[h].run
      OBVIOUS
    <3>3. stage = "put" => rooms[k] = NoRoom
      BY <1>1 DEF DrawCode, Note
    <3>4. stage \in {"draw", "put"}
      OBVIOUS
    <3> HIDE DEF p, stage
    <3> QED BY <3>1, <3>2, <3>3, <3>4
  <2>2. \A g \in Hosts : InProgress(g)' = InProgress(g) /\ PostRun(g)' = PostRun(g)
                         /\ \A c \in Codes : Holds(g, c)' = Holds(g, c)
    BY <1>0, <2>1 DEF InProgress, PostRun, Holds, At
  <2>3. OneAtATime' /\ Awaited'
    BY <1>0, <2>1, <2>2 DEF OneAtATime, Awaited, At
  <2>4. FreeToStore'
    BY <2>1 DEF FreeToStore
  <2>5. Owned' /\ Accounted'
    BY <1>0, <2>1, <2>2 DEF Owned, Accounted, At, RunOf
  <2> QED BY <2>3, <2>4, <2>5
<1>2. ASSUME NEW h \in Hosts, StoreRoom(h)
      PROVE  Kept'
  <2> DEFINE k == post[h].code
  <2>1. /\ post[h].stage = "put" /\ InProgress(h) /\ k \in Codes /\ rooms[k] = NoRoom
        /\ rooms' = [rooms EXCEPT ![k] = PostRun(h)] /\ post' = [post EXCEPT ![h].stage = "reply"]
    BY <1>2 DEF StoreRoom, InProgress, FreeToStore, PostRun
  <2>2. /\ \A g \in Hosts \ {h} : post'[g] = post[g] /\ ~ InProgress(g)
        /\ post'[h].stage = "reply" /\ post'[h].code = k /\ post'[h].run = post[h].run
    <3>1. \A g \in Hosts \ {h} : post'[g] = post[g] /\ ~ InProgress(g)
      BY <2>1 DEF OneAtATime
    <3>2. post'[h] = [post[h] EXCEPT !.stage = "reply"]
      BY <2>1
    <3> QED BY <1>2, <3>1, <3>2 DEF StoreRoom
  <2>3. OneAtATime' /\ FreeToStore' /\ Awaited'
    BY <1>0, <2>2 DEF OneAtATime, FreeToStore, Awaited, InProgress, At, PostRun
  <2>4. At(h, "register") => PostRun(h) = RunOf(h)
    BY DEF Awaited, PostRun, RunOf
  <2>5. \A g \in Hosts, c \in Codes : ~ At(g, "off") /\ Holds(g, c) => c # k
    BY <2>1, RunsAreRooms DEF Owned
  <2>6. ASSUME NEW g \in Hosts, NEW c \in Codes, ~ At(g, "off")', Holds(g, c)'
        PROVE  rooms'[c] = RunOf(g)'
    <3>1. CASE ~ At(g, "off") /\ Holds(g, c)
      BY <1>0, <2>1, <2>5, <3>1 DEF Owned, RunOf
    <3>2. CASE g = h /\ At(h, "register") /\ c = k
      BY <1>0, <2>1, <2>4, <3>2 DEF RunOf
    <3> QED BY <1>0, <2>1, <2>2, <2>6, <3>1, <3>2 DEF Holds, At
  <2>7. ASSUME NEW c \in Codes, rooms'[c] # NoRoom
        PROVE  rooms'[c] \in unclean' \/ \E g \in Hosts : rooms'[c] = RunOf(g)' /\ ~ At(g, "off")' /\ Holds(g, c)'
    <3>1. CASE c = k
      BY <1>0, <2>1, <2>2, <2>4, <3>1 DEF Awaited, Holds, At, RunOf
    <3>2. CASE c # k
      <4>1. rooms'[c] = rooms[c]
        BY <2>1, <3>2
      <4>2. \A g \in Hosts : Holds(g, c) => Holds(g, c)'
        BY <1>0, <2>1, <2>2 DEF Holds, At
      <4> QED BY <1>0, <2>7, <4>1, <4>2 DEF Accounted, At, RunOf
    <3> QED BY <3>1, <3>2
  <2> QED BY <2>3, <2>6, <2>7 DEF Owned, Accounted
<1>3. ~ \E k \in Codes : ExpireRoom(k)
  BY DEF ExpireRoom, Note
<1> QED BY <1>1, <1>2, <1>3 DEF HandleRequests

------------------------------------------------------------------------------
(* The host program. *)

(* A step within one run of host h that is neither its first nor its last.  *)
LEMMA MoveKeeps ==
  ASSUME RoomTyped, Kept, UNCHANGED <<serverVars, unclean>>, NEW h \in Hosts, NEW phase,
         host' = [host EXCEPT ![h].phase = phase],
         {host[h].phase, phase} \intersect {"off", "register"} = {}
  PROVE  Kept'
<1> USE DEF RoomTyped, Kept, serverVars
<1>1. /\ \A g \in Hosts \ {h} : host'[g] = host[g]
      /\ host'[h].phase = phase /\ host'[h].run = host[h].run /\ host'[h].code = host[h].code
  BY DEF Program
<1>2. \A g \in Hosts : /\ RunOf(g)' = RunOf(g) /\ InProgress(g)' = InProgress(g) /\ PostRun(g)' = PostRun(g)
                       /\ At(g, "off")' = At(g, "off") /\ At(g, "register")' = At(g, "register")
                       /\ \A k \in Codes : Holds(g, k)' = Holds(g, k)
  BY <1>1 DEF RunOf, InProgress, PostRun, At, Holds
<1>3. OneAtATime' /\ FreeToStore' /\ Awaited'
  BY <1>1, <1>2 DEF OneAtATime, FreeToStore, Awaited, At
<1>4. Owned' /\ Accounted'
  BY <1>2 DEF Owned, Accounted
<1> QED BY <1>3, <1>4

LEMMA StartKeeps ==
  ASSUME RoomTyped, Kept, ~ mishap', NEW h \in Hosts, NEW run \in 1..MaxRuns,
         StartWithRoom(h, run) \/ StartWithoutRoom(h, run)
  PROVE  Kept'
<1> USE DEF RoomTyped, Kept
<1>0. PICK phase \in {"register", "listen"} :
        /\ Starts(h, run, phase)
        /\ phase = "register" => CreateRequest(h, run)
        /\ phase = "listen" => UNCHANGED serverVars
  BY DEF StartWithRoom, StartWithoutRoom
<1>1. /\ At(h, "off") /\ ~ InProgress(h) /\ UNCHANGED unclean
      /\ \A g \in Hosts \ {h} : host'[g] = host[g]
      /\ host'[h] = [phase |-> phase, run |-> run, code |-> NoCode]
  BY <1>0 DEF Starts
<1>2. rooms' = rooms
  BY <1>0 DEF CreateRequest, serverVars
<1>3. /\ \A g \in Hosts \ {h} : post'[g] = post[g]
      /\ \/ /\ phase = "register" /\ post'[h].stage = "draw" /\ post'[h].run = run
            /\ \A g \in Hosts \ {h} : ~ InProgress(g)
         \/ phase = "listen" /\ post'[h] = post[h]
  <2>1. CASE phase = "register"
    <3> DEFINE p == [stage |-> "draw", tries |-> 0, code |-> NoCode, run |-> run]
    <3>1. post' = [post EXCEPT ![h] = p] /\ p.stage = "draw" /\ p.run = run
      BY <1>0, <2>1 DEF CreateRequest
    <3>2. \A g \in Hosts \ {h} : ~ InProgress(g)
      BY <1>0, <2>1 DEF CreateRequest, Note
    <3> HIDE DEF p
    <3> QED BY <2>1, <3>1, <3>2
  <2>2. CASE phase = "listen"
    BY <1>0, <2>2 DEF serverVars
  <2> QED BY <2>1, <2>2
<1>4. OneAtATime'
  BY <1>1, <1>3 DEF OneAtATime, InProgress
<1>5. FreeToStore'
  BY <1>1, <1>2, <1>3 DEF FreeToStore, InProgress
<1>6. Awaited'
  <2>1. \A g \in Hosts \ {h} : InProgress(g)' = InProgress(g) /\ PostRun(g)' = PostRun(g)
                              /\ At(g, "register")' = At(g, "register")
    BY <1>1, <1>3 DEF InProgress, PostRun, At
  <2>2. At(h, "register")' => post'[h].stage = "draw" /\ post'[h].run = host'[h].run /\ host'[h].code = NoCode
    BY <1>0, <1>1, <1>3 DEF At
  <2>3. InProgress(h)' => At(h, "register")'
    BY <1>1, <1>3 DEF At, InProgress
  <2> QED BY <1>1, <1>3, <2>1, <2>2, <2>3 DEF Awaited
<1>7. \A g \in Hosts \ {h} : /\ RunOf(g)' = RunOf(g) /\ At(g, "off")' = At(g, "off")
                            /\ \A k \in Codes : Holds(g, k)' = Holds(g, k)
  BY <1>1, <1>3 DEF RunOf, At, Holds
<1>8. \A k \in Codes : ~ Holds(h, k)'
  <2>1. host'[h].code = NoCode /\ NoCode \notin Codes
    BY <1>1, ServerAssumption
  <2>2. At(h, "register")' => post'[h].stage = "draw"
    BY <1>0, <1>1, <1>3 DEF At
  <2> QED BY <2>1, <2>2 DEF Holds
<1>9. Owned' /\ Accounted'
  BY <1>1, <1>2, <1>7, <1>8 DEF Owned, Accounted
<1> QED BY <1>4, <1>5, <1>6, <1>9

LEMMA CreatedKeeps == ASSUME RoomTyped, Kept, NEW h \in Hosts, RoomCreated(h) PROVE Kept'
<1> USE DEF RoomTyped, Kept, serverVars
<1>1. /\ At(h, "register") /\ post[h].stage = "reply" /\ UNCHANGED <<rooms, post, unclean>>
      /\ \A g \in Hosts \ {h} : host'[g] = host[g]
      /\ host'[h].phase = "listen" /\ host'[h].run = host[h].run /\ host'[h].code = post[h].code
  <2> DEFINE p == [host[h] EXCEPT !.phase = "listen", !.code = post[h].code]
  <2>1. host' = [host EXCEPT ![h] = p]
    BY DEF RoomCreated
  <2>2. p.phase = "listen" /\ p.run = host[h].run /\ p.code = post[h].code
    BY DEF Program
  <2> HIDE DEF p
  <2> QED BY <2>1, <2>2 DEF RoomCreated
<1>2. \A g \in Hosts : /\ RunOf(g)' = RunOf(g) /\ InProgress(g)' = InProgress(g) /\ PostRun(g)' = PostRun(g)
                       /\ At(g, "off")' = At(g, "off") /\ (At(g, "register")' => At(g, "register"))
  BY <1>1 DEF RunOf, InProgress, PostRun, At
<1>3. \A g \in Hosts, k \in Codes : (Holds(g, k)' => Holds(g, k)) /\ (g # h /\ Holds(g, k) => Holds(g, k)')
  BY <1>1 DEF Holds, At
<1>4. OneAtATime' /\ FreeToStore'
  BY <1>1, <1>2 DEF OneAtATime, FreeToStore
<1>5. Awaited'
  BY <1>1, <1>2 DEF Awaited, At, InProgress
<1>6. Owned'
  BY <1>1, <1>2, <1>3 DEF Owned
<1>7. ASSUME NEW k \in Codes, Holds(h, k), rooms[k] = RunOf(h)
      PROVE  Holds(h, k)'
  BY <1>1, <1>7, ServerAssumption DEF Awaited, Holds
<1>8. Accounted'
  BY <1>1, <1>2, <1>3, <1>7 DEF Accounted
<1> QED BY <1>4, <1>5, <1>6, <1>8

(* The run of h ends: its rooms are noted as left behind, or there is no    *)
(* room of its own any more.                                                *)
LEMMA EndKeeps ==
  ASSUME RoomTyped, Kept, NEW h \in Hosts, ~ At(h, "off"), ~ At(h, "register"),
         host' = [host EXCEPT ![h] = [host[h] EXCEPT !.phase = "off", !.code = NoCode]],
         UNCHANGED post,
         unclean \subseteq unclean',
         \/ rooms' = rooms /\ (RunOf(h) \in unclean' \/ host[h].code = NoCode)
         \/ host[h].code \in Codes /\ rooms' = [rooms EXCEPT ![host[h].code] = NoRoom]
  PROVE  Kept'
<1> USE DEF RoomTyped, Kept
<1>1. /\ \A g \in Hosts \ {h} : host'[g] = host[g]
      /\ host'[h].phase = "off" /\ host'[h].run = host[h].run
  BY DEF Program
<1>2. \A g \in Hosts : /\ RunOf(g)' = RunOf(g) /\ InProgress(g)' = InProgress(g) /\ PostRun(g)' = PostRun(g)
                       /\ At(g, "register")' = At(g, "register")
  BY <1>1 DEF RunOf, InProgress, PostRun, At
<1>3. \A g \in Hosts \ {h} : At(g, "off")' = At(g, "off") /\ \A k \in Codes : Holds(g, k)' = Holds(g, k)
  BY <1>1 DEF At, Holds
<1>4. OneAtATime' /\ FreeToStore'
  BY <1>2 DEF OneAtATime, FreeToStore
<1>5. Awaited'
  BY <1>1, <1>2 DEF Awaited, At
<1>6. Owned'
  <2> SUFFICES ASSUME NEW g \in Hosts, NEW k \in Codes, ~ At(g, "off")', Holds(g, k)'
               PROVE  rooms'[k] = RunOf(g)'
    BY DEF Owned
  <2>1. g # h /\ rooms[k] = RunOf(g)
    BY <1>1, <1>3 DEF At, Owned
  <2>2. ~ (host[h].code \in Codes /\ k = host[h].code)
    <3>1. ASSUME host[h].code \in Codes, k = host[h].code PROVE FALSE
      <4>1. rooms[k] = RunOf(h)
        BY <3>1 DEF Owned, Holds
      <4> QED BY <2>1, <4>1, OwnRuns
    <3> QED BY <3>1
  <2>3. rooms'[k] = rooms[k]
    BY <2>2
  <2> QED BY <1>2, <2>1, <2>3
<1>7. Accounted'
  <2> SUFFICES ASSUME NEW k \in Codes, rooms'[k] # NoRoom
               PROVE  rooms'[k] \in unclean' \/ \E g \in Hosts : rooms'[k] = RunOf(g)' /\ ~ At(g, "off")' /\ Holds(g, k)'
    BY DEF Accounted
  <2>1. rooms'[k] = rooms[k] /\ rooms[k] # NoRoom /\ (rooms' = rooms \/ k # host[h].code)
    OBVIOUS
  <2>2. CASE rooms[k] = RunOf(h) /\ Holds(h, k)
    BY <2>1, <2>2, ServerAssumption DEF Holds
  <2> QED BY <1>2, <1>3, <2>1, <2>2 DEF Accounted
<1> QED BY <1>4, <1>5, <1>6, <1>7

LEMMA HostKeeps ==
  ASSUME RoomTyped, Phased, Kept, NEW h \in Hosts, HostTurn(h)
  PROVE  Kept'
<1>0. host[h] \in Program /\ Fits(host[h], session[h])
  BY DEF RoomTyped, Phased
<1>1. CASE RoomMissed(h)
  <2> USE DEF RoomTyped, Kept, serverVars
  <2>1. /\ At(h, "register") /\ UNCHANGED <<rooms, post>> /\ unclean' = unclean \union {RunOf(h)}
        /\ \A g \in Hosts \ {h} : host'[g] = host[g]
        /\ host'[h].phase = "listen" /\ host'[h].run = host[h].run /\ host'[h].code = host[h].code
    BY <1>0, <1>1 DEF RoomMissed, Goto, Fails, Program
  <2>2. \A g \in Hosts : /\ RunOf(g)' = RunOf(g) /\ InProgress(g)' = InProgress(g) /\ PostRun(g)' = PostRun(g)
                         /\ At(g, "off")' = At(g, "off")
    BY <2>1 DEF RunOf, InProgress, PostRun, At
  <2>3. \A g \in Hosts, k \in Codes : (Holds(g, k)' => Holds(g, k)) /\ (g # h /\ Holds(g, k) => Holds(g, k)')
    BY <2>1 DEF Holds, At
  <2>4. OneAtATime' /\ FreeToStore'
    BY <2>1, <2>2 DEF OneAtATime, FreeToStore
  <2>5. Awaited'
    <3>1. PostRun(h) = RunOf(h)
      BY <2>1 DEF Awaited, PostRun, RunOf
    <3> QED BY <2>1, <2>2, <3>1 DEF Awaited, At
  <2>6. Owned'
    BY <2>1, <2>2, <2>3 DEF Owned
  <2>7. Accounted'
    BY <2>1, <2>2, <2>3 DEF Accounted
  <2> QED BY <2>4, <2>5, <2>6, <2>7
<1>2. CASE RoomCreated(h)
  BY <1>2, CreatedKeeps
<1>3. CASE Listen(h) \/ Negotiated(h) \/ Stream(h) \/ (StopStreaming(h) /\ host[h].code # NoCode)
  <2>1. PICK phase \in {"negotiate", "init", "streaming", "delete"} : host' = [host EXCEPT ![h].phase = phase]
    BY <1>3 DEF Listen, Negotiated, Stream, StopStreaming, Goto
  <2>2. host[h].phase \notin {"off", "register"}
    BY <1>0, <1>3 DEF Listen, Negotiated, Agree, Stream, StopStreaming, At, Fits
  <2>3. UNCHANGED <<serverVars, unclean>>
    BY <1>3 DEF Listen, Negotiated, Stream, StopStreaming
  <2> QED BY <2>1, <2>2, <2>3, MoveKeeps
<1>4. CASE Negotiate(h)
  <2>1. UNCHANGED <<rooms, post, host, unclean>>
    BY <1>4 DEF Negotiate, serverVars, appVars
  <2> QED BY <2>1
      DEF Kept, OneAtATime, FreeToStore, Awaited, Owned, Accounted, InProgress, PostRun, Holds, At, RunOf
<1>5. CASE NegotiationFails(h) \/ HostExits(h)
  <2>1. ~ At(h, "off") /\ ~ At(h, "register")
    BY <1>0, <1>5 DEF NegotiationFails, HostGivesUp, Listening, HostExits, At, Fits
  <2>2. host' = [host EXCEPT ![h] = [host[h] EXCEPT !.phase = "off", !.code = NoCode]]
    BY <1>5 DEF NegotiationFails, HostExits, Ends
  <2>3. UNCHANGED <<rooms, post>> /\ unclean' = unclean \union {RunOf(h)}
    BY <1>5 DEF NegotiationFails, HostExits, Fails, serverVars
  <2> QED BY <2>1, <2>2, <2>3, EndKeeps
<1>6. CASE StopStreaming(h) /\ host[h].code = NoCode
  <2>1. ~ At(h, "off") /\ ~ At(h, "register") /\ UNCHANGED <<rooms, post, unclean>>
    BY <1>6 DEF StopStreaming, At, serverVars
  <2>2. host' = [host EXCEPT ![h] = [host[h] EXCEPT !.phase = "off", !.code = NoCode]]
    <3>1. host' = [host EXCEPT ![h] = [host[h] EXCEPT !.phase = "off"]]
      BY <1>6 DEF StopStreaming, Goto
    <3>2. [host[h] EXCEPT !.phase = "off"] = [host[h] EXCEPT !.phase = "off", !.code = NoCode]
      BY <1>0, <1>6 DEF Program
    <3> QED BY <3>1, <3>2
  <2> QED BY <1>6, <2>1, <2>2, EndKeeps
<1>7. CASE DeleteRoom(h)
  <2>1. ~ At(h, "off") /\ ~ At(h, "register")
    BY <1>7 DEF DeleteRoom, At
  <2>2. host' = [host EXCEPT ![h] = [host[h] EXCEPT !.phase = "off", !.code = NoCode]]
    BY <1>7 DEF DeleteRoom, Ends
  <2>3. CASE RemoveRoom(host[h].code) /\ UNCHANGED unclean
    <3>1. UNCHANGED post /\ rooms' = [rooms EXCEPT ![host[h].code] = NoRoom]
      BY <2>3 DEF RemoveRoom
    <3>2. CASE host[h].code \in Codes
      BY <2>1, <2>2, <2>3, <3>1, <3>2, EndKeeps
    <3>3. CASE host[h].code = NoCode
      <4>1. rooms' = rooms
        BY <3>1, <3>3, ServerAssumption DEF RoomTyped
      <4> QED BY <2>1, <2>2, <2>3, <3>1, <3>3, <4>1, EndKeeps
    <3> QED BY <1>0, <3>2, <3>3 DEF Program
  <2>4. CASE UNCHANGED serverVars /\ Fails(h)
    <3>1. UNCHANGED <<rooms, post>> /\ unclean' = unclean \union {RunOf(h)}
      BY <2>4 DEF Fails, serverVars
    <3> QED BY <2>1, <2>2, <3>1, EndKeeps
  <2> QED BY <1>7, <2>3, <2>4 DEF DeleteRoom
<1> QED BY <1>1, <1>2, <1>3, <1>4, <1>5, <1>6, <1>7 DEF HostTurn, NegotiateTurn

LEMMA StepKeepsRooms == TypeOK /\ Phased /\ RoomsKept /\ [Next]_vars => RoomsKept'
<1> SUFFICES ASSUME TypeOK, Phased, RoomsKept, [Next]_vars, ~ mishap' PROVE Kept'
  BY DEF RoomsKept
<1>0. RoomTyped
  BY Typed
<1>1. ~ mishap
  <2>1. mishap => mishap'
    BY ServerCalls
    DEF ServerCall, serverVars, CreateRequest, DrawCode, StoreRoom, ExpireRoom, RemoveRoom, Note
  <2> QED BY <2>1
<1>2. Kept
  BY <1>1 DEF RoomsKept
<1>3. CASE UNCHANGED <<rooms, post, host, unclean>>
  BY <1>2, <1>3 DEF Kept, OneAtATime, FreeToStore, Awaited, Owned, Accounted, InProgress, PostRun, Holds, At, RunOf
<1>4. CASE HandleRequests
  BY <1>0, <1>2, <1>4, ServerKeeps
<1>5. ASSUME NEW h \in Hosts, HostTurn(h) PROVE Kept'
  BY <1>0, <1>2, <1>5, HostKeeps
<1>6. ASSUME NEW h \in Hosts, NEW run \in 1..MaxRuns, StartWithRoom(h, run) \/ StartWithoutRoom(h, run)
      PROVE  Kept'
  BY <1>0, <1>2, <1>6, StartKeeps
<1>7. ASSUME NEW c \in Clients,
             \/ \E k \in Codes : JoinRoom(c, k)
             \/ \E h \in Hosts : JoinAddress(c, h) \/ Stranger(c, h)
             \/ ConnectTurn(c) \/ InitSession(c) \/ Disconnect(c)
      PROVE  UNCHANGED <<rooms, post, host, unclean>>
  BY <1>7 DEF JoinRoom, JoinAddress, Goal, Stranger, ConnectTurn, FallBack, ClientConnects, ClientConfirms,
              InitSession, Disconnect, serverVars
<1> QED BY <1>3, <1>4, <1>5, <1>6, <1>7 DEF Next, vars, serverVars, appVars

LEMMA InitKeepsRooms == Init => RoomsKept
  BY DEF Init, ServerInit, NoPost, RoomsKept, Kept, OneAtATime, FreeToStore, Awaited, Owned, Accounted, InProgress, At

LEMMA RoomsAlwaysKept == Spec => [](TypeOK /\ Phased /\ RoomsKept)
<1> DEFINE Inv == TypeOK /\ Phased /\ RoomsKept
<1>1. Init => Inv
  BY InitTyped, InitKeepsRooms
<1>2. Inv /\ [Next]_vars => Inv'
  BY StepTyped, StepKeepsRooms
<1> QED BY <1>1, <1>2, PTL DEF Spec

(* Two hosts that run never show the same code, as long as no two POSTs     *)
(* overlap, one of the codes drawn is free and no room expires.             *)
THEOREM CodesNeverShared == Spec => []CodesDistinct
<1>1. TypeOK /\ Phased /\ RoomsKept => CodesDistinct
  <2> SUFFICES ASSUME TypeOK, Phased, Kept, NEW g \in Hosts, NEW h \in Hosts, g # h, host[h].code # NoCode,
                      ~ At(g, "off"), ~ At(h, "off"), host[g].code = host[h].code
               PROVE  FALSE
    BY DEF CodesDistinct, RoomsKept, At
  <2>1. host[h].code \in Codes
    BY Typed DEF RoomTyped, Program
  <2>2. rooms[host[h].code] = RunOf(h) /\ rooms[host[h].code] = RunOf(g)
    BY <2>1 DEF Kept, Owned, Holds
  <2> QED BY <2>2, OwnRuns
<1> QED BY <1>1, RoomsAlwaysKept, PTL

(* A room that is still stored belongs to a host that runs, or to a run     *)
(* that failed or lost its request: a clean exit leaves nothing behind.     *)
THEOREM RoomsAccountedFor == Spec => []LeftoverNeedsFailure
<1>1. TypeOK /\ Phased /\ RoomsKept => LeftoverNeedsFailure
  <2> SUFFICES ASSUME Kept, NEW k \in Codes, rooms[k] # NoRoom, rooms[k] \notin unclean
               PROVE  rooms[k] = RunOf(rooms[k].host) /\ ~ At(rooms[k].host, "off")
    BY DEF LeftoverNeedsFailure, RoomsKept
  <2>1. PICK h \in Hosts : rooms[k] = RunOf(h) /\ ~ At(h, "off")
    BY DEF Kept, Accounted
  <2>2. rooms[k].host = h
    BY <2>1 DEF RunOf
  <2> QED BY <2>1, <2>2
<1> QED BY <1>1, RoomsAlwaysKept, PTL
=============================================================================
