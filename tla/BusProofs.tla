----------------------------- MODULE BusProofs -----------------------------
(***************************************************************************)
(* Theorems of Bus, for any sets of connections, sessions, names, nonces   *)
(* and hellos and any number of requests.                                  *)
(***************************************************************************)
EXTENDS Bus, TLAPS

(* The invariant of the proofs.  What the fields of a clientState say of   *)
(* the connection they were made for; *)
SessionsAreOwn ==
    \A c \in Conn : /\ client[c].sessionID \in Session \cup {c}
                    /\ client[c].role = "control" =>
                          client[c].sessionID = c /\ client[c].forSession \in Session
                    /\ client[c].role # "control" => client[c].forSession = NoSession

(* a connection that has not said hello is unknown to everyone; *)
HelloIsBlank ==
    \A c \in Conn : pc[c] = "hello" => client[c].role = "none" /\ job[c] = Idle

(* an entry of the registry is filed under its own session id; *)
EntriesMatch ==
    \A s \in SessionId : registry[s] # NoConn =>
        client[registry[s]].sessionID = s /\ client[registry[s]].role # "none"

(* an event still to be fanned out is about the session of its handler;    *)
EventsAreOwn ==
    \A c \in Conn : job[c].stage \in {"ack", "snapshot"} => job[c].frame.sid = FromId(c)

(* a message being written has been logged, unless appends fail.           *)
WritesAreLogged ==
    LogMayFail \/ \A c \in Conn :
        job[c].frame.op = "msg" /\ job[c].stage # "log" => job[c].frame.id \in log

IInv == /\ TypeOK /\ SessionsAreOwn /\ HelloIsBlank /\ EntriesMatch
        /\ ControlsHearReplies /\ EventsAreOwn /\ NoEcho /\ UniqueNames
        /\ WritesAreLogged /\ DeliveredIsLogged

----------------------------------------------------------------------------
USE DEF SessionId

LEMMA InitTypeOK == Init => TypeOK
  BY ConstantsAssumption
     DEF Init, TypeOK, ClientState, Job, Idle, NoFrame, Frame, Stage, Counter

(* The types of what the actions build their new states from. *)
LEMMA BumpType == ASSUME TypeOK, NEW k PROVE Bump(k) \in [Counter -> Nat]
<1>1. CASE k \in Counter
  <2>1. stats[k] + 1 \in Nat  BY <1>1 DEF TypeOK
  <2> QED  BY <1>1, <2>1 DEF Bump, TypeOK
<1>2. CASE k \notin Counter
  BY <1>2 DEF Bump, TypeOK
<1> QED  BY <1>1, <1>2

LEMMA HelloSessionType ==
  ASSUME NEW c \in Conn, NEW h \in Hellos PROVE HelloSession(c, h) \in SessionId
  BY ConstantsAssumption DEF HelloSession, Hello

LEMMA IdleType == Idle \in Job
  BY DEF Idle, NoFrame, Job, Frame, Stage

LEMMA EventType ==
  ASSUME NEW op \in EventOp, NEW s \in SessionId \cup {NoSession},
         NEW k \in Counter \cup {"none"}
  PROVE  Event(op, s, k) \in Job
  BY DEF Event, Job, Frame, Stage

LEMMA FromIdType ==
  ASSUME TypeOK, NEW c \in Conn PROVE FromId(c) \in SessionId \cup {NoSession}
  BY DEF FromId, TypeOK, ClientState

LEMMA MessageType ==
  ASSUME TypeOK, NEW c \in Conn, NEW to \in SUBSET Conn, NEW k \in Counter
  PROVE  Message(c, to, k) \in Job
  BY FromIdType DEF Message, Job, Frame, Stage, TypeOK

(* Every step of a handshake keeps the types. *)
LEMMA HandshakeTypeOK ==
  ASSUME TypeOK, NEW c \in Conn, Handshake(c)
  PROVE  TypeOK'
<1> USE ConstantsAssumption DEF TypeOK
<1>1. CASE RefuseHello(c)
  BY <1>1 DEF RefuseHello, Refuse
<1>2. CASE Welcome(c)
  <2>1. client[c].sessionID \in SessionId
    BY DEF ClientState
  <2>2. Event("peer_joined", client[c].sessionID, "joined") \in Job
    BY <2>1, EventType DEF EventOp, Counter
  <2> QED
    BY <1>2, <2>2, IdleType DEF Welcome, Written
<1>3. CASE WelcomeFails(c)
  BY <1>3 DEF WelcomeFails, WriteFailed
<1>4. ASSUME NEW h \in Hellos, AgentUnauthorized(c, h) PROVE TypeOK'
  BY <1>4, BumpType DEF AgentUnauthorized, Refuse
<1>5. ASSUME NEW h \in Hellos, AgentNameTaken(c, h) PROVE TypeOK'
  BY <1>5, BumpType, HelloSessionType DEF AgentNameTaken, Refuse
<1>6. ASSUME NEW h \in Hellos, AgentAccepted(c, h) PROVE TypeOK'
  <2>1. HelloSession(c, h) \in SessionId
    BY HelloSessionType
  <2>2. NewAgent(c, h) \in ClientState
    BY <2>1 DEF NewAgent, ClientState, Hello
  <2> QED
    BY <1>6, <2>1, <2>2 DEF AgentAccepted, Replaced
<1>7. ASSUME NEW h \in Hellos, ControlRefused(c, h) PROVE TypeOK'
  BY <1>7 DEF ControlRefused, Refuse
<1>8. ASSUME NEW h \in Hellos, ControlAccepted(c, h) PROVE TypeOK'
  <2>1. PICK a \in Conn : client' = [client EXCEPT ![c] =
                        [sessionID |-> c, role |-> "control", name |-> client[a].name,
                         nonce |-> h.nonce, forSession |-> h.session]]
    BY <1>8 DEF ControlAccepted, ListenerOf, Agents
  <2>2. client' \in [Conn -> ClientState]
    BY <2>1 DEF ClientState, Hello
  <2> QED
    BY <1>8, <2>2 DEF ControlAccepted
<1> QED
  BY <1>1, <1>2, <1>3, <1>4, <1>5, <1>6, <1>7, <1>8 DEF Handshake

(* Every frame a handler reads, and the part of its call done at once. *)
LEMMA DispatchTypeOK ==
  ASSUME TypeOK, NEW c \in Conn, Dispatch(c)
  PROVE  TypeOK'
<1> USE ConstantsAssumption DEF TypeOK
<1>0. ASSUME Read(c) PROVE requests' \in Nat
  BY <1>0 DEF Read
<1>1. CASE Answer(c)
  BY <1>1, <1>0 DEF Answer, Reply, Written, WriteFailed
<1>2. CASE Reject(c)
  BY <1>2, <1>0, BumpType DEF Reject, Reply, Written, WriteFailed
<1>3. CASE HandleBroadcast(c)
  <2>1. Others(FromId(c)) \in SUBSET Conn
    BY DEF Others, Agents
  <2>2. Message(c, Others(FromId(c)), "broadcast") \in Job
    BY <2>1, MessageType DEF Counter
  <2> QED
    BY <1>3, <1>0, <2>2 DEF HandleBroadcast, Start
<1>4. CASE Bye(c)
  <2>1. client[c].sessionID \in SessionId
    BY DEF ClientState
  <2>2. Event("peer_left", client[c].sessionID, "left") \in Job
    BY <2>1, EventType DEF EventOp, Counter
  <2> QED
    BY <1>4, <1>0, <2>1, <2>2, IdleType DEF Bye, Unregister
<1>5. ASSUME NEW t \in Target, HandleSend(c, t) PROVE TypeOK'
  <2>1. PICK a \in Resolve(c, t) : Start(c, Message(c, {a}, "sent"))
    BY <1>5 DEF HandleSend
  <2>2. a \in Conn
    BY DEF Resolve, Others, Agents
  <2>3. Message(c, {a}, "sent") \in Job
    BY <2>2, MessageType DEF Counter
  <2> QED
    BY <1>5, <1>0, <2>1, <2>3 DEF HandleSend, Start
<1>6. ASSUME NEW n \in Name \cup {NoName}, HandleRename(c, n) PROVE TypeOK'
  <2> DEFINE s == FromId(c)
             j == [Event("renamed", s, "none") EXCEPT !.stage = "ack"]
  <2>1. s \in SessionId \cup {NoSession}
    BY FromIdType
  <2>2. j \in Job
    BY <2>1 DEF Event, Job, Frame, Stage, EventOp, Counter
  <2>3. ASSUME registry[s] \in Conn,
               client' = [client EXCEPT ![registry[s]].name = n, ![c].name = n]
        PROVE  client' \in [Conn -> ClientState]
    BY <2>3 DEF ClientState
  <2> HIDE DEF j, s
  <2> QED
    BY <1>6, <1>0, <2>2, <2>3
       DEF HandleRename, Start, Reply, Written, WriteFailed, Agents, j, s
<1> QED
  BY <1>1, <1>2, <1>3, <1>4, <1>5, <1>6 DEF Dispatch

(* Every step of a call's rest. *)
LEMMA WorkTypeOK ==
  ASSUME TypeOK, NEW c \in Conn, Work(c)
  PROVE  TypeOK'
<1> USE DEF TypeOK
<1>0. /\ job[c] \in Job
      /\ job[c].frame.id \in Nat
  BY DEF Job, Frame
<1>1. CASE Ack(c)
  <2>1. [job[c] EXCEPT !.stage = "snapshot"] \in Job
    BY <1>0 DEF Job, Stage
  <2> QED
    BY <1>1, <2>1 DEF Ack, Reply, Written, WriteFailed
<1>2. CASE LogMessage(c)
  <2>1. [job[c] EXCEPT !.stage = "write"] \in Job
    BY <1>0 DEF Job, Stage
  <2> QED
    BY <1>2, <1>0, <2>1 DEF LogMessage
<1>3. CASE Snapshot(c)
  <2>1. Others(job[c].frame.sid) \in SUBSET Conn
    BY DEF Others, Agents
  <2>2. job' \in [Conn -> Job]
    BY <1>3, <1>0, <2>1 DEF Snapshot, Job, Stage
  <2> QED
    BY <1>3, <2>2, BumpType DEF Snapshot
<1>4. CASE Finish(c)
  BY <1>4, BumpType, IdleType DEF Finish
<1>5. ASSUME NEW d \in Conn, WriteTo(c, d) PROVE TypeOK'
  <2>1. [job[c] EXCEPT !.to = @ \ {d}] \in Job
    BY <1>0 DEF Job
  <2>2. job' \in [Conn -> Job]
    BY <1>5, <2>1 DEF WriteTo
  <2>3. received' \in [Conn -> SUBSET Nat]
    BY <1>5, <1>0 DEF WriteTo
  <2> QED
    BY <1>5, <2>2, <2>3 DEF WriteTo, Written
<1>6. ASSUME NEW d \in Conn, WriteFails(c, d) PROVE TypeOK'
  <2>1. [job[c] EXCEPT !.to = @ \ {d}] \in Job
    BY <1>0 DEF Job
  <2> QED
    BY <1>6, <2>1 DEF WriteFails, WriteFailed
<1>7. ASSUME NEW d \in Conn, WriteExpired(c, d) PROVE TypeOK'
  <2>1. [job[c] EXCEPT !.to = @ \ {d}] \in Job
    BY <1>0 DEF Job
  <2> QED
    BY <1>7, <2>1 DEF WriteExpired
<1>8. CASE Expire(c)
  <2>1. [job[c] EXCEPT !.stage = "expired"] \in Job
    BY <1>0 DEF Job, Stage
  <2> QED
    BY <1>8, <2>1 DEF Expire
<1> QED
  BY <1>1, <1>2, <1>3, <1>4, <1>5, <1>6, <1>7, <1>8 DEF Work

(* Every way a handler or a connection ends. *)
LEMMA EndTypeOK ==
  ASSUME TypeOK, NEW c \in Conn, ReadFails(c) \/ Exit(c) \/ CloseReplaced(c)
  PROVE  TypeOK'
<1> USE DEF TypeOK
<1>1. CASE ReadFails(c)
  <2>1. client[c].sessionID \in SessionId
    BY DEF ClientState
  <2>2. Event("peer_left", client[c].sessionID, "left") \in Job
    BY <2>1, EventType DEF EventOp, Counter
  <2> QED
    BY <1>1, <2>1, <2>2, IdleType DEF ReadFails, Unregister
<1>2. CASE Exit(c)
  BY <1>2 DEF Exit
<1>3. CASE CloseReplaced(c)
  BY <1>3 DEF CloseReplaced
<1> QED
  BY <1>1, <1>2, <1>3

----------------------------------------------------------------------------
(* The invariant, part by part.  First what the registry and the client    *)
(* states say of one another.                                              *)

RegistryInv == SessionsAreOwn /\ HelloIsBlank /\ EntriesMatch

(* A step that leaves both alone, and starts no call for a new connection. *)
LEMMA RegistryInvKept ==
  ASSUME TypeOK, RegistryInv, UNCHANGED <<registry, client>>,
         NEW c \in Conn, pc[c] # "hello",
         \A d \in Conn \ {c} : pc'[d] = pc[d] /\ job'[d] = job[d],
         pc'[c] # "hello"
  PROVE  RegistryInv'
  BY DEF RegistryInv, SessionsAreOwn, HelloIsBlank, EntriesMatch

LEMMA AcceptRegistryInv ==
  ASSUME TypeOK, RegistryInv, NEW c \in Conn, NEW h \in Hellos,
         AgentAccepted(c, h) \/ ControlAccepted(c, h)
  PROVE  RegistryInv'
<1> USE ConstantsAssumption
<1> DEFINE s == client'[c].sessionID
<1>1. /\ pc[c] = "hello" /\ pc' = [pc EXCEPT ![c] = "welcome"] /\ job' = job
      /\ \A d \in Conn \ {c} : client'[d] = client[d]
      /\ registry' = [registry EXCEPT ![s] = c]
      /\ s \in Session \cup {c} /\ client'[c].role \in {"agent", "control"}
      /\ client'[c].role = "control" => s = c /\ client'[c].forSession \in Session
      /\ client'[c].role # "control" => client'[c].forSession = NoSession
  <2>1. CASE AgentAccepted(c, h)
    BY <2>1 DEF AgentAccepted, NewAgent, HelloSession, Hello, TypeOK
  <2>2. CASE ControlAccepted(c, h)
    <3>1. PICK a \in ListenerOf(h) : client' = [client EXCEPT ![c] =
                        [sessionID |-> c, role |-> "control", name |-> client[a].name,
                         nonce |-> h.nonce, forSession |-> h.session]]
      BY <2>2 DEF ControlAccepted
    <3>2. h.session \in Session
      BY DEF ListenerOf, Agents, Hello, TypeOK, ClientState
    <3> QED
      BY <2>2, <3>1, <3>2 DEF ControlAccepted, TypeOK
  <2> QED
    BY <2>1, <2>2
<1> HIDE DEF s
<1>2. SessionsAreOwn'
  BY <1>1 DEF RegistryInv, SessionsAreOwn, s
<1>3. HelloIsBlank'
  BY <1>1 DEF RegistryInv, HelloIsBlank, TypeOK
<1>4. EntriesMatch'
  BY <1>1 DEF RegistryInv, EntriesMatch, HelloIsBlank, TypeOK, s
<1> QED
  BY <1>2, <1>3, <1>4 DEF RegistryInv

LEMMA NextRegistryInv ==
  ASSUME TypeOK, RegistryInv, Next
  PROVE  RegistryInv'
<1> USE ConstantsAssumption
<1>0. PICK c \in Conn : \/ Handshake(c) \/ Dispatch(c) \/ Work(c) \/ ReadFails(c)
                        \/ Exit(c) \/ CloseReplaced(c)
  BY DEF Next
<1>1. CASE Handshake(c)
  <2>1. CASE RefuseHello(c)
    BY <2>1 DEF RefuseHello, Refuse, RegistryInv, SessionsAreOwn, HelloIsBlank, EntriesMatch, TypeOK
  <2>2. CASE Welcome(c) \/ WelcomeFails(c)
    BY <2>2, RegistryInvKept DEF Welcome, WelcomeFails, TypeOK
  <2>3. ASSUME NEW h \in Hellos,
               \/ AgentUnauthorized(c, h) \/ AgentNameTaken(c, h) \/ ControlRefused(c, h)
        PROVE  RegistryInv'
    <3>1. /\ UNCHANGED <<client, job>> /\ pc' = [pc EXCEPT ![c] = "done"]
          /\ \A s \in SessionId : registry'[s] \in {registry[s], NoConn}
      BY <2>3, HelloSessionType
         DEF AgentUnauthorized, AgentNameTaken, ControlRefused, Refuse, TypeOK
    <3> QED
      BY <3>1 DEF RegistryInv, SessionsAreOwn, HelloIsBlank, EntriesMatch, TypeOK
  <2> QED
    BY <1>1, <2>1, <2>2, <2>3, AcceptRegistryInv DEF Handshake
<1>2. CASE Dispatch(c)
  <2>1. CASE Answer(c) \/ Reject(c) \/ HandleBroadcast(c) \/ \E t \in Target : HandleSend(c, t)
    BY <2>1, RegistryInvKept DEF Answer, Reject, HandleBroadcast, HandleSend, Read, Start, TypeOK
  <2>2. CASE Bye(c)
    BY <2>2 DEF Bye, Read, Unregister, RegistryInv, SessionsAreOwn, HelloIsBlank, EntriesMatch, TypeOK
  <2>3. ASSUME NEW n \in Name \cup {NoName}, HandleRename(c, n) PROVE RegistryInv'
    <3>1. /\ pc[c] # "hello" /\ UNCHANGED <<registry, pc>>
          /\ \A d \in Conn \ {c} : job'[d] = job[d]
          /\ \A d \in Conn : /\ client'[d].sessionID = client[d].sessionID
                             /\ client'[d].role = client[d].role
                             /\ client'[d].forSession = client[d].forSession
      BY <2>3 DEF HandleRename, Read, Start, Agents, TypeOK, ClientState
    <3> QED
      BY <3>1 DEF RegistryInv, SessionsAreOwn, HelloIsBlank, EntriesMatch, TypeOK
  <2> QED
    BY <1>2, <2>1, <2>2, <2>3 DEF Dispatch
<1>3. CASE Work(c)
  <2>1. job[c].stage # "idle"
    BY <1>3 DEF Work, Ack, LogMessage, Snapshot, Expire, Finish, WriteTo, WriteFails, WriteExpired
  <2>2. pc[c] # "hello"
    BY <2>1 DEF RegistryInv, HelloIsBlank, Idle
  <2>3. /\ UNCHANGED <<registry, client, pc>>
        /\ \A d \in Conn \ {c} : job'[d] = job[d]
    BY <1>3 DEF Work, Ack, LogMessage, Snapshot, Expire, Finish, WriteTo, WriteFails, WriteExpired, TypeOK
  <2> QED
    BY <2>2, <2>3, RegistryInvKept
<1>4. CASE ReadFails(c)
  BY <1>4 DEF ReadFails, Unregister, RegistryInv, SessionsAreOwn, HelloIsBlank, EntriesMatch, TypeOK
<1>5. CASE Exit(c)
  BY <1>5, RegistryInvKept DEF Exit, TypeOK
<1>6. CASE CloseReplaced(c)
  BY <1>6 DEF CloseReplaced, RegistryInv, SessionsAreOwn, HelloIsBlank, EntriesMatch
<1> QED
  BY <1>0, <1>1, <1>2, <1>3, <1>4, <1>5, <1>6

----------------------------------------------------------------------------
(* Then what handlers are about to send.                                   *)

JobInv == ControlsHearReplies /\ EventsAreOwn /\ NoEcho

(* Connections a handler may send to. *)
Audience(c) == {d \in Conn : /\ client[d].role = "agent"
                             /\ client[d].sessionID \notin
                                    {client[c].sessionID, client[c].forSession}}

LEMMA OthersAreAudience ==
  ASSUME TypeOK, RegistryInv, NEW c \in Conn
  PROVE  Others(FromId(c)) \subseteq Audience(c)
  BY ConstantsAssumption
     DEF Others, Agents, FromId, Audience, RegistryInv, SessionsAreOwn, TypeOK, ClientState

(* A step that does not change who a connection is, once it has said hello,*)
(* and gives a handler no new targets but its audience.                    *)
LEMMA JobInvKept ==
  ASSUME TypeOK, RegistryInv, JobInv,
         \A c \in Conn : pc[c] # "hello" =>
             /\ client'[c].sessionID = client[c].sessionID
             /\ client'[c].role = client[c].role
             /\ client'[c].forSession = client[c].forSession,
         \A c \in Conn : job'[c] # job[c] => pc[c] # "hello",
         \A c \in Conn : job'[c].to \subseteq job[c].to \/ job'[c].to \subseteq Audience(c),
         \A c \in Conn : \/ job'[c].stage \notin {"ack", "snapshot"}
                         \/ job'[c].frame.sid = FromId(c)
  PROVE  JobInv'
<1>1. ASSUME NEW c \in Conn, NEW d \in job'[c].to
      PROVE  pc[c] # "hello" /\ d \in Audience(c) /\ pc[d] # "hello"
  <2>1. d \in Conn
    BY <1>1 DEF Audience, TypeOK, Job
  <2>2. d \in Audience(c)
    BY <1>1, <2>1 DEF JobInv, ControlsHearReplies, NoEcho, Audience
  <2>3. pc[c] # "hello"
    BY <1>1 DEF RegistryInv, HelloIsBlank, Idle
  <2> QED
    BY <2>1, <2>2, <2>3 DEF Audience, RegistryInv, HelloIsBlank
<1>2. ControlsHearReplies' /\ NoEcho'
  BY <1>1 DEF ControlsHearReplies, NoEcho, Audience
<1>3. EventsAreOwn'
  <2> SUFFICES ASSUME NEW c \in Conn, job'[c].stage \in {"ack", "snapshot"}
               PROVE  job'[c].frame.sid = FromId(c)'
    BY DEF EventsAreOwn
  <2>1. pc[c] # "hello"
    BY DEF RegistryInv, HelloIsBlank, Idle
  <2> QED
    BY <2>1 DEF FromId
<1> QED
  BY <1>2, <1>3 DEF JobInv

LEMMA NextJobInv ==
  ASSUME TypeOK, RegistryInv, JobInv, Next
  PROVE  JobInv'
<1> USE ConstantsAssumption
<1>0. PICK c \in Conn : \/ Handshake(c) \/ Dispatch(c) \/ Work(c) \/ ReadFails(c)
                        \/ Exit(c) \/ CloseReplaced(c)
  BY DEF Next
<1>1. FromId(c) = client[c].sessionID \/ client[c].role = "control"
  BY DEF FromId
<1>2. \A d \in Conn : \/ job[d].stage \notin {"ack", "snapshot"}
                      \/ job[d].frame.sid = FromId(d)
  BY DEF JobInv, EventsAreOwn
<1>3. CASE UNCHANGED job /\ \A d \in Conn : pc[d] # "hello" => client'[d] = client[d]
  BY <1>2, <1>3, JobInvKept
<1>4. ASSUME NEW j, UNCHANGED client, pc[c] # "hello", job' = [job EXCEPT ![c] = j],
             j.to \subseteq job[c].to \/ j.to \subseteq Audience(c),
             j.stage \notin {"ack", "snapshot"} \/ j.frame.sid = FromId(c)
      PROVE  JobInv'
  <2>1. \A d \in Conn : job'[d] = IF d = c THEN j ELSE job[d]
    BY <1>4 DEF TypeOK
  <2> QED
    BY <1>2, <1>4, <2>1, JobInvKept
<1>4a. ASSUME UNCHANGED client, pc[c] # "hello", Unregister(c)
       PROVE  JobInv'
  <2> DEFINE e == IF client[c].role = "agent"
                  THEN Event("peer_left", client[c].sessionID, "left") ELSE Idle
  <2>1. client[c].role = "agent" => client[c].sessionID = FromId(c)
    BY DEF FromId
  <2>2. e.to = {} /\ (e.stage \notin {"ack", "snapshot"} \/ e.frame.sid = FromId(c))
    BY <2>1 DEF Event, Idle
  <2>3. UNCHANGED job \/ job' = [job EXCEPT ![c] = e]
    BY <1>4a DEF Unregister
  <2> HIDE DEF e
  <2> QED
    BY <1>3, <1>4, <1>4a, <2>2, <2>3
<1>5. CASE Handshake(c)
  <2>1. CASE Welcome(c)
    <3> DEFINE e == IF client[c].role = "agent"
                    THEN Event("peer_joined", client[c].sessionID, "joined") ELSE Idle
    <3>1. client[c].role = "agent" => client[c].sessionID = FromId(c)
      BY DEF FromId
    <3>2. e.to = {} /\ (e.stage \notin {"ack", "snapshot"} \/ e.frame.sid = FromId(c))
      BY <3>1 DEF Event, Idle
    <3>3. UNCHANGED client /\ pc[c] # "hello" /\ job' = [job EXCEPT ![c] = e]
      BY <2>1 DEF Welcome
    <3> HIDE DEF e
    <3> QED
      BY <1>4, <3>2, <3>3
  <2> QED
    BY <1>3, <1>5, <2>1
       DEF Handshake, RefuseHello, WelcomeFails, AgentUnauthorized, AgentNameTaken,
           AgentAccepted, ControlRefused, ControlAccepted, TypeOK
<1>6. CASE Dispatch(c)
  <2>1. CASE Answer(c) \/ Reject(c)
    BY <1>3, <2>1 DEF Answer, Reject
  <2>2. CASE HandleBroadcast(c)
    <3> DEFINE m == Message(c, Others(FromId(c)), "broadcast")
    <3>1. m.to \subseteq Audience(c) /\ m.stage = "log"
      BY OthersAreAudience DEF Message
    <3>2. UNCHANGED client /\ pc[c] # "hello" /\ job' = [job EXCEPT ![c] = m]
      BY <2>2 DEF HandleBroadcast, Read, Start
    <3> HIDE DEF m
    <3> QED
      BY <1>4, <3>1, <3>2
  <2>3. ASSUME NEW t \in Target, HandleSend(c, t) PROVE JobInv'
    <3>1. Resolve(c, t) \subseteq Audience(c)
      BY OthersAreAudience DEF Resolve
    <3>2. PICK a \in Resolve(c, t) : job' = [job EXCEPT ![c] = Message(c, {a}, "sent")]
      BY <2>3 DEF HandleSend, Start
    <3> DEFINE m == Message(c, {a}, "sent")
    <3>3. m.to \subseteq Audience(c) /\ m.stage = "log"
      BY <3>1 DEF Message
    <3>4. UNCHANGED client /\ pc[c] # "hello" /\ job' = [job EXCEPT ![c] = m]
      BY <2>3, <3>2 DEF HandleSend, Read
    <3> HIDE DEF m
    <3> QED
      BY <1>4, <3>3, <3>4
  <2>4. CASE Bye(c)
    BY <1>4a, <2>4 DEF Bye, Read
  <2>5. ASSUME NEW n \in Name \cup {NoName}, HandleRename(c, n) PROVE JobInv'
    <3>1. \A d \in Conn : /\ client'[d].sessionID = client[d].sessionID
                          /\ client'[d].role = client[d].role
                          /\ client'[d].forSession = client[d].forSession
      BY <2>5 DEF HandleRename, Agents, TypeOK, ClientState
    <3>2. pc[c] # "hello"
      BY <2>5 DEF HandleRename, Read
    <3>3. \/ UNCHANGED job
          \/ job' = [job EXCEPT ![c] = [Event("renamed", FromId(c), "none")
                                           EXCEPT !.stage = "ack"]]
      BY <2>5 DEF HandleRename, Start
    <3>4. \A d \in Conn : \/ job'[d] = job[d]
                          \/ d = c /\ job'[d].to = {} /\ job'[d].frame.sid = FromId(c)
      BY <3>3 DEF Event, TypeOK
    <3> QED
      BY <1>2, <3>1, <3>2, <3>4, JobInvKept
  <2> QED
    BY <1>6, <2>1, <2>2, <2>3, <2>4, <2>5 DEF Dispatch
<1>7. CASE Work(c)
  <2>1. job[c].stage # "idle" /\ UNCHANGED client
    BY <1>7 DEF Work, Ack, LogMessage, Snapshot, Expire, Finish, WriteTo, WriteFails, WriteExpired
  <2>2. pc[c] # "hello"
    BY <2>1 DEF RegistryInv, HelloIsBlank, Idle
  <2>3. job[c] \in Job
    BY DEF TypeOK
  <2>4. ASSUME NEW j \in Job, job' = [job EXCEPT ![c] = j], j.to \subseteq job[c].to,
               j.stage \notin {"ack", "snapshot"}
        PROVE  JobInv'
    BY <1>4, <2>1, <2>2, <2>4
  <2>5. CASE Ack(c)
    <3> DEFINE j == [job[c] EXCEPT !.stage = "snapshot"]
    <3>1. j.to = job[c].to /\ j.frame.sid = FromId(c)
      BY <1>2, <2>3, <2>5 DEF Ack, Job
    <3>2. job' = [job EXCEPT ![c] = j]
      BY <2>5 DEF Ack
    <3> HIDE DEF j
    <3> QED
      BY <1>4, <2>1, <2>2, <3>1, <3>2
  <2>6. CASE Snapshot(c)
    <3> DEFINE j == [job[c] EXCEPT !.stage = "write", !.to = Others(job[c].frame.sid),
                                   !.counter = "none"]
    <3>1. j.to \subseteq Audience(c) /\ j.stage = "write"
      BY <1>2, <2>3, <2>6, OthersAreAudience DEF Snapshot, Job
    <3>2. job' = [job EXCEPT ![c] = j]
      BY <2>6 DEF Snapshot
    <3> HIDE DEF j
    <3> QED
      BY <1>4, <2>1, <2>2, <3>1, <3>2
  <2>7. CASE LogMessage(c)
    <3> DEFINE j == [job[c] EXCEPT !.stage = "write"]
    <3>1. j \in Job /\ j.to = job[c].to /\ j.stage = "write"
      BY <2>3 DEF Job, Stage
    <3>2. job' = [job EXCEPT ![c] = j]
      BY <2>7 DEF LogMessage
    <3> HIDE DEF j
    <3> QED
      BY <2>4, <3>1, <3>2
  <2>8. CASE Finish(c)
    BY <2>4, <2>8, IdleType DEF Finish, Idle
  <2>9. ASSUME NEW d \in Conn, WriteTo(c, d) \/ WriteFails(c, d) \/ WriteExpired(c, d)
        PROVE  JobInv'
    <3> DEFINE j == [job[c] EXCEPT !.to = @ \ {d}]
    <3>1. j \in Job /\ j.to \subseteq job[c].to /\ j.stage \notin {"ack", "snapshot"}
      BY <2>3, <2>9 DEF Job, WriteTo, WriteFails, WriteExpired
    <3>2. job' = [job EXCEPT ![c] = j]
      BY <2>9 DEF WriteTo, WriteFails, WriteExpired
    <3> HIDE DEF j
    <3> QED
      BY <2>4, <3>1, <3>2
  <2>10. CASE Expire(c)
    <3> DEFINE j == [job[c] EXCEPT !.stage = "expired"]
    <3>1. j \in Job /\ j.to = job[c].to /\ j.stage = "expired"
      BY <2>3 DEF Job, Stage
    <3>2. job' = [job EXCEPT ![c] = j]
      BY <2>10 DEF Expire
    <3> HIDE DEF j
    <3> QED
      BY <2>4, <3>1, <3>2
  <2> QED
    BY <1>7, <2>5, <2>6, <2>7, <2>8, <2>9, <2>10 DEF Work
<1>8. CASE ReadFails(c)
  BY <1>8, <1>4a DEF ReadFails
<1>9. CASE Exit(c) \/ CloseReplaced(c)
  BY <1>3, <1>9 DEF Exit, CloseReplaced
<1> QED
  BY <1>0, <1>5, <1>6, <1>7, <1>8, <1>9

----------------------------------------------------------------------------
(* Names. *)

LEMMA UniqueNamesKept ==
  ASSUME UniqueNames, Agents' \subseteq Agents,
         \A a \in Agents' : client'[a].name = client[a].name
  PROVE  UniqueNames'
  BY DEF UniqueNames

LEMMA NextUniqueNames ==
  ASSUME TypeOK, RegistryInv, UniqueNames, Next
  PROVE  UniqueNames'
<1> USE ConstantsAssumption
<1>0. PICK c \in Conn : \/ Handshake(c) \/ Dispatch(c) \/ Work(c) \/ ReadFails(c)
                        \/ Exit(c) \/ CloseReplaced(c)
  BY DEF Next
<1>1. CASE UNCHANGED <<registry, client>>
  BY <1>1, UniqueNamesKept DEF Agents
<1>2. ASSUME Unregister(c), UNCHANGED client
      PROVE  UniqueNames'
  <2>1. Agents' \subseteq Agents
    BY <1>2 DEF Unregister, Agents, TypeOK, ClientState
  <2> QED
    BY <1>2, <2>1, UniqueNamesKept DEF Agents
<1>3. CASE Handshake(c)
  <2>1. ASSUME NEW h \in Hellos, AgentNameTaken(c, h) PROVE UniqueNames'
    <3>1. Agents' \subseteq Agents /\ UNCHANGED client
      BY <2>1, HelloSessionType DEF AgentNameTaken, Agents, TypeOK, ClientState
    <3> QED
      BY <3>1, UniqueNamesKept
  <2>2. ASSUME NEW h \in Hellos, AgentAccepted(c, h) PROVE UniqueNames'
    <3> DEFINE s == HelloSession(c, h)
    <3>1. s \in SessionId
      BY HelloSessionType
    <3>2. /\ client' = [client EXCEPT ![c] = NewAgent(c, h)]
          /\ registry' = [registry EXCEPT ![s] = c]
          /\ NameFree(h.name, s)
      BY <2>2 DEF AgentAccepted
    <3>3. c \notin Agents
      BY <2>2 DEF AgentAccepted, Agents, RegistryInv, HelloIsBlank
    <3>4. \A a \in Agents' \ {c} : a \in Others(s) /\ client'[a] = client[a]
      BY <3>1, <3>2 DEF Agents, Others, TypeOK, ClientState
    <3>5. client'[c].name = h.name
      BY <3>2 DEF NewAgent, TypeOK
    <3>6. \A a \in Agents' \ {c} : h.name # NoName => client'[a].name # h.name
      BY <3>2, <3>4 DEF NameFree
    <3> HIDE DEF s
    <3> QED
      BY <3>4, <3>5, <3>6 DEF UniqueNames, Others
  <2>3. ASSUME NEW h \in Hellos, ControlAccepted(c, h) PROVE UniqueNames'
    <3>1. /\ registry' = [registry EXCEPT ![c] = c]
          /\ \A d \in Conn \ {c} : client'[d] = client[d]
          /\ client'[c].role = "control"
      BY <2>3 DEF ControlAccepted, TypeOK
    <3>2. Agents' \subseteq Agents /\ c \notin Agents'
      BY <3>1 DEF Agents, TypeOK, ClientState
    <3> QED
      BY <3>1, <3>2, UniqueNamesKept DEF Agents
  <2>4. CASE \/ RefuseHello(c) \/ Welcome(c) \/ WelcomeFails(c)
             \/ \E h \in Hellos : AgentUnauthorized(c, h) \/ ControlRefused(c, h)
    BY <1>1, <2>4 DEF RefuseHello, Welcome, WelcomeFails, AgentUnauthorized, ControlRefused
  <2> QED
    BY <1>3, <2>1, <2>2, <2>3, <2>4 DEF Handshake
<1>4. CASE Dispatch(c)
  <2>1. ASSUME NEW n \in Name \cup {NoName}, HandleRename(c, n) PROVE UniqueNames'
    <3> DEFINE s == FromId(c)
               a == registry[s]
    <3>1. CASE UNCHANGED client
      BY <1>1, <2>1, <3>1 DEF HandleRename
    <3>2. CASE client' # client
      <4>1. /\ a \in Agents /\ NameFree(n, s) /\ UNCHANGED registry
            /\ client' = [client EXCEPT ![a].name = n, ![c].name = n]
        BY <2>1, <3>2 DEF HandleRename
      <4>2. s \in SessionId
        BY DEF FromId, TypeOK, ClientState, RegistryInv, SessionsAreOwn
      <4>3. \A d \in Conn : /\ client'[d].role = client[d].role
                            /\ client'[d].sessionID = client[d].sessionID
                            /\ d \notin {a, c} => client'[d].name = client[d].name
                            /\ d \in {a, c} => client'[d].name = n
        BY <4>1 DEF Agents, TypeOK, ClientState
      <4>4. Agents' = Agents
        BY <4>1, <4>3 DEF Agents
      <4>5. client[a].sessionID = s
        BY <4>1, <4>2 DEF RegistryInv, EntriesMatch, Agents
      <4>6. c \in Agents => c = a
        BY DEF Agents, FromId
      <4>7. \A b \in Agents \ {a} : b \in Others(s)
        BY <4>1, <4>5 DEF Agents, Others
      <4>8. \A b \in Agents \ {a} : n # NoName => client'[b].name # n
        BY <4>1, <4>3, <4>6, <4>7 DEF NameFree, Agents
      <4>9. \A b \in Agents \ {a} : client'[b].name = client[b].name
        BY <4>3, <4>6 DEF Agents
      <4>10. a \in Agents /\ client'[a].name = n
        BY <4>1, <4>3 DEF Agents
      <4> HIDE DEF s, a
      <4> SUFFICES ASSUME NEW b \in Agents, NEW e \in Agents, b # e,
                          client'[b].name = client'[e].name, client'[b].name # NoName
                   PROVE  FALSE
        BY <4>4, Zenon DEF UniqueNames
      <4>11. CASE b = a \/ e = a
        BY <4>8, <4>10, <4>11
      <4>12. CASE b # a /\ e # a
        <5>1. client[b].name = client[e].name /\ client[b].name # NoName
          BY <4>9, <4>12
        <5> QED
          BY <5>1 DEF UniqueNames
      <4> QED
        BY <4>11, <4>12
    <3> QED
      BY <3>1, <3>2
  <2>2. CASE Bye(c)
    BY <1>2, <2>2 DEF Bye
  <2>3. CASE \/ Answer(c) \/ Reject(c) \/ HandleBroadcast(c)
             \/ \E t \in Target : HandleSend(c, t)
    BY <1>1, <2>3 DEF Answer, Reject, HandleBroadcast, HandleSend
  <2> QED
    BY <1>4, <2>1, <2>2, <2>3 DEF Dispatch
<1>5. CASE Work(c)
  BY <1>1, <1>5 DEF Work, Ack, LogMessage, Snapshot, Expire, Finish, WriteTo, WriteFails, WriteExpired
<1>6. CASE ReadFails(c)
  BY <1>2, <1>6 DEF ReadFails
<1>7. CASE Exit(c) \/ CloseReplaced(c)
  BY <1>1, <1>7 DEF Exit, CloseReplaced
<1> QED
  BY <1>0, <1>3, <1>4, <1>5, <1>6, <1>7

----------------------------------------------------------------------------
(* Messages and the log. *)

LogInv == WritesAreLogged /\ DeliveredIsLogged

LEMMA NextLogInv ==
  ASSUME TypeOK, LogInv, Next
  PROVE  LogInv'
<1> USE DEF LogInv, WritesAreLogged, DeliveredIsLogged
<1> SUFFICES ASSUME ~LogMayFail PROVE LogInv'
  OBVIOUS
<1>0. PICK c \in Conn : \/ Handshake(c) \/ Dispatch(c) \/ Work(c) \/ ReadFails(c)
                        \/ Exit(c) \/ CloseReplaced(c)
  BY DEF Next
<1>1. CASE UNCHANGED <<job, received, log>>
  BY <1>1
<1>2. ASSUME NEW j, job' = [job EXCEPT ![c] = j], j.frame.op # "msg" \/ j.stage = "log",
             UNCHANGED <<received, log>>
      PROVE  LogInv'
  <2>1. \A d \in Conn : job'[d] = IF d = c THEN j ELSE job[d]
    BY <1>2 DEF TypeOK
  <2> QED
    BY <1>2, <2>1
<1>3. CASE Handshake(c)
  <2>1. CASE Welcome(c)
    <3> DEFINE e == IF client[c].role = "agent"
                    THEN Event("peer_joined", client[c].sessionID, "joined") ELSE Idle
    <3>1. e.frame.op # "msg"
      BY DEF Event, Idle, NoFrame
    <3>2. job' = [job EXCEPT ![c] = e] /\ UNCHANGED <<received, log>>
      BY <2>1 DEF Welcome
    <3> HIDE DEF e
    <3> QED
      BY <1>2, <3>1, <3>2
  <2> QED
    BY <1>1, <1>3, <2>1
       DEF Handshake, RefuseHello, WelcomeFails, AgentUnauthorized, AgentNameTaken,
           AgentAccepted, ControlRefused, ControlAccepted
<1>4. ASSUME Unregister(c), UNCHANGED <<received, log>> PROVE LogInv'
  <2> DEFINE e == IF client[c].role = "agent"
                  THEN Event("peer_left", client[c].sessionID, "left") ELSE Idle
  <2>1. e.frame.op # "msg"
    BY DEF Event, Idle, NoFrame
  <2>2. UNCHANGED job \/ job' = [job EXCEPT ![c] = e]
    BY <1>4 DEF Unregister
  <2> HIDE DEF e
  <2> QED
    BY <1>1, <1>2, <1>4, <2>1, <2>2
<1>5. CASE Dispatch(c)
  <2>1. CASE Answer(c) \/ Reject(c)
    BY <1>1, <2>1 DEF Answer, Reject
  <2>2. ASSUME NEW to, NEW k, Start(c, Message(c, to, k)), UNCHANGED <<received, log>>
        PROVE  LogInv'
    <3> DEFINE m == Message(c, to, k)
    <3>1. m.stage = "log"
      BY DEF Message
    <3>2. job' = [job EXCEPT ![c] = m]
      BY <2>2 DEF Start
    <3> HIDE DEF m
    <3> QED
      BY <1>2, <2>2, <3>1, <3>2
  <2>3. CASE HandleBroadcast(c) \/ \E t \in Target : HandleSend(c, t)
    BY <2>2, <2>3 DEF HandleBroadcast, HandleSend
  <2>4. CASE Bye(c)
    BY <1>4, <2>4 DEF Bye
  <2>5. ASSUME NEW n \in Name \cup {NoName}, HandleRename(c, n) PROVE LogInv'
    <3> DEFINE e == [Event("renamed", FromId(c), "none") EXCEPT !.stage = "ack"]
    <3>1. e.frame.op # "msg"
      BY DEF Event
    <3>2. /\ UNCHANGED job \/ job' = [job EXCEPT ![c] = e]
          /\ UNCHANGED <<received, log>>
      BY <2>5 DEF HandleRename, Start
    <3> HIDE DEF e
    <3> QED
      BY <1>1, <1>2, <3>1, <3>2
  <2> QED
    BY <1>5, <2>1, <2>3, <2>4, <2>5 DEF Dispatch
<1>6. CASE Work(c)
  <2>1. \A d \in Conn \ {c} : job'[d] = job[d]
    BY <1>6 DEF Work, Ack, LogMessage, Snapshot, Expire, Finish, WriteTo, WriteFails, WriteExpired, TypeOK
  <2>2. job[c] \in Job
    BY DEF TypeOK
  <2>3. CASE LogMessage(c)
    BY <2>1, <2>2, <2>3 DEF LogMessage, TypeOK, Job
  <2>4. CASE Finish(c)
    BY <1>2, <2>4 DEF Finish, Idle, NoFrame
  <2>5. ASSUME NEW d \in Conn, WriteTo(c, d) PROVE LogInv'
    <3>1. job'[c].frame = job[c].frame /\ job'[c].stage = job[c].stage /\ UNCHANGED log
      BY <2>2, <2>5 DEF WriteTo, TypeOK, Job
    <3>2. job[c].frame.op = "msg" => job[c].frame.id \in log
      BY <2>5 DEF WriteTo
    <3>3. \A b \in Conn : received'[b] \subseteq received[b] \cup log
      <4>1. CASE job[c].frame.op = "msg"
        BY <2>5, <3>2, <4>1 DEF WriteTo, TypeOK
      <4>2. CASE job[c].frame.op # "msg"
        BY <2>5, <4>2 DEF WriteTo
      <4> QED
        BY <4>1, <4>2
    <3> QED
      BY <2>1, <3>1, <3>3
  <2>6. CASE Ack(c) \/ Snapshot(c) \/ Expire(c)
    <3>1. /\ UNCHANGED <<received, log>> /\ job'[c].frame = job[c].frame
          /\ job[c].stage # "log"
      BY <2>2, <2>6 DEF Ack, Snapshot, Expire, TypeOK, Job
    <3> QED
      BY <2>1, <3>1
  <2>7. ASSUME NEW d \in Conn, WriteFails(c, d) \/ WriteExpired(c, d) PROVE LogInv'
    <3>1. UNCHANGED <<received, log>> /\ job[c].stage # "log"
      BY <2>7 DEF WriteFails, WriteExpired
    <3>2. job'[c].frame = job[c].frame
      BY <2>2, <2>7 DEF WriteFails, WriteExpired, TypeOK, Job
    <3> QED
      BY <2>1, <3>1, <3>2
  <2> QED
    BY <1>6, <2>3, <2>4, <2>5, <2>6, <2>7 DEF Work
<1>7. CASE ReadFails(c)
  BY <1>4, <1>7 DEF ReadFails
<1>8. CASE Exit(c) \/ CloseReplaced(c)
  BY <1>1, <1>8 DEF Exit, CloseReplaced
<1> QED
  BY <1>0, <1>3, <1>5, <1>6, <1>7, <1>8

----------------------------------------------------------------------------
(* The theorems. *)

LEMMA InvInit == Init => IInv
<1> USE ConstantsAssumption
<1> SUFFICES ASSUME Init PROVE IInv
  OBVIOUS
<1>1. TypeOK
  BY InitTypeOK
<1>2. SessionsAreOwn /\ HelloIsBlank /\ EntriesMatch
  BY DEF Init, SessionsAreOwn, HelloIsBlank, EntriesMatch
<1>3. ControlsHearReplies /\ EventsAreOwn /\ NoEcho /\ WritesAreLogged /\ DeliveredIsLogged
  BY DEF Init, ControlsHearReplies, EventsAreOwn, NoEcho, WritesAreLogged, DeliveredIsLogged,
         Idle, NoFrame
<1>4. UniqueNames
  BY DEF Init, UniqueNames, Agents
<1> QED
  BY <1>1, <1>2, <1>3, <1>4 DEF IInv

LEMMA InvNext == IInv /\ [Next]_vars => IInv'
<1> SUFFICES ASSUME IInv, [Next]_vars PROVE IInv'
  OBVIOUS
<1>0. TypeOK /\ RegistryInv /\ JobInv /\ UniqueNames /\ LogInv
  BY DEF IInv, RegistryInv, JobInv, LogInv
<1>1. CASE Next
  <2>1. TypeOK'
    BY <1>0, <1>1, HandshakeTypeOK, DispatchTypeOK, WorkTypeOK, EndTypeOK DEF Next
  <2>2. RegistryInv' /\ JobInv' /\ UniqueNames' /\ LogInv'
    BY <1>0, <1>1, NextRegistryInv, NextJobInv, NextUniqueNames, NextLogInv
  <2> QED
    BY <2>1, <2>2 DEF IInv, RegistryInv, JobInv, LogInv
<1>2. CASE UNCHANGED vars
  BY <1>2 DEF vars, IInv, TypeOK, SessionsAreOwn, HelloIsBlank, EntriesMatch,
              ControlsHearReplies, EventsAreOwn, FromId, NoEcho, UniqueNames, Agents,
              WritesAreLogged, DeliveredIsLogged
<1> QED
  BY <1>1, <1>2

(* The invariant is inductive, so it holds of every reachable state. *)
THEOREM Invariant == Spec => []IInv
  BY InvInit, InvNext, PTL DEF Spec

(* Every field keeps its Go type; no nil connection is ever closed, and no *)
(* connection outside the bus gets into the registry or a list of targets. *)
THEOREM TypeCorrect == Spec => []TypeOK
<1>1. IInv => TypeOK
  BY DEF IInv
<1> QED
  BY <1>1, Invariant, PTL

(* helloAgent and handleRename together keep names unique: a send by name  *)
(* has one possible addressee.                                             *)
THEOREM NamesAreUnique == Spec => []UniqueNames
<1>1. IInv => UniqueNames
  BY DEF IInv
<1> QED
  BY <1>1, Invariant, PTL

(* No handler ever has its own session, or the one it speaks for, among    *)
(* the targets of a message or an event.                                   *)
THEOREM NobodyHearsItself == Spec => []NoEcho
<1>1. IInv => NoEcho
  BY DEF IInv
<1> QED
  BY <1>1, Invariant, PTL

(* What handlers send to other clients goes to agents only. *)
THEOREM ControlsOnlyHearReplies == Spec => []ControlsHearReplies
<1>1. IInv => ControlsHearReplies
  BY DEF IInv
<1> QED
  BY <1>1, Invariant, PTL

(* No message is on a socket before its record is in the log. *)
THEOREM LogPrecedesDelivery == Spec => []DeliveredIsLogged
<1>1. IInv => DeliveredIsLogged
  BY DEF IInv
<1> QED
  BY <1>1, Invariant, PTL

(* A registry entry goes only by its own handler's unregister, or by a     *)
(* hello for the same session that carries its nonce.                      *)
LEMMA RemovalStep == IInv /\ [Next]_vars => RemovalsAreOwned
<1> USE ConstantsAssumption
<1> SUFFICES ASSUME IInv, [Next]_vars, NEW s \in SessionId,
                    registry[s] # NoConn, registry'[s] # registry[s]
             PROVE  RemovedByOwnerOrSuccessor(s, registry[s])
  BY DEF RemovalsAreOwned
<1> USE DEF IInv
<1>0. PICK d \in Conn : \/ Handshake(d) \/ Dispatch(d) \/ Work(d) \/ ReadFails(d)
                        \/ Exit(d) \/ CloseReplaced(d)
  BY DEF Next, vars
<1>1. ASSUME NEW h \in Hellos, AgentNameTaken(d, h) \/ AgentAccepted(d, h)
      PROVE  RemovedByOwnerOrSuccessor(s, registry[s])
  <2>1. HelloSession(d, h) = s
    BY <1>1, HelloSessionType DEF AgentNameTaken, AgentAccepted, TypeOK
  <2>2. h.nonce # NoNonce /\ h.nonce = client[registry[s]].nonce
    BY <1>1, <2>1 DEF AgentNameTaken, AgentAccepted, Proves
  <2>3. pc[d] = "hello" /\ pc'[d] # "hello"
    BY <1>1 DEF AgentNameTaken, AgentAccepted, Refuse, TypeOK
  <2> QED
    BY <2>1, <2>2, <2>3 DEF RemovedByOwnerOrSuccessor
<1>2. ASSUME NEW h \in Hellos, ControlAccepted(d, h) PROVE FALSE
  <2>1. s = d
    BY <1>2 DEF ControlAccepted, TypeOK
  <2>2. client[registry[s]].sessionID = d /\ client[registry[s]].role # "none"
    BY <2>1 DEF EntriesMatch
  <2>3. registry[s] = d
    BY <2>1, <2>2 DEF SessionsAreOwn, TypeOK
  <2> QED
    BY <1>2, <2>2, <2>3 DEF ControlAccepted, HelloIsBlank
<1>3. ASSUME Unregister(d), pc[d] = "serve" PROVE RemovedByOwnerOrSuccessor(s, registry[s])
  <2>1. registry[s] = d
    BY <1>3 DEF Unregister, Owns, TypeOK, ClientState
  <2> QED
    BY <1>3, <2>1 DEF RemovedByOwnerOrSuccessor, Unregister, TypeOK
<1>4. CASE Handshake(d)
  BY <1>1, <1>2, <1>4
     DEF Handshake, RefuseHello, Welcome, WelcomeFails, AgentUnauthorized, ControlRefused
<1>5. CASE Dispatch(d)
  BY <1>3, <1>5
     DEF Dispatch, Answer, Reject, HandleBroadcast, HandleSend, HandleRename, Bye, Read
<1>6. CASE Work(d)
  BY <1>6 DEF Work, Ack, LogMessage, Snapshot, Expire, Finish, WriteTo, WriteFails, WriteExpired
<1>7. CASE ReadFails(d)
  BY <1>3, <1>7 DEF ReadFails
<1>8. CASE Exit(d) \/ CloseReplaced(d)
  BY <1>8 DEF Exit, CloseReplaced
<1> QED
  BY <1>0, <1>4, <1>5, <1>6, <1>7, <1>8

(* The late unregister of a replaced connection, or a hello without the    *)
(* nonce, never takes a session from its holder.                           *)
THEOREM SessionsAreNotStolen == Spec => OnlyOwnerOrSuccessorRemoves
<1>1. IInv /\ [Next]_vars => [RemovalsAreOwned]_vars
  BY RemovalStep
<1> QED
  BY <1>1, Invariant, PTL DEF Spec, OnlyOwnerOrSuccessorRemoves
============================================================================
