-------------------------- MODULE BusDeliveryProofs --------------------------
(***************************************************************************)
(* The fan-out of messages and events, the counters, and that the registry *)
(* implements Directory: theorems of Bus from the invariant of BusProofs.  *)
(***************************************************************************)
EXTENDS BusProofs, FiniteSetTheorems

(* What a handler's job can be: nothing,                                   *)
IsEvent(j) ==
    /\ j.frame.op \in EventOp /\ j.frame.id = 0
    /\ \/ j.stage = "ack" /\ j.counter = "none" /\ j.to = {}
       \/ j.stage = "snapshot" /\ j.counter \in {"none", "joined", "left"} /\ j.to = {}
       \/ j.stage \in {"write", "expired"} /\ j.counter = "none"

(* an event without an id, counted when its targets are taken,             *)
(* or a message with an id, counted when it has been written.              *)
IsMessage(j) ==
    /\ j.frame.op = "msg" /\ j.frame.id \in 1 .. requests
    /\ j.stage \in {"log", "write"} /\ j.counter \in {"sent", "broadcast"}

Fits(c) ==
    \/ job[c] = Idle
    \/ IsEvent(job[c]) /\ pc[c] \in {"serve", "leave"}
    \/ IsMessage(job[c]) /\ pc[c] = "serve"

JobsFit == \A c \in Conn : Fits(c)

(* No id is in two jobs; ids in use are old, and a message waiting for its *)
(* record has none yet.                                                    *)
IdsAreFresh ==
    /\ \A c, d \in Conn : job[c].frame.id = job[d].frame.id /\ job[c].frame.id # 0 => c = d
    /\ log \subseteq 1 .. requests
    /\ \A c \in Conn : /\ received[c] \subseteq 1 .. requests
                       /\ received[c] # {} => pc[c] # "hello"
                       /\ job[c].stage = "log" => job[c].frame.id \notin log

(* The targets of a call are of different sessions. *)
TargetsDiffer ==
    \A b \in Conn : \A d, e \in job[b].to : client[d].sessionID = client[e].sessionID => d = e

(* What the totals of StatsBalance leave out: who is about to be counted as*)
(* having left.                                                            *)
Counted == {c \in Agents : pc[c] \in {"serve", "leave"} /\ job[c].counter # "joined"}
Leaving == {c \in Conn : job[c].counter = "left"}
Busy == {c \in Conn : job[c].stage # "log" /\ job[c].counter \in {"sent", "broadcast"}}
Engaged == {c \in Conn : pc[c] # "hello"}

JoinsBalance == stats["left"] + Cardinality(Leaving) + Cardinality(Counted) <= stats["joined"]
LogBalance == stats["sent"] + stats["broadcast"] + Cardinality(Busy) = Cardinality(log)

TotalsInv ==
    /\ IsFiniteSet(Engaged) /\ IsFiniteSet(log)
    /\ JoinsBalance
    /\ LogMayFail \/ LogBalance

----------------------------------------------------------------------------
(* A step is one of a handler, and leaves the others where they are and    *)
(* with their jobs.                                                        *)
LEMMA StepOfOne ==
  ASSUME TypeOK, NEW c \in Conn,
         \/ Handshake(c) \/ Dispatch(c) \/ Work(c) \/ ReadFails(c) \/ Exit(c) \/ CloseReplaced(c)
  PROVE  /\ \A d \in Conn \ {c} : pc'[d] = pc[d] /\ job'[d] = job[d]
         /\ requests' \in {requests, requests + 1}
<1>1. CASE Handshake(c)
  BY <1>1 DEF Handshake, RefuseHello, Refuse, Welcome, WelcomeFails, AgentUnauthorized,
              AgentNameTaken, AgentAccepted, ControlRefused, ControlAccepted, TypeOK
<1>2. CASE Dispatch(c)
  BY <1>2 DEF Dispatch, Answer, Reject, HandleBroadcast, HandleSend, HandleRename, Bye, Read,
              Start, Unregister, TypeOK
<1>3. CASE Work(c)
  BY <1>3 DEF Work, Ack, LogMessage, Snapshot, Expire, Finish, WriteTo, WriteFails, WriteExpired,
              TypeOK
<1>4. CASE ReadFails(c) \/ Exit(c) \/ CloseReplaced(c)
  BY <1>4 DEF ReadFails, Exit, CloseReplaced, Unregister, TypeOK
<1> QED
  BY <1>1, <1>2, <1>3, <1>4

(* Jobs of the three kinds. *)
LEMMA IdleFields == Idle.stage = "idle" /\ Idle.frame.id = 0 /\ Idle.frame.op = "none"
                    /\ Idle.to = {} /\ Idle.counter = "none"
  BY DEF Idle, NoFrame

LEMMA StagesTell ==
  ASSUME NEW c \in Conn, Fits(c)
  PROVE  /\ job[c].stage = "idle" => job[c] = Idle
         /\ job[c].stage \in {"ack", "snapshot", "expired"} => IsEvent(job[c])
         /\ job[c].stage = "log" => IsMessage(job[c])
         /\ job[c].frame.op = "msg" => IsMessage(job[c])
  BY IdleFields DEF Fits, IsEvent, IsMessage, EventOp

LEMMA NextJobsFit ==
  ASSUME TypeOK, HelloIsBlank, JobsFit, Next
  PROVE  JobsFit'
<1>0. PICK c \in Conn : \/ Handshake(c) \/ Dispatch(c) \/ Work(c) \/ ReadFails(c)
                        \/ Exit(c) \/ CloseReplaced(c)
  BY DEF Next
<1>1. \A d \in Conn \ {c} : Fits(d)'
  BY <1>0, StepOfOne DEF JobsFit, Fits, IsMessage, TypeOK
<1>2. SUFFICES Fits(c)'
  BY <1>1 DEF JobsFit
<1>3. Fits(c) /\ job[c] \in Job
  BY DEF JobsFit, TypeOK
<1>4. requests \in Nat
  BY DEF TypeOK
<1>5. ASSUME UNCHANGED <<job, requests>>, pc'[c] = pc[c] \/ job[c] = Idle PROVE Fits(c)'
  BY <1>3, <1>5 DEF Fits, IsMessage
<1>6. ASSUME NEW j, job' = [job EXCEPT ![c] = j], IsEvent(j) \/ j = Idle,
             pc'[c] \in {"serve", "leave"}
      PROVE  Fits(c)'
  <2>1. job'[c] = j
    BY <1>6 DEF TypeOK
  <2> QED
    BY <1>6, <2>1 DEF Fits, IsEvent
<1>7. ASSUME NEW op \in EventOp, NEW s, NEW k \in {"none", "joined", "left"}
      PROVE  IsEvent(Event(op, s, k))
  BY DEF IsEvent, Event
<1>8. ASSUME Unregister(c), job[c] = Idle, UNCHANGED requests \/ requests' = requests + 1
      PROVE  Fits(c)'
  <2> DEFINE e == IF client[c].role = "agent"
                  THEN Event("peer_left", client[c].sessionID, "left") ELSE Idle
  <2>1. IsEvent(e) \/ e = Idle
    BY <1>7 DEF EventOp
  <2>2. pc'[c] = "leave" /\ (UNCHANGED job \/ job' = [job EXCEPT ![c] = e])
    BY <1>8 DEF Unregister, TypeOK
  <2>3. CASE UNCHANGED job
    BY <1>8, <2>3 DEF Fits
  <2> HIDE DEF e
  <2> QED
    BY <1>6, <2>1, <2>2, <2>3
<1>9. CASE Handshake(c)
  <2>1. CASE Welcome(c)
    <3> DEFINE e == IF client[c].role = "agent"
                    THEN Event("peer_joined", client[c].sessionID, "joined") ELSE Idle
    <3>1. IsEvent(e) \/ e = Idle
      BY <1>7 DEF EventOp
    <3>2. pc'[c] = "serve" /\ job' = [job EXCEPT ![c] = e]
      BY <2>1 DEF Welcome, TypeOK
    <3> HIDE DEF e
    <3> QED
      BY <1>6, <3>1, <3>2
  <2>2. CASE pc[c] = "hello"
    <3>1. job[c] = Idle /\ UNCHANGED <<job, requests>>
      BY <1>9, <2>2 DEF HelloIsBlank, Handshake, RefuseHello, Welcome, WelcomeFails,
         AgentUnauthorized, AgentNameTaken, AgentAccepted, ControlRefused, ControlAccepted
    <3> QED
      BY <1>5, <3>1
  <2>3. CASE WelcomeFails(c)
    <3>1. UNCHANGED <<job, requests>> /\ job[c] = Idle
      BY <1>3, <2>3 DEF WelcomeFails, Fits
    <3> QED
      BY <1>5, <3>1
  <2> QED
    BY <1>9, <2>1, <2>2, <2>3 DEF Handshake, RefuseHello, AgentUnauthorized, AgentNameTaken,
       AgentAccepted, ControlRefused, ControlAccepted
<1>10. CASE Dispatch(c)
  <2>1. Read(c) /\ job[c] = Idle /\ pc[c] = "serve" /\ requests' = requests + 1
    BY <1>3, <1>10, StagesTell DEF Dispatch, Answer, Reject, HandleBroadcast, HandleSend,
       HandleRename, Bye, Read
  <2>2. ASSUME NEW to, NEW k \in {"sent", "broadcast"}, Start(c, Message(c, to, k)), UNCHANGED pc
        PROVE  Fits(c)'
    <3>1. job'[c] = Message(c, to, k)
      BY <2>2 DEF Start, TypeOK
    <3> QED
      BY <1>4, <2>1, <2>2, <3>1 DEF Message, Fits, IsMessage
  <2>3. CASE Answer(c) \/ Reject(c)
    BY <2>1, <2>3 DEF Answer, Reject, Fits
  <2>4. CASE HandleBroadcast(c) \/ \E t \in Target : HandleSend(c, t)
    BY <2>2, <2>4 DEF HandleBroadcast, HandleSend
  <2>5. ASSUME NEW n \in Name \cup {NoName}, HandleRename(c, n) PROVE Fits(c)'
    <3> DEFINE e == [Event("renamed", FromId(c), "none") EXCEPT !.stage = "ack"]
    <3>1. IsEvent(e)
      BY DEF IsEvent, Event, EventOp
    <3>2. pc'[c] = "serve" /\ (UNCHANGED job \/ job' = [job EXCEPT ![c] = e])
      BY <2>1, <2>5 DEF HandleRename, Start
    <3>3. CASE UNCHANGED job
      BY <2>1, <3>3 DEF Fits
    <3> HIDE DEF e
    <3> QED
      BY <1>6, <3>1, <3>2, <3>3
  <2>6. CASE Bye(c)
    BY <1>8, <2>1, <2>6 DEF Bye
  <2> QED
    BY <1>10, <2>3, <2>4, <2>5, <2>6 DEF Dispatch
<1>11. CASE Work(c)
  <2>1. UNCHANGED <<pc, requests>>
    BY <1>11 DEF Work, Ack, LogMessage, Snapshot, Expire, Finish, WriteTo, WriteFails, WriteExpired
  <2>2. ASSUME job'[c].frame = job[c].frame,
               \/ /\ IsEvent(job[c])
                  /\ \/ /\ job'[c].stage = "snapshot" /\ job'[c].to = {}
                        /\ job'[c].counter \in {"none", "joined", "left"}
                     \/ job'[c].stage \in {"write", "expired"} /\ job'[c].counter = "none"
               \/ /\ IsMessage(job[c])
                  /\ job'[c].stage = "write" /\ job'[c].counter = job[c].counter
        PROVE  Fits(c)'
    <3>1. pc'[c] = pc[c] /\ (pc[c] = "serve" \/ (IsEvent(job[c]) /\ pc[c] \in {"serve", "leave"}))
      BY <1>3, <2>1, <2>2, IdleFields DEF Fits, IsEvent, IsMessage, EventOp
    <3>2. CASE IsEvent(job[c]) /\ IsEvent(job[c])'
      BY <3>1, <3>2 DEF Fits
    <3>3. CASE IsMessage(job[c]) /\ IsMessage(job[c])'
      BY <3>1, <3>3 DEF Fits, IsEvent, IsMessage, EventOp
    <3> QED
      BY <2>1, <2>2, <3>2, <3>3 DEF IsEvent, IsMessage
  <2>3. CASE Ack(c)
    <3>1. IsEvent(job[c]) /\ job[c].counter = "none" /\ job[c].to = {}
      BY <1>3, <2>3, StagesTell DEF Ack, IsEvent
    <3>2. /\ job'[c].frame = job[c].frame /\ job'[c].stage = "snapshot"
          /\ job'[c].to = {} /\ job'[c].counter = "none"
      BY <1>3, <2>3, <3>1 DEF Ack, TypeOK, Job
    <3> QED
      BY <2>2, <3>1, <3>2
  <2>4. CASE LogMessage(c)
    <3>1. IsMessage(job[c])
      BY <1>3, <2>4, StagesTell DEF LogMessage
    <3>2. /\ job'[c].frame = job[c].frame /\ job'[c].stage = "write"
          /\ job'[c].counter = job[c].counter
      BY <1>3, <2>4 DEF LogMessage, TypeOK, Job
    <3> QED
      BY <2>2, <3>1, <3>2
  <2>5. CASE Snapshot(c)
    <3>1. IsEvent(job[c])
      BY <1>3, <2>5, StagesTell DEF Snapshot
    <3>2. /\ job'[c].frame = job[c].frame /\ job'[c].stage = "write"
          /\ job'[c].counter = "none"
      BY <1>3, <2>5 DEF Snapshot, TypeOK, Job
    <3> QED
      BY <2>2, <3>1, <3>2
  <2>6. CASE Expire(c)
    <3>1. IsEvent(job[c]) /\ job[c].counter = "none"
      BY <1>3, <2>6, IdleFields DEF Expire, Fits, IsEvent, IsMessage, EventOp
    <3>2. /\ job'[c].frame = job[c].frame /\ job'[c].stage = "expired"
          /\ job'[c].counter = "none"
      BY <1>3, <2>6, <3>1 DEF Expire, TypeOK, Job
    <3> QED
      BY <2>2, <3>1, <3>2
  <2>7. CASE Finish(c)
    BY <2>7 DEF Finish, Fits, TypeOK
  <2>8. ASSUME NEW d \in Conn, WriteTo(c, d) \/ WriteFails(c, d) \/ WriteExpired(c, d)
        PROVE  Fits(c)'
    <3>1. job[c].stage \in {"write", "expired"}
      BY <2>8 DEF WriteTo, WriteFails, WriteExpired
    <3>2. \/ IsEvent(job[c]) /\ job[c].counter = "none"
          \/ IsMessage(job[c]) /\ job[c].stage = "write"
      BY <1>3, <3>1, IdleFields DEF Fits, IsEvent, IsMessage
    <3>3. /\ job'[c].frame = job[c].frame /\ job'[c].stage = job[c].stage
          /\ job'[c].counter = job[c].counter
      BY <1>3, <2>8 DEF WriteTo, WriteFails, WriteExpired, TypeOK, Job
    <3> QED
      BY <2>2, <3>1, <3>2, <3>3
  <2> QED
    BY <1>11, <2>3, <2>4, <2>5, <2>6, <2>7, <2>8 DEF Work
<1>12. CASE ReadFails(c) \/ Exit(c) \/ CloseReplaced(c)
  <2>1. CASE ReadFails(c)
    <3>1. job[c] = Idle
      BY <1>3, <2>1, StagesTell DEF ReadFails
    <3> QED
      BY <1>8, <2>1, <3>1 DEF ReadFails
  <2>2. CASE Exit(c)
    <3>1. job[c] = Idle /\ UNCHANGED <<job, requests>>
      BY <1>3, <2>2, StagesTell DEF Exit
    <3> QED
      BY <1>5, <3>1
  <2>3. CASE CloseReplaced(c)
    <3>1. UNCHANGED <<job, pc, requests>>
      BY <2>3 DEF CloseReplaced
    <3> QED
      BY <1>5, <3>1
  <2> QED
    BY <1>12, <2>1, <2>2, <2>3
<1> QED
  BY <1>0, <1>9, <1>10, <1>11, <1>12

----------------------------------------------------------------------------
(* What a step of c does to its call. *)
Begins(c) ==
  /\ job[c] = Idle /\ pc[c] # "hello" /\ UNCHANGED <<received, log>>
  /\ \/ job'[c].frame.id = 0 /\ job'[c].to = {} /\ job'[c].stage # "log"
     \/ /\ job'[c].frame.id = requests + 1 /\ requests' = requests + 1
        /\ \/ \E a \in Agents : job'[c].to = {a}
           \/ \E s : job'[c].to = Others(s)

Proceeds(c) ==
  /\ UNCHANGED <<received, log>> /\ pc[c] # "hello"
  /\ job'[c].frame = job[c].frame
  /\ job[c].stage # "log" /\ job'[c].stage # "log"
  /\ \/ job'[c].to \subseteq job[c].to
     \/ job[c].frame.id = 0 /\ \E s : job'[c].to = Others(s)

Ends(c) == UNCHANGED <<received, log>> /\ job'[c] = Idle

LEMMA StepOfCall ==
  ASSUME TypeOK, HelloIsBlank, JobsFit, NEW c \in Conn,
         \/ Handshake(c) \/ Dispatch(c) \/ Work(c) \/ ReadFails(c) \/ Exit(c) \/ CloseReplaced(c)
  PROVE  \/ UNCHANGED <<job, received, log>>
         \/ Begins(c) \/ Proceeds(c) \/ Ends(c) \/ LogMessage(c)
         \/ \E d \in Conn : WriteTo(c, d)
<1>1. Fits(c) /\ job[c] \in Job
  BY DEF JobsFit, TypeOK
<1>2. \A j : job' = [job EXCEPT ![c] = j] => job'[c] = j
  BY DEF TypeOK
<1>3. \A op, s, k : Event(op, s, k).frame.id = 0 /\ Event(op, s, k).to = {}
                    /\ Event(op, s, k).stage = "snapshot"
  BY DEF Event
<1>4. ASSUME Unregister(c), UNCHANGED <<received, log>>, job[c] = Idle, pc[c] # "hello"
      PROVE  UNCHANGED <<job, received, log>> \/ Begins(c)
  BY <1>2, <1>3, <1>4, IdleFields DEF Unregister, Begins
<1>5. CASE Handshake(c)
  <2>1. CASE Welcome(c)
    <3>1. job[c] = Idle
      BY <1>1, <2>1 DEF Welcome, Fits
    <3> QED
      BY <1>2, <1>3, <2>1, <3>1, IdleFields DEF Welcome, Begins
  <2> QED
    BY <1>5, <2>1 DEF Handshake, RefuseHello, WelcomeFails, AgentUnauthorized, AgentNameTaken,
       AgentAccepted, ControlRefused, ControlAccepted
<1>6. CASE Dispatch(c)
  <2>1. job[c] = Idle /\ pc[c] = "serve" /\ requests' = requests + 1
    BY <1>1, <1>6, StagesTell DEF Dispatch, Answer, Reject, HandleBroadcast, HandleSend,
       HandleRename, Bye, Read
  <2>2. ASSUME NEW to, NEW k, Start(c, Message(c, to, k)), UNCHANGED <<received, log>>,
               (\E a \in Agents : to = {a}) \/ (\E s : to = Others(s))
        PROVE  Begins(c)
    <3>1. job'[c] = Message(c, to, k)
      BY <2>2, <1>2 DEF Start
    <3> QED
      BY <2>1, <2>2, <3>1 DEF Message, Begins
  <2>3. CASE Answer(c) \/ Reject(c)
    BY <2>3 DEF Answer, Reject
  <2>4. CASE HandleBroadcast(c)
    BY <2>2, <2>4 DEF HandleBroadcast
  <2>5. ASSUME NEW t \in Target, HandleSend(c, t) PROVE Begins(c)
    BY <2>2, <2>5 DEF HandleSend, Resolve, Others
  <2>6. ASSUME NEW n \in Name \cup {NoName}, HandleRename(c, n)
        PROVE  UNCHANGED <<job, received, log>> \/ Begins(c)
    <3> DEFINE e == [Event("renamed", FromId(c), "none") EXCEPT !.stage = "ack"]
    <3>1. e.frame.id = 0 /\ e.to = {} /\ e.stage = "ack"
      BY DEF Event
    <3>2. UNCHANGED <<received, log>> /\ (UNCHANGED job \/ job' = [job EXCEPT ![c] = e])
      BY <2>6 DEF HandleRename, Start
    <3> HIDE DEF e
    <3> QED
      BY <1>2, <2>1, <3>1, <3>2 DEF Begins
  <2>7. CASE Bye(c)
    BY <1>4, <2>1, <2>7 DEF Bye
  <2> QED
    BY <1>6, <2>3, <2>4, <2>5, <2>6, <2>7 DEF Dispatch
<1>7. CASE Work(c)
  <2>1. pc[c] # "hello"
    BY <1>7 DEF HelloIsBlank, Idle, Work, Ack, LogMessage, Snapshot, Expire, Finish, WriteTo,
       WriteFails, WriteExpired
  <2>2. CASE Ack(c) \/ Expire(c) \/ \E d \in Conn : WriteFails(c, d) \/ WriteExpired(c, d)
    BY <1>1, <2>1, <2>2 DEF Ack, Expire, WriteFails, WriteExpired, TypeOK, Job, Proceeds
  <2>3. CASE Snapshot(c)
    <3>1. job[c].frame.id = 0
      BY <1>1, <2>3, StagesTell DEF Snapshot, IsEvent
    <3>2. /\ job'[c].frame = job[c].frame /\ job'[c].stage = "write"
          /\ job'[c].to = Others(job[c].frame.sid)
      BY <1>1, <2>3 DEF Snapshot, TypeOK, Job
    <3> QED
      BY <2>1, <2>3, <3>1, <3>2 DEF Snapshot, Proceeds
  <2>4. CASE Finish(c)
    BY <1>2, <2>4 DEF Finish, Ends
  <2> QED
    BY <1>7, <2>2, <2>3, <2>4 DEF Work
<1>8. CASE ReadFails(c)
  <2>1. job[c] = Idle /\ pc[c] # "hello"
    BY <1>1, <1>8, StagesTell DEF ReadFails
  <2> QED
    BY <1>4, <1>8, <2>1 DEF ReadFails
<1>9. CASE Exit(c) \/ CloseReplaced(c)
  BY <1>9 DEF Exit, CloseReplaced
<1> QED
  BY <1>5, <1>6, <1>7, <1>8, <1>9

(* Nobody says hello twice, or changes its session after. *)
LEMMA SessionsStay ==
  ASSUME TypeOK, NEW c \in Conn,
         \/ Handshake(c) \/ Dispatch(c) \/ Work(c) \/ ReadFails(c) \/ Exit(c) \/ CloseReplaced(c),
         NEW d \in Conn, pc[d] # "hello"
  PROVE  pc'[d] # "hello" /\ client'[d].sessionID = client[d].sessionID
<1>1. CASE Handshake(c)
  BY <1>1 DEF Handshake, RefuseHello, Refuse, Welcome, WelcomeFails, AgentUnauthorized,
              AgentNameTaken, AgentAccepted, ControlRefused, ControlAccepted, TypeOK
<1>2. CASE Dispatch(c)
  <2>1. ASSUME NEW n \in Name \cup {NoName}, HandleRename(c, n)
        PROVE  pc'[d] = pc[d] /\ client'[d].sessionID = client[d].sessionID
    BY <2>1 DEF HandleRename, Agents, TypeOK, ClientState
  <2> QED
    BY <1>2, <2>1 DEF Dispatch, Answer, Reject, HandleBroadcast, HandleSend, Bye, Unregister, TypeOK
<1>3. CASE Work(c)
  BY <1>3 DEF Work, Ack, LogMessage, Snapshot, Expire, Finish, WriteTo, WriteFails, WriteExpired
<1>4. CASE ReadFails(c) \/ Exit(c) \/ CloseReplaced(c)
  BY <1>4 DEF ReadFails, Exit, CloseReplaced, Unregister, TypeOK
<1> QED
  BY <1>1, <1>2, <1>3, <1>4

----------------------------------------------------------------------------
(* Ids, targets and receivers. *)
LEMMA NextIdsAreFresh ==
  ASSUME TypeOK, HelloIsBlank, ControlsHearReplies, JobsFit, IdsAreFresh, Next
  PROVE  IdsAreFresh'
<1>0. PICK c \in Conn : \/ Handshake(c) \/ Dispatch(c) \/ Work(c) \/ ReadFails(c)
                        \/ Exit(c) \/ CloseReplaced(c)
  BY DEF Next
<1>1. /\ \A d \in Conn \ {c} : job'[d] = job[d]
      /\ \A d \in Conn : pc[d] # "hello" => pc'[d] # "hello"
      /\ requests \in Nat /\ requests' \in {requests, requests + 1}
      /\ 1 .. requests \subseteq 1 .. requests'
  BY <1>0, StepOfOne, SessionsStay DEF TypeOK
<1>2. \A d \in Conn : job[d].frame.id \in 0 .. requests
  BY <1>1, IdleFields DEF JobsFit, Fits, IsEvent, IsMessage
<1>3. CASE UNCHANGED <<job, received, log>>
  BY <1>1, <1>3 DEF IdsAreFresh
<1>4. ASSUME UNCHANGED <<received, log>>, job'[c].stage # "log" \/ job'[c].frame.id = requests + 1,
             \/ job'[c].frame.id = 0
             \/ job'[c].frame.id = job[c].frame.id
             \/ job'[c].frame.id = requests + 1
      PROVE  IdsAreFresh'
  <2>1. \A d \in Conn \ {c} : job'[d].frame.id = job'[c].frame.id => job'[c].frame.id = 0
    BY <1>1, <1>2, <1>4 DEF IdsAreFresh
  <2>2. \A d, e \in Conn :
           job'[d].frame.id = job'[e].frame.id /\ job'[d].frame.id # 0 => d = e
    BY <1>1, <2>1 DEF IdsAreFresh
  <2>3. job'[c].stage = "log" => job'[c].frame.id \notin log
    BY <1>1, <1>4 DEF IdsAreFresh
  <2> QED
    BY <1>1, <1>4, <2>2, <2>3 DEF IdsAreFresh
<1>5. CASE Begins(c)
  BY <1>1, <1>4, <1>5 DEF Begins
<1>6. CASE Proceeds(c)
  BY <1>4, <1>6 DEF Proceeds
<1>7. CASE Ends(c)
  BY <1>4, <1>7, IdleFields DEF Ends
<1>8. CASE LogMessage(c)
  <2>1. job[c].frame.id \in 1 .. requests
    BY <1>8, StagesTell DEF LogMessage, JobsFit, IsMessage
  <2>2. job'[c].frame = job[c].frame /\ job'[c].stage = "write"
    BY <1>8 DEF LogMessage, TypeOK, Job
  <2>3. UNCHANGED <<pc, received, requests>> /\ log' \subseteq log \cup {job[c].frame.id}
    BY <1>8 DEF LogMessage
  <2>4. \A d \in Conn \ {c} : job[d].stage = "log" => job[d].frame.id \notin log'
    BY <2>1, <2>3 DEF IdsAreFresh
  <2> QED
    BY <1>1, <2>1, <2>2, <2>3, <2>4 DEF IdsAreFresh
<1>9. ASSUME NEW d \in Conn, WriteTo(c, d) PROVE IdsAreFresh'
  <2>1. job'[c].frame = job[c].frame /\ job'[c].stage = job[c].stage /\ job[c].stage # "log"
    BY <1>9 DEF WriteTo, TypeOK, Job
  <2>2. UNCHANGED <<log, pc, requests>> /\ d \in job[c].to
    BY <1>9 DEF WriteTo
  <2>3. /\ \A e \in Conn \ {d} : received'[e] = received[e]
        /\ received'[d] \subseteq received[d] \cup 1 .. requests
    <3>1. CASE job[c].frame.op = "msg"
      <4>1. job[c].frame.id \in 1 .. requests
        BY <3>1, StagesTell DEF JobsFit, IsMessage
      <4> QED
        BY <1>9, <3>1, <4>1 DEF WriteTo, TypeOK
    <3>2. CASE job[c].frame.op # "msg"
      BY <1>9, <3>2 DEF WriteTo
    <3> QED
      BY <3>1, <3>2
  <2>4. pc[d] # "hello"
    BY <2>2 DEF ControlsHearReplies, HelloIsBlank
  <2> QED
    BY <1>1, <2>1, <2>2, <2>3, <2>4 DEF IdsAreFresh
<1> QED
  BY <1>0, <1>3, <1>5, <1>6, <1>7, <1>8, <1>9, StepOfCall

LEMMA AgentsDiffer ==
  ASSUME NEW a \in Agents, NEW b \in Agents, client[a].sessionID = client[b].sessionID
  PROVE  a = b
  BY DEF Agents

(* No session is reached twice by a message: the invariant in terms of who *)
(* has it and who is about to get it.                                      *)
Has(m, d) == d \in Conn /\ m \in received[d]
Due(m, d) == \E b \in Conn : job[b].frame.id = m /\ d \in job[b].to

AtMostOnce ==
  \A m : \A c, d \in Conn : client[c].sessionID = client[d].sessionID =>
      /\ Has(m, c) /\ Has(m, d) => c = d
      /\ ~(Has(m, c) /\ Due(m, d))

LEMMA AtMostOnceSays == AtMostOnce <=> AtMostOncePerSession
<1>1. ASSUME AtMostOnce PROVE AtMostOncePerSession
  BY <1>1 DEF AtMostOnce, AtMostOncePerSession, Has, Due
<1>2. ASSUME AtMostOncePerSession PROVE AtMostOnce
  BY <1>2 DEF AtMostOnce, AtMostOncePerSession, Has, Due
<1> QED
  BY <1>1, <1>2

LEMMA NextAtMostOnce ==
  ASSUME TypeOK, HelloIsBlank, ControlsHearReplies, JobsFit, IdsAreFresh, TargetsDiffer,
         AtMostOnce, Next
  PROVE  TargetsDiffer' /\ AtMostOnce'
<1>0. PICK c \in Conn : \/ Handshake(c) \/ Dispatch(c) \/ Work(c) \/ ReadFails(c)
                        \/ Exit(c) \/ CloseReplaced(c)
  BY DEF Next
<1>1. /\ \A d \in Conn \ {c} : job'[d] = job[d]
      /\ \A d \in Conn : pc[d] # "hello" => client'[d].sessionID = client[d].sessionID
      /\ requests \in Nat
      /\ \A d \in Conn : job[d].to \subseteq Conn
  BY <1>0, StepOfOne, SessionsStay DEF TypeOK, Job
<1>2. /\ \A d, b \in Conn : d \in job[b].to => pc[d] # "hello"
      /\ \A d \in Conn : received[d] # {} => pc[d] # "hello"
      /\ \A a \in Agents : pc[a] # "hello"
  BY DEF ControlsHearReplies, HelloIsBlank, IdsAreFresh, Agents
<1>3. \A m, d : Has(m, d) => m \in 1 .. requests
  BY DEF Has, IdsAreFresh
<1>4. ASSUME UNCHANGED received,
             \/ job'[c].to \subseteq job[c].to /\ job'[c].frame.id = job[c].frame.id
             \/ job'[c].to = {}
             \/ /\ job'[c].frame.id \in {0, requests + 1} /\ job'[c].to \subseteq Agents
      PROVE  TargetsDiffer' /\ AtMostOnce'
  <2>1. \A b \in Conn : \A d, e \in job'[b].to :
           /\ d \in Conn /\ pc[d] # "hello" /\ e \in Conn /\ pc[e] # "hello"
           /\ client[d].sessionID = client[e].sessionID => d = e
    <3> SUFFICES ASSUME NEW b \in Conn, NEW d \in job'[b].to, NEW e \in job'[b].to
                 PROVE  /\ d \in Conn /\ pc[d] # "hello" /\ e \in Conn /\ pc[e] # "hello"
                        /\ client[d].sessionID = client[e].sessionID => d = e
      OBVIOUS
    <3>1. CASE d \in job[b].to /\ e \in job[b].to
      BY <1>1, <1>2, <3>1 DEF TargetsDiffer
    <3>2. CASE d \in Agents /\ e \in Agents
      BY <1>2, <3>2, AgentsDiffer DEF Agents
    <3> QED
      BY <1>1, <1>4, <3>1, <3>2
  <2>2. TargetsDiffer'
    BY <1>1, <2>1 DEF TargetsDiffer
  <2>3. \A m, d : m \in 1 .. requests /\ Due(m, d)' => Due(m, d)
    BY <1>1, <1>4 DEF Due
  <2>4. AtMostOnce'
    <3> SUFFICES ASSUME NEW m, NEW d \in Conn, NEW e \in Conn,
                        client'[d].sessionID = client'[e].sessionID, m \in received[d]
                 PROVE  (m \in received[e] => d = e) /\ ~Due(m, e)'
      BY <1>4 DEF AtMostOnce, Has
    <3>1. m \in 1 .. requests /\ client'[d].sessionID = client[d].sessionID
      BY <1>1, <1>2, <1>3 DEF Has
    <3>2. ASSUME m \in received[e] PROVE d = e
      <4>1. client'[e].sessionID = client[e].sessionID
        BY <1>1, <1>2, <3>2
      <4> QED
        BY <3>1, <3>2, <4>1 DEF AtMostOnce, Has
    <3>3. ASSUME Due(m, e)' PROVE FALSE
      <4>1. Due(m, e)
        BY <2>3, <3>1, <3>3
      <4>2. client'[e].sessionID = client[e].sessionID
        BY <1>1, <1>2, <4>1 DEF Due
      <4> QED
        BY <3>1, <4>1, <4>2 DEF AtMostOnce, Has
    <3> QED
      BY <3>2, <3>3
  <2> QED
    BY <2>2, <2>4
<1>5. CASE UNCHANGED <<job, received, log>>
  BY <1>4, <1>5
<1>6. CASE Begins(c)
  BY <1>4, <1>6 DEF Begins, Others
<1>7. CASE Proceeds(c)
  BY <1>4, <1>7 DEF Proceeds, Others
<1>8. CASE Ends(c)
  BY <1>4, <1>8, IdleFields DEF Ends
<1>9. CASE LogMessage(c)
  <2>1. job'[c].frame = job[c].frame /\ job'[c].to = job[c].to /\ UNCHANGED received
    BY <1>9 DEF LogMessage, TypeOK, Job
  <2> QED
    BY <1>4, <2>1
<1>10. ASSUME NEW d \in Conn, WriteTo(c, d) PROVE TargetsDiffer' /\ AtMostOnce'
  <2>1. /\ job'[c].frame = job[c].frame /\ job'[c].to = job[c].to \ {d}
        /\ d \in job[c].to /\ UNCHANGED client
    BY <1>10 DEF WriteTo, TypeOK, Job
  <2>2. CASE job[c].frame.op # "msg"
    <3>1. UNCHANGED received
      BY <1>10, <2>2 DEF WriteTo
    <3> QED
      BY <1>4, <2>1, <3>1
  <2>3. CASE job[c].frame.op = "msg"
    <3> DEFINE id == job[c].frame.id
    <3>1. id # 0
      BY <2>3, StagesTell DEF JobsFit, IsMessage
    <3>2. \A m, e : Has(m, e)' <=> Has(m, e) \/ (m = id /\ e = d)
      BY <1>10, <2>3 DEF WriteTo, TypeOK, Has
    <3>3. \A m, e : Due(m, e)' => Due(m, e) /\ (m = id => e # d /\ e \in job[c].to)
      BY <1>1, <2>1, <3>1 DEF Due, IdsAreFresh
    <3>4. Due(id, d)
      BY <2>1 DEF Due
    <3>5. TargetsDiffer'
      BY <1>1, <2>1 DEF TargetsDiffer
    <3>6. \A e \in job[c].to : client[e].sessionID = client[d].sessionID => e = d
      BY <2>1 DEF TargetsDiffer
    <3> HIDE DEF id
    <3>7. AtMostOnce'
      <4> SUFFICES ASSUME NEW m, NEW a \in Conn, NEW b \in Conn,
                          client[a].sessionID = client[b].sessionID, Has(m, a)'
                   PROVE  (Has(m, b)' => a = b) /\ ~Due(m, b)'
        BY <2>1 DEF AtMostOnce
      <4>1. CASE Has(m, a) /\ ~(m = id /\ a = d)
        <5>1. Has(m, b)' => a = b
          BY <3>2, <3>4, <4>1 DEF AtMostOnce
        <5> QED
          BY <3>3, <4>1, <5>1 DEF AtMostOnce
      <4>2. CASE m = id /\ a = d
        <5>1. ~Has(m, b)
          BY <3>4, <4>2 DEF AtMostOnce
        <5>2. ~Due(m, b)'
          BY <3>3, <3>6, <4>2
        <5> QED
          BY <3>2, <4>2, <5>1, <5>2
      <4> QED
        BY <3>2, <4>1, <4>2
    <3> QED
      BY <3>5, <3>7
  <2> QED
    BY <2>2, <2>3
<1> QED
  BY <1>0, <1>5, <1>6, <1>7, <1>8, <1>9, <1>10, StepOfCall

----------------------------------------------------------------------------
(* The totals. *)
LEMMA TotalsFinite ==
  ASSUME TypeOK, HelloIsBlank, IsFiniteSet(Engaged)
  PROVE  /\ IsFiniteSet(Counted) /\ IsFiniteSet(Leaving) /\ IsFiniteSet(Busy)
         /\ Cardinality(Counted) \in Nat /\ Cardinality(Leaving) \in Nat
         /\ Cardinality(Busy) \in Nat
<1>1. Counted \subseteq Engaged /\ Leaving \subseteq Engaged /\ Busy \subseteq Engaged
  BY IdleFields DEF Counted, Leaving, Busy, Engaged, Agents, HelloIsBlank
<1> QED
  BY <1>1, FS_Subset, FS_CardinalityType

(* How the size of a set changes when one member comes or goes. *)
LEMMA OneMore ==
  ASSUME NEW S, NEW T, NEW x, IsFiniteSet(S), T = S \cup {x}, x \notin S
  PROVE  Cardinality(T) = Cardinality(S) + 1 /\ IsFiniteSet(T)
  BY FS_AddElement

LEMMA OneLess ==
  ASSUME NEW S, NEW T, NEW x, IsFiniteSet(S), T = S \ {x}, x \in S
  PROVE  Cardinality(T) = Cardinality(S) - 1 /\ IsFiniteSet(T)
  BY FS_RemoveElement

LEMMA NoMore ==
  ASSUME NEW S, NEW T, IsFiniteSet(S), T \subseteq S
  PROVE  Cardinality(T) <= Cardinality(S) /\ IsFiniteSet(T)
  BY FS_Subset

(* Who is an agent changes only by a hello or a goodbye. *)
LEMMA AgentsStay ==
  ASSUME TypeOK, NEW c \in Conn, UNCHANGED registry,
         \A d \in Conn : /\ client'[d].role = client[d].role
                         /\ client'[d].sessionID = client[d].sessionID
  PROVE  Agents' = Agents
  BY DEF Agents

LEMMA BumpIs ==
  ASSUME TypeOK, NEW k \in Counter
  PROVE  \A i \in Counter : Bump(k)[i] = IF i = k THEN stats[i] + 1 ELSE stats[i]
  BY DEF Bump, TypeOK

LEMMA NextEngaged ==
  ASSUME TypeOK, IsFiniteSet(Engaged), Next
  PROVE  IsFiniteSet(Engaged')
<1>0. PICK c \in Conn : \/ Handshake(c) \/ Dispatch(c) \/ Work(c) \/ ReadFails(c)
                        \/ Exit(c) \/ CloseReplaced(c)
  BY DEF Next
<1>1. Engaged' \subseteq Engaged \cup {c}
  BY <1>0, StepOfOne DEF Engaged
<1>2. IsFiniteSet(Engaged \cup {c})
  BY FS_AddElement
<1> QED
  BY <1>1, <1>2, NoMore

(* A step that lets no agent be counted or leave anew, and counts none. *)
LEMMA JoinsKept ==
  ASSUME TypeOK, HelloIsBlank, IsFiniteSet(Engaged), JoinsBalance, TypeOK',
         Leaving' \subseteq Leaving, Counted' \subseteq Counted,
         stats'["left"] = stats["left"], stats'["joined"] = stats["joined"]
  PROVE  JoinsBalance'
<1>1. /\ stats["left"] \in Nat /\ stats["joined"] \in Nat
      /\ Cardinality(Counted) \in Nat /\ Cardinality(Leaving) \in Nat
      /\ IsFiniteSet(Counted) /\ IsFiniteSet(Leaving)
  BY TotalsFinite DEF TypeOK, Counter
<1>2. /\ Cardinality(Counted') <= Cardinality(Counted) /\ IsFiniteSet(Counted')
      /\ Cardinality(Leaving') <= Cardinality(Leaving) /\ IsFiniteSet(Leaving')
  BY <1>1, NoMore
<1>3. Cardinality(Counted') \in Nat /\ Cardinality(Leaving') \in Nat
  BY <1>2, FS_CardinalityType
<1> QED
  BY <1>1, <1>2, <1>3 DEF JoinsBalance

LEMMA UnregisterJoins ==
  ASSUME TypeOK, TypeOK', HelloIsBlank, IsFiniteSet(Engaged), JoinsBalance,
         NEW c \in Conn, Unregister(c), pc[c] = "serve", job[c] = Idle,
         UNCHANGED <<client, stats>>
  PROVE  JoinsBalance'
<1>1. /\ \A d \in Conn \ {c} : pc'[d] = pc[d] /\ job'[d] = job[d]
      /\ pc'[c] = "leave" /\ job[c].counter = "none"
      /\ stats["left"] \in Nat /\ stats["joined"] \in Nat
  BY IdleFields DEF Unregister, TypeOK, Counter
<1>2. CASE ~Owns(c)
  <2>1. UNCHANGED <<registry, job>>
    BY <1>2 DEF Unregister
  <2>2. Leaving' \subseteq Leaving /\ Counted' \subseteq Counted
    BY <1>1, <1>2, <2>1 DEF Leaving, Counted, Agents, Owns
  <2> QED
    BY <2>2, JoinsKept
<1>3. CASE Owns(c)
  <2>1. \A d \in Conn \ {c} : registry'[client[d].sessionID] = d
                              => registry[client[d].sessionID] = d
    <3>1. \A t \in SessionId : registry'[t] \in {registry[t], NoConn}
      BY <1>3 DEF Unregister, TypeOK
    <3>2. \A d \in Conn : client[d].sessionID \in SessionId /\ d # NoConn
      BY ConstantsAssumption DEF TypeOK, ClientState
    <3> QED
      BY <3>1, <3>2
  <2>2. registry'[client[c].sessionID] # c
    <3>1. client[c].sessionID \in SessionId
      BY DEF TypeOK, ClientState
    <3> QED
      BY <1>3, <3>1, ConstantsAssumption DEF Unregister, TypeOK
  <2>3. Counted' \subseteq Counted \ {c}
    BY <1>1, <2>1, <2>2 DEF Counted, Agents
  <2>4. CASE client[c].role # "agent"
    <3>1. job'[c] = Idle
      BY <1>3, <2>4 DEF Unregister, TypeOK
    <3>2. Leaving' \subseteq Leaving
      BY <1>1, <3>1 DEF Leaving
    <3> QED
      BY <2>3, <3>2, JoinsKept
  <2>5. CASE client[c].role = "agent"
    <3>1. job'[c].counter = "left"
      BY <1>3, <2>5 DEF Unregister, TypeOK, Event
    <3>2. Leaving' = Leaving \cup {c} /\ c \notin Leaving
      BY <1>1, <3>1 DEF Leaving
    <3>3. c \in Counted
      BY <1>1, <1>3, <2>5 DEF Counted, Agents, Owns
    <3>4. /\ IsFiniteSet(Counted) /\ IsFiniteSet(Leaving)
          /\ Cardinality(Counted) \in Nat /\ Cardinality(Leaving) \in Nat
      BY TotalsFinite
    <3>5. Cardinality(Leaving') = Cardinality(Leaving) + 1
      BY <3>2, <3>4, OneMore
    <3>6. /\ Cardinality(Counted \ {c}) = Cardinality(Counted) - 1
          /\ IsFiniteSet(Counted \ {c})
      BY <3>3, <3>4, OneLess
    <3>7. Cardinality(Counted') <= Cardinality(Counted \ {c}) /\ Cardinality(Counted') \in Nat
      BY <2>3, <3>6, NoMore, FS_CardinalityType
    <3> QED
      BY <1>1, <3>4, <3>5, <3>6, <3>7 DEF JoinsBalance
  <2> QED
    BY <2>4, <2>5
<1> QED
  BY <1>2, <1>3

(* Registering a new connection, or none, makes nobody else an agent. *)
LEMMA HandshakeAgents ==
  ASSUME TypeOK, HelloIsBlank, NEW c \in Conn, Handshake(c)
  PROVE  Agents' \subseteq Agents \cup (IF pc'[c] = "welcome" THEN {c} ELSE {})
<1> USE ConstantsAssumption
<1>1. \A d \in Conn : client[d].sessionID \in SessionId /\ d # NoConn
  BY DEF TypeOK, ClientState
<1>2. CASE RefuseHello(c) \/ Welcome(c) \/ WelcomeFails(c)
  BY <1>2 DEF RefuseHello, Welcome, WelcomeFails, Agents
<1>3. ASSUME NEW h \in Hellos,
             AgentUnauthorized(c, h) \/ AgentNameTaken(c, h) \/ ControlRefused(c, h)
      PROVE  Agents' \subseteq Agents
  <2>1. UNCHANGED client /\ \A t \in SessionId : registry'[t] \in {registry[t], NoConn}
    BY <1>3, HelloSessionType DEF AgentUnauthorized, AgentNameTaken, ControlRefused, TypeOK
  <2> QED
    BY <1>1, <2>1 DEF Agents
<1>4. ASSUME NEW h \in Hellos, AgentAccepted(c, h) \/ ControlAccepted(c, h)
      PROVE  Agents' \subseteq Agents \cup {c} /\ pc'[c] = "welcome"
  <2>1. /\ \A t \in SessionId : registry'[t] \in {registry[t], c}
        /\ \A d \in Conn \ {c} : client'[d] = client[d]
        /\ pc'[c] = "welcome"
    BY <1>4, HelloSessionType DEF AgentAccepted, ControlAccepted, TypeOK
  <2> QED
    BY <1>1, <2>1 DEF Agents
<1> QED
  BY <1>2, <1>3, <1>4 DEF Handshake

LEMMA NextJoinsBalance ==
  ASSUME TypeOK, TypeOK', HelloIsBlank, JobsFit, IsFiniteSet(Engaged), JoinsBalance, Next
  PROVE  JoinsBalance'
<1>0. PICK c \in Conn : \/ Handshake(c) \/ Dispatch(c) \/ Work(c) \/ ReadFails(c)
                        \/ Exit(c) \/ CloseReplaced(c)
  BY DEF Next
<1>1. /\ \A d \in Conn \ {c} : pc'[d] = pc[d] /\ job'[d] = job[d]
      /\ Fits(c) /\ job[c] \in Job
      /\ stats["left"] \in Nat /\ stats["joined"] \in Nat
      /\ Agents \subseteq Conn /\ Agents' \subseteq Conn
  BY <1>0, StepOfOne DEF JobsFit, TypeOK, Counter, Agents
<1>2. /\ IsFiniteSet(Counted) /\ IsFiniteSet(Leaving)
      /\ Cardinality(Counted) \in Nat /\ Cardinality(Leaving) \in Nat
  BY TotalsFinite
<1>3. ASSUME Agents' \subseteq Agents, UNCHANGED pc, job'[c].counter # "left",
             job[c].counter # "joined" \/ job'[c].counter = "joined",
             stats'["left"] = stats["left"], stats'["joined"] = stats["joined"]
      PROVE  JoinsBalance'
  <2>1. Leaving' \subseteq Leaving /\ Counted' \subseteq Counted
    BY <1>1, <1>3 DEF Leaving, Counted
  <2> QED
    BY <1>3, <2>1, JoinsKept
<1>4. CASE Handshake(c)
  <2>1. CASE Welcome(c)
    <3>1. job[c] = Idle /\ Agents' = Agents /\ UNCHANGED stats
      BY <1>1, <2>1 DEF Welcome, Fits, Agents
    <3>2. /\ client[c].role = "agent" => job'[c].counter = "joined"
          /\ client[c].role # "agent" => job'[c].counter = "none"
      BY <2>1, IdleFields DEF Welcome, Event, TypeOK
    <3>3. Leaving' \subseteq Leaving
      BY <1>1, <3>2 DEF Leaving
    <3>4. Counted' \subseteq Counted
      BY <1>1, <3>1, <3>2 DEF Counted, Agents
    <3> QED
      BY <3>1, <3>3, <3>4, JoinsKept
  <2>2. CASE ~Welcome(c)
    <3>1. UNCHANGED job /\ pc'[c] \in {"welcome", "done"}
      BY <1>4, <2>2 DEF Handshake, RefuseHello, Refuse, WelcomeFails, AgentUnauthorized,
         AgentNameTaken, AgentAccepted, ControlRefused, ControlAccepted, TypeOK
    <3>2. stats'["left"] = stats["left"] /\ stats'["joined"] = stats["joined"]
      BY <1>4, <2>2, BumpIs DEF Handshake, RefuseHello, WelcomeFails, AgentUnauthorized,
         AgentNameTaken, AgentAccepted, ControlRefused, ControlAccepted, Counter
    <3>3. Leaving' \subseteq Leaving /\ Counted' \subseteq Counted
      BY <1>1, <1>4, <3>1, HandshakeAgents DEF Leaving, Counted
    <3> QED
      BY <3>2, <3>3, JoinsKept
  <2> QED
    BY <2>1, <2>2
<1>5. CASE Dispatch(c)
  <2>1. job[c] = Idle /\ pc[c] = "serve" /\ job[c].counter = "none"
    BY <1>1, <1>5, StagesTell, IdleFields DEF Dispatch, Answer, Reject, HandleBroadcast,
       HandleSend, HandleRename, Bye, Read
  <2>2. CASE Bye(c)
    BY <2>1, <2>2, UnregisterJoins DEF Bye
  <2>3. CASE ~Bye(c)
    <3>1. UNCHANGED <<registry, pc>>
      BY <1>5, <2>3 DEF Dispatch, Answer, Reject, HandleBroadcast, HandleSend, HandleRename
    <3>2. \A d \in Conn : /\ client'[d].role = client[d].role
                          /\ client'[d].sessionID = client[d].sessionID
      <4>1. ASSUME NEW n \in Name \cup {NoName}, HandleRename(c, n)
            PROVE  \A d \in Conn : /\ client'[d].role = client[d].role
                                   /\ client'[d].sessionID = client[d].sessionID
        <5>1. \A d \in Conn : client'[d] \in {client[d], [client[d] EXCEPT !.name = n]}
          BY <4>1 DEF HandleRename, Agents, TypeOK, ClientState
        <5> QED
          BY <5>1 DEF TypeOK, ClientState
      <4> QED
        BY <1>5, <2>3, <4>1 DEF Dispatch, Answer, Reject, HandleBroadcast, HandleSend
    <3>3. stats'["left"] = stats["left"] /\ stats'["joined"] = stats["joined"]
      BY <1>5, <2>3, BumpIs
         DEF Dispatch, Answer, Reject, HandleBroadcast, HandleSend, HandleRename, Counter
    <3>4. job'[c].counter # "left"
      <4>1. ASSUME NEW n \in Name \cup {NoName}, HandleRename(c, n)
            PROVE  job'[c].counter # "left"
        BY <2>1, <4>1 DEF HandleRename, Start, Event, TypeOK
      <4>2. CASE HandleBroadcast(c) \/ \E t \in Target : HandleSend(c, t)
        BY <4>2 DEF HandleBroadcast, HandleSend, Start, Message, TypeOK
      <4> QED
        BY <1>5, <2>1, <2>3, <4>1, <4>2 DEF Dispatch, Answer, Reject
    <3> QED
      BY <1>3, <2>1, <3>1, <3>2, <3>3, <3>4, AgentsStay
  <2> QED
    BY <2>2, <2>3
<1>6. CASE Work(c)
  <2>0. UNCHANGED pc /\ Agents' = Agents
    BY <1>6 DEF Work, Ack, LogMessage, Snapshot, Expire, Finish, WriteTo, WriteFails,
       WriteExpired, Agents
  <2>1. CASE Snapshot(c)
    <3>1. /\ job[c].counter \in {"none", "joined", "left"}
          /\ job'[c].counter = "none"
      BY <1>1, <2>1, StagesTell DEF Snapshot, IsEvent, TypeOK, Job
    <3>2. pc[c] # "hello"
      BY <2>1 DEF Snapshot, HelloIsBlank, Idle
    <3>3. CASE job[c].counter = "none"
      BY <1>3, <2>0, <2>1, <3>1, <3>3 DEF Snapshot, Bump, Counter
    <3>4. CASE job[c].counter = "joined"
      <4>1. stats'["left"] = stats["left"] /\ stats'["joined"] = stats["joined"] + 1
        BY <2>1, <3>4, BumpIs DEF Snapshot, Counter
      <4>2. Leaving' = Leaving
        BY <1>1, <3>1, <3>4 DEF Leaving
      <4>3. Counted' \subseteq Counted \cup {c} /\ c \notin Counted
        BY <1>1, <2>0, <3>4 DEF Counted
      <4>4. /\ Cardinality(Counted \cup {c}) = Cardinality(Counted) + 1
            /\ IsFiniteSet(Counted \cup {c})
        BY <1>2, <4>3, OneMore
      <4>5. /\ Cardinality(Counted') <= Cardinality(Counted \cup {c})
            /\ Cardinality(Counted') \in Nat
        BY <4>3, <4>4, NoMore, FS_CardinalityType
      <4> QED
        BY <1>1, <1>2, <4>1, <4>2, <4>4, <4>5 DEF JoinsBalance
    <3>5. CASE job[c].counter = "left"
      <4>1. stats'["left"] = stats["left"] + 1 /\ stats'["joined"] = stats["joined"]
        BY <2>1, <3>5, BumpIs DEF Snapshot, Counter
      <4>2. Leaving' = Leaving \ {c} /\ c \in Leaving
        BY <1>1, <3>1, <3>5 DEF Leaving
      <4>3. Counted' = Counted
        BY <1>1, <2>0, <3>1, <3>5 DEF Counted
      <4>4. Cardinality(Leaving') = Cardinality(Leaving) - 1
        BY <1>2, <4>2, OneLess
      <4> QED
        BY <1>1, <1>2, <4>1, <4>3, <4>4 DEF JoinsBalance
    <3> QED
      BY <3>1, <3>3, <3>4, <3>5
  <2>2. CASE Finish(c)
    <3>1. job[c].counter \in {"none", "sent", "broadcast"} /\ job'[c].counter = "none"
      BY <1>1, <2>2, IdleFields DEF Finish, Fits, IsEvent, IsMessage, TypeOK
    <3>2. stats'["left"] = stats["left"] /\ stats'["joined"] = stats["joined"]
      BY <2>2, <3>1, BumpIs DEF Finish, Counter, Bump
    <3> QED
      BY <1>3, <2>0, <3>1, <3>2
  <2>3. CASE ~Snapshot(c) /\ ~Finish(c)
    <3>1. UNCHANGED stats /\ job'[c].counter = job[c].counter
      BY <1>1, <1>6, <2>3 DEF Work, Ack, LogMessage, Expire, WriteTo, WriteFails, WriteExpired,
         TypeOK, Job
    <3>2. Leaving' \subseteq Leaving /\ Counted' \subseteq Counted
      BY <1>1, <2>0, <3>1 DEF Leaving, Counted
    <3> QED
      BY <3>1, <3>2, JoinsKept
  <2> QED
    BY <2>1, <2>2, <2>3
<1>7. CASE ReadFails(c)
  <2>1. job[c] = Idle /\ pc[c] = "serve"
    BY <1>1, <1>7, StagesTell DEF ReadFails
  <2> QED
    BY <1>7, <2>1, UnregisterJoins DEF ReadFails
<1>8. CASE Exit(c) \/ CloseReplaced(c)
  <2>1. UNCHANGED <<job, stats, registry, client>> /\ pc'[c] \in {pc[c], "done"}
    BY <1>8 DEF Exit, CloseReplaced, TypeOK
  <2>2. Leaving' \subseteq Leaving /\ Counted' \subseteq Counted
    BY <1>1, <2>1 DEF Leaving, Counted, Agents
  <2> QED
    BY <2>1, <2>2, JoinsKept
<1> QED
  BY <1>0, <1>4, <1>5, <1>6, <1>7, <1>8

(* Each message is in the log or not yet, and counted or still busy. *)
LEMMA NextLogBalance ==
  ASSUME TypeOK, TypeOK', HelloIsBlank, JobsFit, IdsAreFresh, IsFiniteSet(Engaged),
         IsFiniteSet(log), LogMayFail \/ LogBalance, Next
  PROVE  IsFiniteSet(log') /\ (LogMayFail \/ LogBalance')
<1>0. PICK c \in Conn : \/ Handshake(c) \/ Dispatch(c) \/ Work(c) \/ ReadFails(c)
                        \/ Exit(c) \/ CloseReplaced(c)
  BY DEF Next
<1>1. /\ \A d \in Conn \ {c} : job'[d] = job[d]
      /\ Fits(c) /\ job[c] \in Job
      /\ stats["sent"] \in Nat /\ stats["broadcast"] \in Nat
      /\ \A j : job' = [job EXCEPT ![c] = j] => job'[c] = j
  BY <1>0, StepOfOne DEF JobsFit, TypeOK, Counter
<1>2. /\ IsFiniteSet(Busy) /\ Cardinality(Busy) \in Nat
      /\ IsFiniteSet(log) /\ Cardinality(log) \in Nat
  BY TotalsFinite, FS_CardinalityType
<1>3. ASSUME UNCHANGED log, stats'["sent"] = stats["sent"],
             stats'["broadcast"] = stats["broadcast"],
             c \in Busy <=> job'[c].stage # "log" /\ job'[c].counter \in {"sent", "broadcast"}
      PROVE  IsFiniteSet(log') /\ (LogMayFail \/ LogBalance')
  <2>1. Busy' = Busy
    BY <1>1, <1>3 DEF Busy
  <2> QED
    BY <1>3, <2>1 DEF LogBalance
<1>4. c \in Busy <=> job[c].stage # "log" /\ job[c].counter \in {"sent", "broadcast"}
  BY DEF Busy
<1>5. ASSUME Unregister(c), job[c] = Idle, UNCHANGED <<log, stats>>
      PROVE  IsFiniteSet(log') /\ (LogMayFail \/ LogBalance')
  <2>1. job'[c].counter \in {"none", "left"}
    BY <1>1, <1>5, IdleFields DEF Unregister, Event
  <2> QED
    BY <1>3, <1>4, <1>5, <2>1, IdleFields
<1>6. CASE Handshake(c)
  <2>1. CASE Welcome(c)
    <3>1. job[c] = Idle /\ job'[c].counter \in {"none", "joined"} /\ UNCHANGED <<log, stats>>
      BY <1>1, <2>1, IdleFields DEF Welcome, Fits, Event
    <3> QED
      BY <1>3, <1>4, <3>1, IdleFields
  <2>2. CASE ~Welcome(c)
    <3>1. UNCHANGED <<job, log>>
      BY <1>6, <2>2 DEF Handshake, RefuseHello, WelcomeFails, AgentUnauthorized,
         AgentNameTaken, AgentAccepted, ControlRefused, ControlAccepted
    <3>2. stats'["sent"] = stats["sent"] /\ stats'["broadcast"] = stats["broadcast"]
      BY <1>6, <2>2, BumpIs DEF Handshake, RefuseHello, WelcomeFails, AgentUnauthorized,
         AgentNameTaken, AgentAccepted, ControlRefused, ControlAccepted, Counter
    <3> QED
      BY <1>3, <1>4, <3>1, <3>2
  <2> QED
    BY <2>1, <2>2
<1>7. CASE Dispatch(c)
  <2>1. job[c] = Idle
    BY <1>1, <1>7, StagesTell DEF Dispatch, Answer, Reject, HandleBroadcast, HandleSend,
       HandleRename, Bye, Read
  <2>2. CASE Bye(c)
    BY <1>5, <2>1, <2>2 DEF Bye
  <2>3. CASE ~Bye(c)
    <3>1. UNCHANGED log
      BY <1>7, <2>3 DEF Dispatch, Answer, Reject, HandleBroadcast, HandleSend, HandleRename
    <3>2. stats'["sent"] = stats["sent"] /\ stats'["broadcast"] = stats["broadcast"]
      BY <1>7, <2>3, BumpIs
         DEF Dispatch, Answer, Reject, HandleBroadcast, HandleSend, HandleRename, Counter
    <3>3. job'[c].stage = "log" \/ job'[c].counter = "none"
      <4>1. ASSUME NEW n \in Name \cup {NoName}, HandleRename(c, n)
            PROVE  job'[c].counter = "none"
        BY <1>1, <2>1, <4>1, IdleFields DEF HandleRename, Start, Event
      <4>2. CASE HandleBroadcast(c) \/ \E t \in Target : HandleSend(c, t)
        BY <1>1, <4>2 DEF HandleBroadcast, HandleSend, Start, Message
      <4> QED
        BY <1>7, <2>1, <2>3, <4>1, <4>2, IdleFields DEF Dispatch, Answer, Reject
    <3> QED
      BY <1>3, <1>4, <2>1, <3>1, <3>2, <3>3, IdleFields
  <2> QED
    BY <2>2, <2>3
<1>8. CASE Work(c)
  <2>1. CASE LogMessage(c)
    <3>1. IsMessage(job[c])
      BY <1>1, <2>1, StagesTell DEF LogMessage
    <3>2. /\ job'[c].stage = "write" /\ job'[c].counter \in {"sent", "broadcast"}
          /\ UNCHANGED stats
      BY <1>1, <2>1, <3>1 DEF LogMessage, IsMessage, TypeOK, Job
    <3>3. CASE UNCHANGED log /\ LogMayFail
      BY <3>3
    <3>4. CASE log' = log \cup {job[c].frame.id}
      <4>1. job[c].frame.id \notin log
        BY <2>1 DEF LogMessage, IdsAreFresh
      <4>2. Cardinality(log') = Cardinality(log) + 1 /\ IsFiniteSet(log')
        <5> DEFINE id == job[c].frame.id
        <5>1. log' = log \cup {id} /\ id \notin log
          BY <3>4, <4>1
        <5> HIDE DEF id
        <5> QED
          BY <1>2, <5>1, OneMore, Zenon
      <4>3. Busy' = Busy \cup {c} /\ c \notin Busy
        BY <1>1, <2>1, <3>2 DEF Busy, LogMessage
      <4>4. Cardinality(Busy') = Cardinality(Busy) + 1
        BY <1>2, <4>3, OneMore
      <4> QED
        BY <1>1, <1>2, <3>2, <4>2, <4>4 DEF LogBalance
    <3> QED
      BY <2>1, <3>3, <3>4 DEF LogMessage
  <2>2. CASE Finish(c)
    <3>1. job'[c].counter = "none" /\ UNCHANGED log /\ job[c].stage # "log"
      BY <1>1, <2>2, IdleFields DEF Finish
    <3>2. CASE job[c].counter = "none"
      BY <1>3, <1>4, <2>2, <3>1, <3>2 DEF Finish, Bump, Counter
    <3>3. CASE job[c].counter \in {"sent", "broadcast"}
      <4>1. Busy' = Busy \ {c} /\ c \in Busy
        BY <1>1, <3>1, <3>3 DEF Busy
      <4>2. Cardinality(Busy') = Cardinality(Busy) - 1
        BY <1>2, <4>1, OneLess
      <4>3. stats'["sent"] + stats'["broadcast"] = stats["sent"] + stats["broadcast"] + 1
        <5>1. CASE job[c].counter = "sent"
          BY <1>1, <2>2, <5>1, BumpIs DEF Finish, Counter
        <5>2. CASE job[c].counter = "broadcast"
          BY <1>1, <2>2, <5>2, BumpIs DEF Finish, Counter
        <5> QED
          BY <3>3, <5>1, <5>2
      <4>4. stats'["sent"] + stats'["broadcast"] + Cardinality(Busy')
              = stats["sent"] + stats["broadcast"] + Cardinality(Busy)
        BY <1>1, <1>2, <4>2, <4>3
      <4> QED
        BY <1>2, <3>1, <4>4 DEF LogBalance
    <3>4. job[c].counter \in {"none", "sent", "broadcast"}
      BY <1>1, <2>2, IdleFields DEF Finish, Fits, IsEvent, IsMessage
    <3> QED
      BY <3>2, <3>3, <3>4
  <2>3. CASE Snapshot(c)
    <3>1. /\ job[c].counter \in {"none", "joined", "left"} /\ job'[c].counter = "none"
          /\ UNCHANGED log
      BY <1>1, <2>3, StagesTell DEF Snapshot, IsEvent, TypeOK, Job
    <3>2. stats'["sent"] = stats["sent"] /\ stats'["broadcast"] = stats["broadcast"]
      BY <2>3, <3>1, BumpIs DEF Snapshot, Bump, Counter
    <3> QED
      BY <1>3, <1>4, <3>1, <3>2
  <2>4. CASE Ack(c) \/ Expire(c) \/ \E d \in Conn : \/ WriteTo(c, d) \/ WriteFails(c, d)
                                                   \/ WriteExpired(c, d)
    <3>1. UNCHANGED <<log, stats>> /\ job'[c].counter = job[c].counter
      BY <1>1, <2>4 DEF Ack, Expire, WriteTo, WriteFails, WriteExpired, TypeOK, Job
    <3>2. job[c].stage # "log" /\ job'[c].stage # "log"
      BY <1>1, <2>4 DEF Ack, Expire, WriteTo, WriteFails, WriteExpired, TypeOK, Job
    <3> QED
      BY <1>3, <1>4, <3>1, <3>2
  <2> QED
    BY <1>8, <2>1, <2>2, <2>3, <2>4 DEF Work
<1>9. CASE ReadFails(c)
  <2>1. job[c] = Idle
    BY <1>1, <1>9, StagesTell DEF ReadFails
  <2> QED
    BY <1>5, <1>9, <2>1 DEF ReadFails
<1>10. CASE Exit(c) \/ CloseReplaced(c)
  BY <1>3, <1>4, <1>10 DEF Exit, CloseReplaced
<1> QED
  BY <1>0, <1>6, <1>7, <1>8, <1>9, <1>10

----------------------------------------------------------------------------
(* The invariant: that of BusProofs with the parts above. *)
DeliveryInv == /\ IInv /\ JobsFit /\ IdsAreFresh /\ TargetsDiffer /\ AtMostOnce /\ TotalsInv

LEMMA DeliveryInvInit == Init => DeliveryInv
<1> SUFFICES ASSUME Init PROVE DeliveryInv
  OBVIOUS
<1>1. IInv /\ requests = 0
  BY InvInit DEF Init
<1>2. /\ \A c \in Conn : /\ job[c] = Idle /\ received[c] = {} /\ pc[c] = "hello"
                         /\ client[c].role = "none"
      /\ log = {} /\ \A k \in Counter : stats[k] = 0
  BY DEF Init
<1>3. JobsFit /\ IdsAreFresh /\ TargetsDiffer
  BY <1>1, <1>2, IdleFields DEF JobsFit, Fits, IdsAreFresh, TargetsDiffer
<1>4. AtMostOnce
  BY <1>2 DEF AtMostOnce, Has
<1>5. Engaged = {} /\ Counted = {} /\ Leaving = {} /\ Busy = {}
  BY <1>2, IdleFields DEF Engaged, Counted, Leaving, Busy, Agents
<1>6. TotalsInv
  BY <1>2, <1>5, FS_EmptySet DEF TotalsInv, JoinsBalance, LogBalance, Counter
<1> QED
  BY <1>1, <1>3, <1>4, <1>6 DEF DeliveryInv

LEMMA DeliveryInvNext == DeliveryInv /\ [Next]_vars => DeliveryInv'
<1> SUFFICES ASSUME DeliveryInv, [Next]_vars PROVE DeliveryInv'
  OBVIOUS
<1>0. IInv' /\ TypeOK /\ TypeOK' /\ HelloIsBlank /\ ControlsHearReplies
  BY InvNext DEF DeliveryInv, IInv
<1>1. CASE Next
  <2>1. JobsFit'
    BY <1>0, <1>1, NextJobsFit DEF DeliveryInv
  <2>2. IdsAreFresh'
    BY <1>0, <1>1, NextIdsAreFresh DEF DeliveryInv
  <2>3. TargetsDiffer' /\ AtMostOnce'
    BY <1>0, <1>1, NextAtMostOnce DEF DeliveryInv
  <2>4. TotalsInv'
    BY <1>0, <1>1, NextEngaged, NextJoinsBalance, NextLogBalance DEF DeliveryInv, TotalsInv
  <2> QED
    BY <1>0, <2>1, <2>2, <2>3, <2>4 DEF DeliveryInv
<1>2. CASE UNCHANGED vars
  <2>1. JobsFit' /\ IdsAreFresh' /\ TargetsDiffer'
    BY <1>2 DEF vars, DeliveryInv, JobsFit, Fits, IsEvent, IsMessage, IdsAreFresh, TargetsDiffer
  <2>2. AtMostOnce'
    BY <1>2 DEF vars, DeliveryInv, AtMostOnce, Has, Due
  <2>3. TotalsInv'
    BY <1>2 DEF vars, DeliveryInv, TotalsInv, JoinsBalance, LogBalance, Engaged, Counted,
       Leaving, Busy, Agents
  <2> QED
    BY <1>0, <2>1, <2>2, <2>3 DEF DeliveryInv
<1> QED
  BY <1>1, <1>2

(* The invariant is inductive, so it holds of every reachable state. *)
THEOREM DeliveryInvariant == Spec => []DeliveryInv
  BY DeliveryInvInit, DeliveryInvNext, PTL DEF Spec

(* However sessions reconnect and are renamed while messages are written,  *)
(* none is written twice to a session.                                     *)
THEOREM MessagesArriveOnce == Spec => []AtMostOncePerSession
<1>1. DeliveryInv => AtMostOncePerSession
  BY AtMostOnceSays DEF DeliveryInv
<1> QED
  BY <1>1, DeliveryInvariant, PTL

(* The counters of /api/stats agree with the registry and, unless appends  *)
(* fail, with messages.log.                                                *)
THEOREM TotalsAgree == Spec => []StatsBalance
<1>1. ASSUME DeliveryInv PROVE StatsBalance
  <2>1. /\ stats["left"] \in Nat /\ stats["joined"] \in Nat
        /\ Cardinality(Counted) \in Nat /\ Cardinality(Leaving) \in Nat
        /\ stats["left"] + Cardinality(Leaving) + Cardinality(Counted) <= stats["joined"]
        /\ LogMayFail \/ LogBalance
    BY <1>1, TotalsFinite DEF DeliveryInv, IInv, TypeOK, Counter, TotalsInv, JoinsBalance
  <2>2. stats["left"] + Cardinality(Counted) <= stats["joined"]
    BY <2>1
  <2> QED
    BY <2>1, <2>2 DEF StatsBalance, Counted, LogBalance, Busy
<1> QED
  BY <1>1, DeliveryInvariant, PTL

----------------------------------------------------------------------------
(* A target of a message leaves the list when it is written to, or with    *)
(* its connection.                                                         *)
LEMMA TargetStep ==
  ASSUME DeliveryInv, [Next]_vars, NEW c \in Conn, NEW d \in Conn,
         job[c].frame.op = "msg", d \in job[c].to, d \notin job'[c].to
  PROVE  d \notin open' \/ job[c].frame.id \in received'[d]
<1>1. TypeOK /\ Fits(c) /\ job[c] \in Job
  BY DEF DeliveryInv, IInv, JobsFit, TypeOK
<1>2. PICK b \in Conn : \/ Handshake(b) \/ Dispatch(b) \/ Work(b) \/ ReadFails(b)
                        \/ Exit(b) \/ CloseReplaced(b)
  BY DEF Next, vars
<1>3. b = c
  BY <1>1, <1>2, StepOfOne
<1>4. pc[c] = "serve" /\ job[c].stage \in {"log", "write"}
  BY <1>1, IdleFields DEF Fits, IsEvent, IsMessage, EventOp
<1>5. ~(Handshake(c) \/ Dispatch(c) \/ ReadFails(c) \/ Exit(c) \/ CloseReplaced(c))
  BY <1>4 DEF Handshake, RefuseHello, Welcome, WelcomeFails, AgentUnauthorized, AgentNameTaken,
     AgentAccepted, ControlRefused, ControlAccepted, Dispatch, Answer, Reject, HandleBroadcast,
     HandleSend, HandleRename, Bye, Read, ReadFails, Exit, CloseReplaced
<1>6. CASE \E e \in Conn : WriteTo(c, e) \/ WriteFails(c, e)
  <2>1. PICK e \in Conn : WriteTo(c, e) \/ WriteFails(c, e)
    BY <1>6
  <2>2. job'[c].to = job[c].to \ {e}
    BY <1>1, <2>1 DEF WriteTo, WriteFails, TypeOK, Job
  <2>3. d = e
    BY <2>2
  <2> QED
    BY <1>1, <2>1, <2>3 DEF WriteTo, WriteFails, WriteFailed, TypeOK
<1>7. CASE LogMessage(c)
  BY <1>1, <1>7 DEF LogMessage, TypeOK, Job
<1>8. job[c].to # {} /\ job[c].frame.op \notin EventOp
  BY DEF EventOp
<1> QED
  BY <1>2, <1>3, <1>4, <1>5, <1>6, <1>7, <1>8
     DEF Work, Ack, Snapshot, Expire, Finish, WriteExpired

(* One hanging or broken target costs no other target the message. *)
THEOREM TargetsGetTheirMessage == Spec => TargetsAreServed
<1>1. DeliveryInv /\ [Next]_vars =>
        [\A c, d \in Conn :
            job[c].frame.op = "msg" /\ d \in job[c].to /\ d \notin job'[c].to =>
                d \notin open' \/ job[c].frame.id \in received'[d]]_vars
  BY TargetStep
<1> QED
  BY <1>1, DeliveryInvariant, PTL DEF Spec, TargetsAreServed

----------------------------------------------------------------------------
(* The registry implements Directory: accepting an agent is a Claim,       *)
(* renaming one a Rename, removing one a Release, all else a stutter.      *)
LEMMA NameFreeMaps ==
  ASSUME IInv, NEW s \in SessionId, NEW n, NameFree(n, s)
  PROVE  D!NameFree(n, s)
<1> SUFFICES ASSUME n # NoName, NEW t \in SessionId \ {s}, Holders[t] # NoConn
             PROVE  Holders[t].name # n
  BY DEF D!NameFree
<1> DEFINE a == registry[t]
<1>1. a # NoConn /\ client[a].role = "agent" /\ Holders[t].name = client[a].name
  BY DEF Holders
<1>2. a \in Others(s)
  BY <1>1 DEF IInv, TypeOK, EntriesMatch, Agents, Others
<1> QED
  BY <1>1, <1>2 DEF NameFree

LEMMA ReleaseMaps ==
  ASSUME NEW s \in SessionId, Holders'[s] = NoConn,
         \A t \in SessionId \ {s} : Holders'[t] = Holders[t]
  PROVE  [D!Next]_Holders
<1>1. CASE Holders[s] = NoConn
  <2>1. \A t \in SessionId : Holders'[t] = Holders[t]
    BY <1>1
  <2>2. Holders' = Holders
    BY <2>1 DEF Holders
  <2> QED
    BY <2>2
<1>2. CASE Holders[s] # NoConn
  <2>1. Holders' = [Holders EXCEPT ![s] = NoConn]
    BY DEF Holders
  <2> QED
    BY <1>2, <2>1 DEF D!Next, D!Release
<1> QED
  BY <1>1, <1>2

(* A session id keeps its holder when its entry and the holder's state do. *)
LEMMA HolderKept ==
  ASSUME NEW t \in SessionId, registry'[t] = registry[t],
         \/ client'[registry[t]] = client[registry[t]]
         \/ client[registry[t]].role # "agent" /\ client'[registry[t]].role # "agent"
  PROVE  Holders'[t] = Holders[t]
  BY DEF Holders

LEMMA UnregisterMaps ==
  ASSUME IInv, NEW c \in Conn, Unregister(c), UNCHANGED client
  PROVE  [D!Next]_Holders
<1> DEFINE s == client[c].sessionID
<1>1. s \in SessionId
  BY DEF IInv, TypeOK, ClientState
<1>2. \A t \in SessionId \ {s} : registry'[t] = registry[t]
  BY DEF Unregister, IInv, TypeOK
<1>3. \A t \in SessionId \ {s} : Holders'[t] = Holders[t]
  BY <1>2, HolderKept
<1>4. CASE Owns(c)
  <2>1. registry'[s] = NoConn
    BY <1>1, <1>4 DEF Unregister, IInv, TypeOK
  <2>2. Holders'[s] = NoConn
    BY <1>1, <2>1 DEF Holders
  <2> QED
    BY <1>1, <1>3, <2>2, ReleaseMaps
<1>5. CASE ~Owns(c)
  BY <1>5 DEF Unregister, Holders
<1> QED
  BY <1>4, <1>5

LEMMA AcceptMaps ==
  ASSUME IInv, NEW c \in Conn, NEW h \in Hellos,
         AgentNameTaken(c, h) \/ AgentAccepted(c, h) \/ ControlAccepted(c, h)
  PROVE  [D!Next]_Holders
<1> USE ConstantsAssumption DEF SessionId
<1>1. HelloSession(c, h) \in SessionId /\ TypeOK
  BY HelloSessionType DEF IInv
<1>2. \A t \in SessionId : registry[t] # c
  BY DEF AgentNameTaken, AgentAccepted, ControlAccepted, IInv, EntriesMatch, HelloIsBlank
<1>3. CASE AgentNameTaken(c, h)
  <2> DEFINE s == HelloSession(c, h)
  <2>1. UNCHANGED client /\ registry' = [registry EXCEPT ![s] = NoConn]
    BY <1>3 DEF AgentNameTaken
  <2>2. \A t \in SessionId \ {s} : Holders'[t] = Holders[t]
    BY <1>1, <2>1, HolderKept DEF TypeOK
  <2>3. Holders'[s] = NoConn
    BY <1>1, <2>1 DEF Holders, TypeOK
  <2> QED
    BY <1>1, <2>2, <2>3, ReleaseMaps
<1>4. CASE ControlAccepted(c, h)
  <2>1. /\ \A t \in SessionId \ {c} : registry'[t] = registry[t]
        /\ \A d \in Conn \ {c} : client'[d] = client[d]
        /\ registry'[c] = c /\ client'[c].role = "control"
    <3>1. PICK a \in ListenerOf(h) : client' = [client EXCEPT ![c] =
                        [sessionID |-> c, role |-> "control", name |-> client[a].name,
                         nonce |-> h.nonce, forSession |-> h.session]]
      BY <1>4 DEF ControlAccepted
    <3> QED
      BY <1>1, <1>4, <3>1 DEF ControlAccepted, TypeOK
  <2>2. \A t \in SessionId \ {c} : Holders'[t] = Holders[t]
    <3>1. \A t \in SessionId : registry[t] \in Conn \/ registry[t] = NoConn
      BY <1>1 DEF TypeOK
    <3> QED
      BY <1>2, <2>1, <3>1 DEF Holders
  <2>3. Holders'[c] = NoConn
    BY <2>1 DEF Holders
  <2> QED
    BY <2>2, <2>3, ReleaseMaps
<1>5. CASE AgentAccepted(c, h)
  <2> DEFINE s == HelloSession(c, h)
             entry == [name |-> h.name, nonce |-> h.nonce]
  <2>1. /\ \A t \in SessionId \ {s} : registry'[t] = registry[t]
        /\ \A d \in Conn \ {c} : client'[d] = client[d]
        /\ registry'[s] = c
        /\ client'[c].role = "agent" /\ client'[c].name = h.name /\ client'[c].nonce = h.nonce
    BY <1>1, <1>5 DEF AgentAccepted, NewAgent, TypeOK
  <2>2. \A t \in SessionId \ {s} : Holders'[t] = Holders[t]
    <3>1. \A t \in SessionId : registry[t] \in Conn \/ registry[t] = NoConn
      BY <1>1 DEF TypeOK
    <3> HIDE DEF s
    <3> QED
      BY <1>2, <2>1, <3>1 DEF Holders
  <2>3. Holders'[s] = entry
    BY <1>1, <2>1 DEF Holders
  <2>4. Holders' = [Holders EXCEPT ![s] = entry]
    BY <1>1, <2>2, <2>3 DEF Holders
  <2>5. Holders[s] # NoConn => h.nonce # NoNonce /\ h.nonce = Holders[s].nonce
    BY <1>1, <1>5 DEF AgentAccepted, Proves, Holders
  <2>6. D!NameFree(h.name, s)
    BY <1>1, <1>5, NameFreeMaps DEF AgentAccepted
  <2>7. h.name \in Name \cup {NoName} /\ h.nonce \in Nonce \cup {NoNonce}
    BY DEF Hello
  <2>8. D!Claim(s, h.name, h.nonce)
    BY <2>4, <2>5, <2>6 DEF D!Claim
  <2> HIDE DEF s
  <2> QED
    BY <1>1, <2>7, <2>8 DEF D!Next, s
<1> QED
  BY <1>3, <1>4, <1>5

LEMMA RenameMaps ==
  ASSUME IInv, NEW c \in Conn, NEW n \in Name \cup {NoName}, HandleRename(c, n)
  PROVE  [D!Next]_Holders
<1> USE ConstantsAssumption DEF SessionId
<1> DEFINE s == FromId(c)
           a == registry[s]
<1>1. CASE UNCHANGED client
  BY <1>1 DEF HandleRename, Holders
<1>2. CASE client' # client
  <2>1. /\ a \in Agents /\ NameFree(n, s) /\ UNCHANGED registry
        /\ client' = [client EXCEPT ![a].name = n, ![c].name = n]
    BY <1>2 DEF HandleRename
  <2>2. s \in SessionId /\ a \in Conn
    <3>1. client[c].role = "control" => client[c].forSession \in Session
      BY DEF IInv, SessionsAreOwn
    <3> QED
      BY <2>1, <3>1 DEF FromId, Agents, IInv, TypeOK, ClientState
  <2>3. /\ a # NoConn /\ client[a].role = "agent" /\ client[a].sessionID = s
        /\ Holders[s] = [name |-> client[a].name, nonce |-> client[a].nonce]
    BY <2>1, <2>2 DEF Agents, Holders, IInv, EntriesMatch
  <2>4. \A d \in Conn : client[d] \in ClientState
    BY DEF IInv, TypeOK
  <2>5. /\ \A d \in Conn \ {a, c} : client'[d] = client[d]
        /\ \A d \in {a, c} : client'[d] = [client[d] EXCEPT !.name = n]
    <3> HIDE DEF s
    <3> QED
      BY <2>1, <2>2, <2>4 DEF IInv, TypeOK, ClientState
  <2>6. ASSUME NEW t \in SessionId \ {s} PROVE Holders'[t] = Holders[t]
    <3>1. CASE registry[t] \notin {a, c}
      <4>1. registry[t] = NoConn \/ client'[registry[t]] = client[registry[t]]
        BY <2>5, <3>1 DEF IInv, TypeOK
      <4> QED
        BY <2>1, <4>1 DEF Holders
    <3>2. CASE registry[t] \in {a, c}
      <4>1. client[registry[t]].sessionID = t
        BY <2>2, <3>2 DEF IInv, EntriesMatch
      <4>2. registry[t] = c /\ client[c].role = "control"
        BY <2>3, <3>2, <4>1 DEF FromId
      <4>3. client'[c].role = "control"
        BY <2>4, <2>5, <4>2 DEF ClientState
      <4> QED
        BY <2>1, <4>2, <4>3 DEF Holders
    <3> QED
      BY <3>1, <3>2
  <2>7. /\ client'[a].role = "agent" /\ client'[a].name = n
        /\ client'[a].nonce = client[a].nonce
    BY <2>2, <2>3, <2>4, <2>5 DEF ClientState
  <2>8. Holders'[s] = [name |-> n, nonce |-> client[a].nonce]
    BY <2>1, <2>2, <2>3, <2>7 DEF Holders
  <2>9. Holders'[s] = [Holders[s] EXCEPT !.name = n]
    BY <2>3, <2>8
  <2>10. Holders' = [Holders EXCEPT ![s].name = n]
    <3> HIDE DEF s
    <3> QED
      BY <2>2, <2>6, <2>9 DEF Holders
  <2>11. Holders[s] # NoConn
    <3>1. Holders[s] \in [name : Name \cup {NoName}, nonce : Nonce \cup {NoNonce}]
      BY <2>2, <2>3, <2>4 DEF ClientState
    <3> QED
      BY <3>1, HolderAssumption
  <2>12. D!Rename(s, n)
    BY <2>1, <2>2, <2>10, <2>11, NameFreeMaps DEF D!Rename
  <2> HIDE DEF s
  <2> QED
    BY <2>2, <2>12 DEF D!Next
<1> QED
  BY <1>1, <1>2

LEMMA StepMaps == IInv /\ [Next]_vars => [D!Next]_Holders
<1> SUFFICES ASSUME IInv, [Next]_vars PROVE [D!Next]_Holders
  OBVIOUS
<1>1. CASE UNCHANGED <<registry, client>>
  BY <1>1 DEF Holders
<1>2. CASE ~UNCHANGED <<registry, client>>
  <2>1. PICK c \in Conn : \/ Handshake(c) \/ Dispatch(c) \/ Work(c) \/ ReadFails(c)
                          \/ Exit(c) \/ CloseReplaced(c)
    BY <1>2 DEF Next, vars
  <2>2. CASE Handshake(c)
    BY <1>2, <2>2, AcceptMaps DEF Handshake, RefuseHello, Welcome, WelcomeFails,
       AgentUnauthorized, ControlRefused
  <2>3. CASE Dispatch(c)
    BY <1>2, <2>3, RenameMaps, UnregisterMaps
       DEF Dispatch, Answer, Reject, HandleBroadcast, HandleSend, Bye
  <2>4. CASE Work(c)
    BY <1>2, <2>4 DEF Work, Ack, LogMessage, Snapshot, Expire, Finish, WriteTo, WriteFails,
       WriteExpired
  <2>5. CASE ReadFails(c) \/ Exit(c) \/ CloseReplaced(c)
    BY <1>2, <2>5, UnregisterMaps DEF ReadFails, Exit, CloseReplaced
  <2> QED
    BY <2>1, <2>2, <2>3, <2>4, <2>5
<1> QED
  BY <1>1, <1>2

(* Whatever the handlers of all connections interleave, the registry gives *)
(* its clients what Directory promises.                                    *)
THEOREM RegistryImplementsDirectory == Spec => ImplementsDirectory
<1>1. Init => D!Init
  BY DEF Init, D!Init, Holders
<1>2. IInv /\ [Next]_vars => [D!Next]_Holders
  BY StepMaps
<1> QED
  BY <1>1, <1>2, Invariant, PTL DEF Spec, ImplementsDirectory, D!Spec
============================================================================
