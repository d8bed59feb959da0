-------------------------------- MODULE Bus --------------------------------
(***************************************************************************)
(* The message bus (internal/bus): one handler goroutine per websocket     *)
(* connection over a registry guarded by registryMu.                       *)
(*                                                                         *)
(* A critical section of registryMu is one step, so is each frame written  *)
(* to a socket: between two of them every other handler may run.  A value  *)
(* of Conn stands for a connection, its handler goroutine and its          *)
(* *clientState at once, as the code creates the three together.           *)
(***************************************************************************)
EXTENDS Naturals, Sequences, FiniteSets

CONSTANTS
    Conn,         \* connections ever accepted
    Session,      \* session ids generated by listener processes
    Name,         \* display names
    Nonce,        \* nonces generated by listener processes
    Target,       \* strings a sender may address ("to" of a send)
    Prefix,       \* <<t, x>>: t is a prefix of name x, or one of >= 4 chars of session id x
    Hellos,       \* the hello frames clients send
    NoConn, NoSession, NoName, NoNonce,
    LogMayFail,   \* may an append to messages.log fail (full disk, lost directory)?
    MaxRequests   \* bound: frames clients send after their hello

(* An agent hello without a session id, and every control, is given a      *)
(* fresh uuid: the connection itself serves as that uuid.                  *)
SessionId == Session \cup Conn

Hello == [role: {"agent", "control"}, session: Session \cup {NoSession},
          name: Name \cup {NoName}, nonce: Nonce \cup {NoNonce}]

ASSUME ConstantsAssumption ==
    /\ NoConn \notin Conn
    /\ NoSession \notin SessionId
    /\ Session \cap Conn = {}
    /\ NoName \notin Name
    /\ NoNonce \notin Nonce
    /\ Hellos \subseteq Hello
    /\ LogMayFail \in BOOLEAN
    /\ MaxRequests \in Nat

(* An entry of the registry, as Directory has it, is told from none. *)
ASSUME HolderAssumption ==
    NoConn \notin [name : Name \cup {NoName}, nonce : Nonce \cup {NoNonce}]

EventOp == {"peer_joined", "peer_left", "renamed"}

(* What one handler sends to the clients of others.  sid: the session a    *)
(* message is from or an event is about.  id: msg_id; 0 for an event.      *)
Frame == [op: EventOp \cup {"msg", "none"}, sid: SessionId \cup {NoSession}, id: Nat]

Counter == {"sent", "broadcast", "rejected", "joined", "left"}

(* What a handler still has to do for the frame it last read, in order:    *)
(*   ack      answer its own client, then announce (rename)                *)
(*   snapshot broadcastEvent is to take its list of targets                *)
(*   log      logMessage is to append the record                           *)
(*   write    frame goes to each connection of to                          *)
(*   expired  the context broadcastEvent's writes share has run out        *)
(* and the counter that is incremented on the way.                         *)
Stage == {"idle", "ack", "snapshot", "log", "write", "expired"}
Job == [stage: Stage, frame: Frame, to: SUBSET Conn, counter: Counter \cup {"none"}]

ClientState == [sessionID: SessionId, role: {"none", "agent", "control"},
                name: Name \cup {NoName}, nonce: Nonce \cup {NoNonce},
                forSession: Session \cup {NoSession}]

VARIABLES
    registry,  \* session id -> connection registered for it, or NoConn
    client,    \* connection -> clientState
    pc,        \* where the connection's handler is
    job,       \* the rest of the handler's current call
    open,      \* connections the server has not closed
    closing,   \* replaced connections whose Close(4000) goroutine has not run
    received,  \* ids of the messages written to the connection's socket
    log,       \* ids of the messages in messages.log
    stats,     \* Counters
    requests   \* frames read so far (also the source of fresh message ids)

vars == <<registry, client, pc, job, open, closing, received, log, stats, requests>>

----------------------------------------------------------------------------
(* Helpers *)

NoFrame == [op |-> "none", sid |-> NoSession, id |-> 0]
Idle == [stage |-> "idle", frame |-> NoFrame, to |-> {}, counter |-> "none"]

Bump(k) == IF k \in Counter THEN [stats EXCEPT ![k] = @ + 1] ELSE stats

(* Mutant: the role filter of the loops is forgotten. *)
AnyRegistered == {c \in Conn : registry[client[c].sessionID] = c}

(* The registered agents: every loop over the registry skips controls.     *)
Agents == {c \in Conn : client[c].role = "agent" /\ registry[client[c].sessionID] = c}

(* Mutant: a control speaks for itself. *)
FromOwnId(c) == client[c].sessionID

(* clientState.fromID *)
FromId(c) == IF client[c].role = "control" THEN client[c].forSession
                                           ELSE client[c].sessionID

(* listenerAliveLocked *)
Alive(c) == client[c].role = "control" => registry[client[c].forSession] # NoConn

(* Mutant: connections being served are targets, instead of registered ones. *)
OthersServed(s) == {a \in Conn : /\ pc[a] = "serve" /\ client[a].role = "agent"
                                 /\ client[a].sessionID # s}

(* Every registered agent but those of session s. *)
Others(s) == {a \in Agents : client[a].sessionID # s}

(* Mutant: agents whose welcome is still being written are overlooked. *)
NameFreeOfServed(n, s) ==
    n = NoName \/ \A a \in Others(s) : pc[a] = "serve" => client[a].name # n

NameFree(n, s) == n = NoName \/ \A a \in Others(s) : client[a].name # n

(* Mutant: any nonce will do. *)
ProvesAnything(h, s) == h.nonce # NoNonce

(* Does hello h prove it comes from the process that holds session s?      *)
Proves(h, s) == h.nonce # NoNonce /\ h.nonce = client[registry[s]].nonce

(* resolveSendTarget: session id, name, unique name prefix, unique session *)
(* id prefix, in that order; the connections a send by c to t may go to.   *)
Resolve(c, t) ==
    LET byId     == {a \in Agents : client[a].sessionID = t}
        byName   == {a \in Agents : client[a].name # NoName /\ client[a].name = t}
        nameLike == {a \in Agents : <<t, client[a].name>> \in Prefix}
        idLike   == {a \in Agents : <<t, client[a].sessionID>> \in Prefix}
        Sole(S)  == {a \in S : S = {a}}
        found    == IF byId # {} THEN byId
                    ELSE IF byName # {} THEN byName
                    ELSE IF nameLike # {} THEN Sole(nameLike)
                    ELSE Sole(idLike)
    IN  IF Alive(c) THEN found \cap Others(FromId(c)) ELSE {}

(* writeFrame, one way or the other: the frame is in the socket, or the    *)
(* connection is closed: it was already, the peer reset it, or the peer    *)
(* hangs and the 5s timeout of this very write runs out.                   *)
Written(d) == d \in open /\ UNCHANGED open

WriteFailed(d) == open' = open \ {d}

----------------------------------------------------------------------------
Init ==
    /\ registry = [s \in SessionId |-> NoConn]
    /\ client = [c \in Conn |-> [sessionID |-> c, role |-> "none", name |-> NoName,
                                 nonce |-> NoNonce, forSession |-> NoSession]]
    /\ pc = [c \in Conn |-> "hello"]
    /\ job = [c \in Conn |-> Idle]
    /\ open = Conn
    /\ closing = {}
    /\ received = [c \in Conn |-> {}]
    /\ log = {}
    /\ stats = [k \in Counter |-> 0]
    /\ requests = 0

----------------------------------------------------------------------------
(* doHello and what it calls.  handleWS closes a refused connection.       *)

HelloSession(c, h) == IF h.session = NoSession THEN c ELSE h.session

NewAgent(c, h) ==
    [sessionID |-> HelloSession(c, h), role |-> "agent", name |-> h.name,
     nonce |-> h.nonce, forSession |-> NoSession]

(* The error frame goes to a connection no other handler knows of: writing *)
(* it and closing are part of the refusing step.                           *)
Refuse(c) ==
    /\ pc' = [pc EXCEPT ![c] = "done"]
    /\ open' = open \ {c}

(* No frame within helloTimeout, or one that is not a well-formed hello    *)
(* with the right token and a valid name, label and role.                  *)
RefuseHello(c) ==
    /\ pc[c] = "hello"
    /\ Refuse(c)
    /\ UNCHANGED <<registry, client, job, closing, received, log, stats, requests>>

(* Mutant: the nil check of oldConn is forgotten. *)
ReplacedOrNil(s) == {registry[s]}

(* The connection a new one replaces, if any. *)
Replaced(s) == {registry[s]} \ {NoConn}

(* The session id is held, and the nonce is not its holder's. *)
AgentUnauthorized(c, h) ==
    LET s == HelloSession(c, h) IN
    /\ pc[c] = "hello" /\ h.role = "agent"
    /\ registry[s] # NoConn /\ ~Proves(h, s)
    /\ Refuse(c)
    /\ stats' = Bump("rejected")
    /\ UNCHANGED <<registry, client, job, closing, received, log, requests>>

(* The old entry of the session is gone by the time the name is found to   *)
(* be taken: its connection stays open, served and unregistered.           *)
AgentNameTaken(c, h) ==
    LET s == HelloSession(c, h) IN
    /\ pc[c] = "hello" /\ h.role = "agent"
    /\ registry[s] # NoConn => Proves(h, s)
    /\ ~NameFree(h.name, s)
    /\ registry' = [registry EXCEPT ![s] = NoConn]
    /\ Refuse(c)
    /\ stats' = Bump("rejected")
    /\ UNCHANGED <<client, job, closing, received, log, requests>>

AgentAccepted(c, h) ==
    LET s == HelloSession(c, h) IN
    /\ pc[c] = "hello" /\ h.role = "agent"
    /\ registry[s] # NoConn => Proves(h, s)
    /\ NameFree(h.name, s)
    /\ client' = [client EXCEPT ![c] = NewAgent(c, h)]
    /\ registry' = [registry EXCEPT ![s] = c]
    /\ closing' = closing \cup Replaced(s)
    /\ pc' = [pc EXCEPT ![c] = "welcome"]
    /\ UNCHANGED <<job, open, received, log, stats, requests>>

(* The listener a control hello names: registered, an agent, same nonce. *)
ListenerOf(h) ==
    {a \in Agents : client[a].sessionID = h.session /\ Proves(h, h.session)}

ControlRefused(c, h) ==
    /\ pc[c] = "hello" /\ h.role = "control"
    /\ ListenerOf(h) = {}
    /\ Refuse(c)
    /\ UNCHANGED <<registry, client, job, closing, received, log, stats, requests>>

ControlAccepted(c, h) ==
    /\ pc[c] = "hello" /\ h.role = "control"
    /\ \E a \in ListenerOf(h) :
          client' = [client EXCEPT ![c] =
                        [sessionID |-> c, role |-> "control", name |-> client[a].name,
                         nonce |-> h.nonce, forSession |-> h.session]]
    /\ registry' = [registry EXCEPT ![c] = c]
    /\ pc' = [pc EXCEPT ![c] = "welcome"]
    /\ UNCHANGED <<job, open, closing, received, log, stats, requests>>

Event(op, s, k) ==
    [stage |-> "snapshot", frame |-> [op |-> op, sid |-> s, id |-> 0],
     to |-> {}, counter |-> k]

(* The welcome is written outside the lock, after registration. *)
Welcome(c) ==
    /\ pc[c] = "welcome"
    /\ Written(c)
    /\ pc' = [pc EXCEPT ![c] = "serve"]
    /\ job' = [job EXCEPT ![c] = IF client[c].role = "agent"
                                 THEN Event("peer_joined", client[c].sessionID, "joined")
                                 ELSE Idle]
    /\ UNCHANGED <<registry, client, closing, received, log, stats, requests>>

(* doHello reports failure: handleWS returns before it defers unregister. *)
WelcomeFails(c) ==
    /\ pc[c] = "welcome"
    /\ WriteFailed(c)
    /\ pc' = [pc EXCEPT ![c] = "done"]
    /\ UNCHANGED <<registry, client, job, closing, received, log, stats, requests>>

----------------------------------------------------------------------------
(* dispatchLoop: the handler is idle and reads a frame of its client.      *)

Read(c) ==
    /\ pc[c] = "serve" /\ job[c].stage = "idle" /\ c \in open
    /\ requests < MaxRequests
    /\ requests' = requests + 1

Start(c, j) == job' = [job EXCEPT ![c] = j]

(* A reply goes to the handler's own client, in the step that decides it;  *)
(* the write's outcome is ignored, the next read finds a broken connection.*)
Reply(c) == Written(c) \/ WriteFailed(c)

(* Mutant: the record is never appended. *)
MessageUnlogged(c, to, k) ==
    [stage |-> "write", frame |-> [op |-> "msg", sid |-> FromId(c), id |-> requests + 1],
     to |-> to, counter |-> k]

Message(c, to, k) ==
    [stage |-> "log", frame |-> [op |-> "msg", sid |-> FromId(c), id |-> requests + 1],
     to |-> to, counter |-> k]

(* A ping; a list, which reads the registry or is refused to a control     *)
(* without listener; a malformed, unknown, duplicate-hello or invalid-name *)
(* frame: the reply is all that happens.                                   *)
Answer(c) ==
    /\ Read(c)
    /\ Reply(c)
    /\ UNCHANGED <<registry, client, pc, job, closing, received, log, stats>>

(* Text over the cap, no target, or (broadcast) a dead listener or an      *)
(* exhausted quota.  The window of the quota is RateLimit's subject: here  *)
(* a broadcast may find it exhausted at any time.                          *)
Reject(c) ==
    /\ Read(c)
    /\ Reply(c)
    /\ stats' = Bump("rejected")
    /\ UNCHANGED <<registry, client, pc, job, closing, received, log>>

HandleSend(c, t) ==
    /\ Read(c)
    /\ \E a \in Resolve(c, t) : Start(c, Message(c, {a}, "sent"))
    /\ UNCHANGED <<registry, client, pc, open, closing, received, log, stats>>

HandleBroadcast(c) ==
    /\ Read(c)
    /\ Alive(c)
    /\ Start(c, Message(c, Others(FromId(c)), "broadcast"))
    /\ UNCHANGED <<registry, client, pc, open, closing, received, log, stats>>

(* The target of a rename is whoever is registered for the session, which  *)
(* for a replaced connection is its successor.                             *)
HandleRename(c, n) ==
    LET s == FromId(c)
        a == registry[s]
        ok == a \in Agents /\ NameFree(n, s)
    IN
    /\ Read(c)
    /\ \/ /\ ok
          /\ client' = [client EXCEPT ![a].name = n, ![c].name = n]
          /\ Start(c, [Event("renamed", s, "none") EXCEPT !.stage = "ack"])
          /\ UNCHANGED open
       \/ /\ ~ok
          /\ Reply(c)
          /\ UNCHANGED <<client, job>>
    /\ UNCHANGED <<registry, pc, closing, received, log, stats>>

----------------------------------------------------------------------------
(* The rest of a call, step by step. *)

(* Mutant: the answer is waited for until the client takes it. *)
AckUntilWritten(c) ==
    /\ job[c].stage = "ack"
    /\ Written(c)
    /\ job' = [job EXCEPT ![c].stage = "snapshot"]
    /\ UNCHANGED <<registry, client, pc, closing, received, log, stats, requests>>

Ack(c) ==
    /\ job[c].stage = "ack"
    /\ Reply(c)
    /\ job' = [job EXCEPT ![c].stage = "snapshot"]
    /\ UNCHANGED <<registry, client, pc, closing, received, log, stats, requests>>

(* The record is appended before the first write; a failure is swallowed. *)
LogMessage(c) ==
    /\ job[c].stage = "log"
    /\ \/ log' = log \cup {job[c].frame.id}
       \/ LogMayFail /\ UNCHANGED log
    /\ job' = [job EXCEPT ![c].stage = "write"]
    /\ UNCHANGED <<registry, client, pc, open, closing, received, stats, requests>>

(* broadcastEvent takes the targets under the lock, writes to them after. *)
Snapshot(c) ==
    /\ job[c].stage = "snapshot"
    /\ stats' = Bump(job[c].counter)
    /\ job' = [job EXCEPT ![c].stage = "write", ![c].to = Others(job[c].frame.sid),
                          ![c].counter = "none"]
    /\ UNCHANGED <<registry, client, pc, open, closing, received, log, requests>>

WriteTo(c, d) ==
    /\ job[c].stage \in {"write", "expired"} /\ d \in job[c].to
    /\ Written(d)
    /\ received' = IF job[c].frame.op = "msg"
                   THEN [received EXCEPT ![d] = @ \cup {job[c].frame.id}] ELSE received
    /\ job' = [job EXCEPT ![c].to = @ \ {d}]
    /\ UNCHANGED <<registry, client, pc, closing, log, stats, requests>>

(* Mutant: a failed write ends the loop over the targets. *)
WriteFailsAndReturns(c, d) ==
    /\ job[c].stage = "write" /\ d \in job[c].to
    /\ WriteFailed(d)
    /\ job' = [job EXCEPT ![c].to = {}]
    /\ UNCHANGED <<registry, client, pc, closing, received, log, stats, requests>>

(* A message is given up for one target at a time: each write has its own  *)
(* timeout, and the loop goes on after a failure.                          *)
WriteFails(c, d) ==
    /\ job[c].stage = "write" /\ d \in job[c].to
    /\ WriteFailed(d)
    /\ job' = [job EXCEPT ![c].to = @ \ {d}]
    /\ UNCHANGED <<registry, client, pc, closing, received, log, stats, requests>>

(* The targets of an event share one 5s context, used up by the first that *)
(* is slow, hangs, or has another handler's write hanging on it.           *)
Expire(c) ==
    /\ job[c].stage = "write" /\ job[c].frame.op \in EventOp /\ job[c].to # {}
    /\ job' = [job EXCEPT ![c].stage = "expired"]
    /\ UNCHANGED <<registry, client, pc, open, closing, received, log, stats, requests>>

(* A write under an expired context may still win the library's select     *)
(* (WriteTo); else nothing is sent, and the connection closed or not.      *)
WriteExpired(c, d) ==
    /\ job[c].stage = "expired" /\ d \in job[c].to
    /\ open' \in {open, open \ {d}}
    /\ job' = [job EXCEPT ![c].to = @ \ {d}]
    /\ UNCHANGED <<registry, client, pc, closing, received, log, stats, requests>>

Finish(c) ==
    /\ job[c].stage \in {"write", "expired"} /\ job[c].to = {}
    /\ stats' = Bump(job[c].counter)
    /\ job' = [job EXCEPT ![c] = Idle]
    /\ UNCHANGED <<registry, client, pc, open, closing, received, log, requests>>

Work(c) ==
    \/ Ack(c) \/ LogMessage(c) \/ Snapshot(c) \/ Expire(c) \/ Finish(c)
    \/ \E d \in Conn : WriteTo(c, d) \/ WriteFails(c, d) \/ WriteExpired(c, d)

----------------------------------------------------------------------------
(* The end of a handler: unregister, announce, close. *)

(* Mutant: the entry is taken for its own whoever holds it. *)
OwnsAny(c) == registry[client[c].sessionID] # NoConn

Owns(c) == registry[client[c].sessionID] = c

(* Mutant: a control is announced as having left, too. *)
UnregisterAnnounces(c) ==
    /\ pc' = [pc EXCEPT ![c] = "leave"]
    /\ IF Owns(c)
       THEN /\ registry' = [registry EXCEPT ![client[c].sessionID] = NoConn]
            /\ job' = [job EXCEPT ![c] = Event("peer_left", client[c].sessionID, "left")]
       ELSE UNCHANGED <<registry, job>>

(* Mutant: the entry stays. *)
UnregisterForgets(c) ==
    /\ pc' = [pc EXCEPT ![c] = "leave"]
    /\ UNCHANGED <<registry, job>>

Unregister(c) ==
    /\ pc' = [pc EXCEPT ![c] = "leave"]
    /\ IF Owns(c)
       THEN /\ registry' = [registry EXCEPT ![client[c].sessionID] = NoConn]
            /\ job' = [job EXCEPT ![c] = IF client[c].role = "agent"
                                         THEN Event("peer_left", client[c].sessionID, "left")
                                         ELSE Idle]
       ELSE UNCHANGED <<registry, job>>

Bye(c) ==
    /\ Read(c)
    /\ Unregister(c)
    /\ UNCHANGED <<client, open, closing, received, log, stats>>

(* The connection is closed, broken, or silent for readTimeout. *)
ReadFails(c) ==
    /\ pc[c] = "serve" /\ job[c].stage = "idle"
    /\ Unregister(c)
    /\ open' = open \ {c}
    /\ UNCHANGED <<client, closing, received, log, stats, requests>>

Exit(c) ==
    /\ pc[c] = "leave" /\ job[c].stage = "idle"
    /\ pc' = [pc EXCEPT ![c] = "done"]
    /\ open' = open \ {c}
    /\ UNCHANGED <<registry, client, job, closing, received, log, stats, requests>>

(* The goroutine of helloAgent that closes a replaced connection. *)
CloseReplaced(c) ==
    /\ c \in closing
    /\ closing' = closing \ {c}
    /\ open' = open \ {c}
    /\ UNCHANGED <<registry, client, pc, job, received, log, stats, requests>>

----------------------------------------------------------------------------
Handshake(c) ==
    \/ RefuseHello(c) \/ Welcome(c) \/ WelcomeFails(c)
    \/ \E h \in Hellos : \/ AgentUnauthorized(c, h) \/ AgentNameTaken(c, h)
                         \/ AgentAccepted(c, h)
                         \/ ControlRefused(c, h) \/ ControlAccepted(c, h)

Dispatch(c) ==
    \/ Answer(c) \/ Reject(c) \/ HandleBroadcast(c) \/ Bye(c)
    \/ \E t \in Target : HandleSend(c, t)
    \/ \E n \in Name \cup {NoName} : HandleRename(c, n)

Next == \E c \in Conn : \/ Handshake(c) \/ Dispatch(c) \/ Work(c) \/ ReadFails(c)
                        \/ Exit(c) \/ CloseReplaced(c)

Spec == Init /\ [][Next]_vars

(* A handler that can take a step takes it: goroutines are scheduled, and  *)
(* every write it blocks in has a timeout.  A read need only end when the  *)
(* connection is closed: a healthy client may stay silent between pings.   *)
Fairness == \A c \in Conn : /\ WF_vars(Welcome(c) \/ WelcomeFails(c))
                            /\ WF_vars(Work(c))
                            /\ WF_vars(c \notin open /\ ReadFails(c))
                            /\ WF_vars(Exit(c))
                            /\ WF_vars(CloseReplaced(c))

FairSpec == Spec /\ Fairness

----------------------------------------------------------------------------
(* What makes the bus correct. *)

TypeOK ==
    /\ registry \in [SessionId -> Conn \cup {NoConn}]
    /\ client \in [Conn -> ClientState]
    /\ pc \in [Conn -> {"hello", "welcome", "serve", "leave", "done"}]
    /\ job \in [Conn -> Job]
    /\ open \subseteq Conn
    /\ closing \subseteq Conn
    /\ received \in [Conn -> SUBSET Nat]
    /\ log \subseteq Nat
    /\ stats \in [Counter -> Nat]
    /\ requests \in Nat

(* No two registered agents carry the same name, whatever hellos, renames, *)
(* replacements and departures interleave: a name addresses one session.   *)
UniqueNames ==
    \A a, b \in Agents : client[a].name = client[b].name /\ client[a].name # NoName => a = b

(* No session hears itself: nothing is on its way to the session of the    *)
(* connection that sends it or the one a control speaks for, not even when *)
(* the target has replaced the sender while it was sending.                *)
NoEcho ==
    \A c \in Conn : \A d \in job[c].to :
        client[d].sessionID \notin {client[c].sessionID, client[c].forSession}

(* What handlers send to others goes to agents: a control connection hears *)
(* nothing but the replies to its own requests.                            *)
ControlsHearReplies ==
    \A c \in Conn : \A d \in job[c].to : client[d].role = "agent"

(* A session gets a message at most once, even when it reconnects while    *)
(* the message is being written.                                           *)
AtMostOncePerSession ==
    \A c, d \in Conn : \A m \in received[c] :
        client[c].sessionID = client[d].sessionID =>
            /\ m \in received[d] => c = d
            /\ \A b \in Conn : job[b].frame.id = m => d \notin job[b].to

(* Whatever a client was sent is in messages.log, which "always" keeps the *)
(* full payload (README): no message outruns its record, unless an append  *)
(* fails, which the bus ignores.                                           *)
DeliveredIsLogged == LogMayFail \/ \A c \in Conn : received[c] \subseteq log

(* The totals of /api/stats agree with the registry and the log: each      *)
(* agent that was welcomed and counted is either registered or a candidate *)
(* for "left" at most once, and each logged message is counted once.       *)
StatsBalance ==
    LET counted == {c \in Agents : pc[c] \in {"serve", "leave"} /\ job[c].counter # "joined"}
        busy    == {c \in Conn : job[c].stage # "log" /\ job[c].counter \in {"sent", "broadcast"}}
    IN  /\ stats["left"] + Cardinality(counted) <= stats["joined"]
        /\ \/ LogMayFail
           \/ stats["sent"] + stats["broadcast"] + Cardinality(busy) = Cardinality(log)

(* An entry leaves the registry only by its own handler's unregister or by *)
(* a hello with the entry's nonce: the late unregister of a replaced       *)
(* connection, or another process, never removes a live session.           *)
RemovedByOwnerOrSuccessor(s, c) ==
    \/ pc[c] = "serve" /\ pc'[c] = "leave"
    \/ \E d \in Conn, h \in Hellos : /\ pc[d] = "hello" /\ pc'[d] # "hello"
                                     /\ HelloSession(d, h) = s
                                     /\ h.nonce # NoNonce /\ h.nonce = client[c].nonce

RemovalsAreOwned ==
    \A s \in SessionId :
        registry[s] # NoConn /\ registry'[s] # registry[s]
            => RemovedByOwnerOrSuccessor(s, registry[s])

OnlyOwnerOrSuccessorRemoves == [][RemovalsAreOwned]_vars

(* A target of a message is given up only with its connection: one that    *)
(* hangs or breaks costs none of the others the message.                   *)
TargetsAreServed ==
    [][\A c, d \in Conn :
          job[c].frame.op = "msg" /\ d \in job[c].to /\ d \notin job'[c].to =>
              d \notin open' \/ job[c].frame.id \in received'[d]]_vars

(* The registry keeps the promises of Directory: at any time a session id  *)
(* is held, under its current name and nonce, by its registered agent.     *)
Holders ==
    [s \in SessionId |->
        IF registry[s] # NoConn /\ client[registry[s]].role = "agent"
        THEN [name |-> client[registry[s]].name, nonce |-> client[registry[s]].nonce]
        ELSE NoConn]

D == INSTANCE Directory WITH holder <- Holders, Vacant <- NoConn

ImplementsDirectory == D!Spec

(* No call keeps a handler for ever, whatever the clients it writes to do. *)
HandlersFinish ==
    \A c \in Conn : job[c].stage # "idle" ~> job[c].stage = "idle"

(* A served connection that is closed is unregistered and its handler ends,*)
(* so that a name or a session is not held by the dead.                    *)
BrokenConnectionsLeave ==
    \A c \in Conn :
        (pc[c] = "serve" /\ c \notin open) ~> (c \notin Agents /\ pc[c] = "done")

----------------------------------------------------------------------------
(* What the repository says of the bus, and the code does not do. *)

(* The first frame of a connection that is not refused is its welcome, as  *)
(* server_test.go expects: nobody writes to an agent before it is written. *)
WelcomeComesFirst ==
    [][\A c, d \in Conn : WriteTo(c, d) => pc[d] # "welcome"]_vars

(* Agents are "alive" while their handler runs (listenerAliveLocked): an   *)
(* agent in the registry has a handler that will unregister it.            *)
RegisteredHasHandler == \A c \in Agents : pc[c] # "done"

(* ...and the other way round, an agent that is being served, and that no  *)
(* successor has replaced, is registered: its controls are "alive iff      *)
(* their listener is still in the registry" (listenerAliveLocked).         *)
ServedIsRegistered ==
    \A c \in Conn :
        client[c].role = "agent" /\ pc[c] = "serve" /\ c \in open \ closing => c \in Agents

(* A stale control cannot slip a message between the liveness check and    *)
(* the actual send (resolveSendTarget).                                    *)
NoStaleControlMessage ==
    [][\A c, d \in Conn : WriteTo(c, d) /\ job[c].frame.op = "msg" => Alive(c)]_vars
============================================================================
