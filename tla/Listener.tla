------------------------------ MODULE Listener ------------------------------
(***************************************************************************)
(* The listeners of one Claude Code session (internal/client): "team       *)
(* connect" processes that compete for the session's flock, keep a         *)
(* connection to the server and a state file; and the helper processes     *)
(* ("team send" and the like) that find the listener by that file.  Any of *)
(* them, and the server, may stop or be killed between two steps.          *)
(*                                                                         *)
(* A process has its own session id and nonce for life: the process itself *)
(* stands for both, in the state file and in the server's registry.        *)
(***************************************************************************)
EXTENDS Naturals

CONSTANTS
    Proc,           \* "team connect" processes ever started for the session
    Helper,         \* helper processes ever started for it
    NoProc,
    MaxCollisions,  \* maxCollisions
    MaxFaults       \* bound: outages, broken connections and failed writes

ASSUME ListenerAssumption ==
    /\ NoProc \notin Proc
    /\ MaxCollisions \in Nat \ {0}
    /\ MaxFaults \in Nat

VARIABLES
    pc,          \* where a listener is in Run and connectAndServe
    lock,        \* holder of the flock
    file,        \* whose record the state file holds
    conn,        \* a listener's connection: none, hello sent, or served
    reply,       \* the server's answer to the hello, not read yet
    registered,  \* listeners in the server's registry
    up,          \* does the server run?
    cancelled,   \* listeners that got SIGTERM or lost their parent
    collisions,  \* names a listener was told are taken
    hpc,         \* where a helper is
    seen,        \* whose record a helper read
    faults

files == <<lock, file>>
server == <<registered, up>>
helpers == <<hpc, seen>>
vars == <<pc, files, conn, reply, server, cancelled, collisions, helpers, faults>>

----------------------------------------------------------------------------
Running == {"dial", "hello", "record", "serve", "retry"}  \* inside Run's loop
Holding == Running \cup {"delete", "unlock"}

Goto(p, l) == pc' = [pc EXCEPT ![p] = l]

(* connectAndServe returns: its deferred CloseNow runs. *)
Return(p, l) ==
    /\ Goto(p, l)
    /\ conn' = [conn EXCEPT ![p] = "none"]
    /\ reply' = [reply EXCEPT ![p] = "none"]

Fault == faults < MaxFaults /\ faults' = faults + 1

(* The operation fails for cause b, or by a fault. *)
FailsFor(b) == \/ b /\ UNCHANGED faults
               \/ Fault

Init ==
    /\ pc = [p \in Proc |-> "start"]
    /\ lock = NoProc
    /\ file = NoProc
    /\ conn = [p \in Proc |-> "none"]
    /\ reply = [p \in Proc |-> "none"]
    /\ registered = {}
    /\ up \in BOOLEAN
    /\ cancelled = {}
    /\ collisions = [p \in Proc |-> 0]
    /\ hpc = [h \in Helper |-> "start"]
    /\ seen = [h \in Helper |-> NoProc]
    /\ faults = 0

----------------------------------------------------------------------------
(* Run. *)

(* Mutant: the result of flock is ignored. *)
AcquireAnyway(p) ==
    /\ pc[p] = "start"
    /\ lock' = p
    /\ Goto(p, "dial")
    /\ UNCHANGED <<file, conn, reply, server, cancelled, collisions, helpers, faults>>

Acquire(p) ==
    /\ pc[p] = "start" /\ lock = NoProc
    /\ lock' = p
    /\ Goto(p, "dial")
    /\ UNCHANGED <<file, conn, reply, server, cancelled, collisions, helpers, faults>>

(* A second monitor prints that one is running and returns. *)
AcquireFails(p) ==
    /\ pc[p] = "start"
    /\ FailsFor(lock # NoProc)
    /\ Goto(p, "exit")
    /\ UNCHANGED <<files, conn, reply, server, cancelled, collisions, helpers>>

(* Mutant: a cancelled context does not end the loop. *)
RetryAnyway(p) ==
    /\ pc[p] = "retry"
    /\ Goto(p, "dial")
    /\ UNCHANGED <<files, conn, reply, server, cancelled, collisions, helpers, faults>>

(* After an error: stop if cancelled, else dial again (after a backoff).   *)
Retry(p) ==
    /\ pc[p] = "retry"
    /\ Goto(p, IF p \in cancelled THEN "delete" ELSE "dial")
    /\ UNCHANGED <<files, conn, reply, server, cancelled, collisions, helpers, faults>>

(* The deferred calls, last first: DeleteSessionState, whatever the file   *)
(* holds, then lock.Close.                                                 *)
DeleteState(p) ==
    /\ pc[p] = "delete"
    /\ file' = NoProc
    /\ Goto(p, "unlock")
    /\ UNCHANGED <<lock, conn, reply, server, cancelled, collisions, helpers, faults>>

Unlock(p) ==
    /\ pc[p] = "unlock"
    /\ lock' = NoProc
    /\ Goto(p, "exit")
    /\ UNCHANGED <<file, conn, reply, server, cancelled, collisions, helpers, faults>>

(* SIGTERM, SIGINT, or parentWatch finds the parent gone. *)
Cancel(p) ==
    /\ pc[p] \in Running /\ p \notin cancelled
    /\ cancelled' = cancelled \cup {p}
    /\ UNCHANGED <<pc, files, conn, reply, server, collisions, helpers, faults>>

(* SIGKILL or a crash: the kernel releases the flock, the file stays.      *)
Kill(p) ==
    /\ pc[p] \in Holding
    /\ Return(p, "exit")
    /\ lock' = NoProc
    /\ UNCHANGED <<file, server, cancelled, collisions, helpers, faults>>

----------------------------------------------------------------------------
(* connectAndServe. *)

(* Identity verified, token read, dialled, hello written. *)
Dial(p) ==
    /\ pc[p] = "dial" /\ up /\ p \notin cancelled
    /\ conn' = [conn EXCEPT ![p] = "sent"]
    /\ Goto(p, "hello")
    /\ UNCHANGED <<files, reply, server, cancelled, collisions, helpers, faults>>

DialFails(p) ==
    /\ pc[p] = "dial"
    /\ FailsFor(~up \/ p \in cancelled)
    /\ Goto(p, "retry")
    /\ UNCHANGED <<files, conn, reply, server, cancelled, collisions, helpers>>

ReadWelcome(p) ==
    /\ pc[p] = "hello" /\ reply[p] = "welcome"
    /\ Goto(p, "record")
    /\ reply' = [reply EXCEPT ![p] = "none"]
    /\ UNCHANGED <<files, conn, server, cancelled, collisions, helpers, faults>>

(* Mutant: collisions are not counted. *)
ReadNameTakenUncounted(p) ==
    /\ pc[p] = "hello" /\ reply[p] = "name_taken"
    /\ Return(p, "dial")
    /\ UNCHANGED <<files, server, cancelled, collisions, helpers, faults>>

(* Mutant: one retry more than allowed. *)
ReadNameTakenOnceMore(p) ==
    /\ pc[p] = "hello" /\ reply[p] = "name_taken"
    /\ collisions' = [collisions EXCEPT ![p] = @ + 1]
    /\ Return(p, IF collisions[p] >= MaxCollisions THEN "delete" ELSE "dial")
    /\ UNCHANGED <<files, server, cancelled, helpers, faults>>

(* Dial at once with the suggested name, unless told so too often. *)
ReadNameTaken(p) ==
    /\ pc[p] = "hello" /\ reply[p] = "name_taken"
    /\ collisions' = [collisions EXCEPT ![p] = @ + 1]
    /\ Return(p, IF collisions[p] + 1 >= MaxCollisions THEN "delete" ELSE "dial")
    /\ UNCHANGED <<files, server, cancelled, helpers, faults>>

(* Any other error stops the client, as does a taken name without candidate. *)
ReadRejected(p) ==
    /\ pc[p] = "hello" /\ reply[p] = "rejected"
    /\ Return(p, "delete")
    /\ UNCHANGED <<files, server, cancelled, collisions, helpers, faults>>

(* The connection is lost or the context cancelled before a reply is read, *)
(* or (a fault) another frame comes first or the reply is lost with it.    *)
HelloFails(p) ==
    /\ pc[p] = "hello"
    /\ FailsFor(p \in cancelled \/ (conn[p] = "none" /\ reply[p] = "none"))
    /\ Return(p, "retry")
    /\ UNCHANGED <<files, server, cancelled, collisions, helpers>>

(* Mutant: a state file that exists is left alone. *)
RecordOnce(p) ==
    /\ pc[p] = "record"
    /\ file' = IF file = NoProc THEN p ELSE file
    /\ Goto(p, "serve")
    /\ UNCHANGED <<lock, conn, reply, server, cancelled, collisions, helpers, faults>>

(* WriteSessionState: a temporary file, renamed over the old one. *)
Record(p) ==
    /\ pc[p] = "record"
    /\ file' = p
    /\ Goto(p, "serve")
    /\ UNCHANGED <<lock, conn, reply, server, cancelled, collisions, helpers, faults>>

RecordFails(p) ==
    /\ pc[p] = "record"
    /\ Fault
    /\ Return(p, "retry")
    /\ UNCHANGED <<files, server, cancelled, collisions, helpers>>

(* A read of the loop fails. *)
ReadFails(p) ==
    /\ pc[p] = "serve" /\ (conn[p] = "none" \/ p \in cancelled)
    /\ Return(p, "retry")
    /\ UNCHANGED <<files, server, cancelled, collisions, helpers, faults>>

----------------------------------------------------------------------------
(* The server, as far as a listener's connection goes (module Bus). *)

Answer(p, r) ==
    /\ conn[p] = "sent"
    /\ conn' = [conn EXCEPT ![p] = IF r = "welcome" THEN "served" ELSE "none"]
    /\ reply' = [reply EXCEPT ![p] = r]
    /\ UNCHANGED <<pc, files, up, cancelled, collisions, helpers, faults>>

(* A hello with the nonce of the entry replaces it; one whose name is      *)
(* taken takes the entry out all the same; any other leaves it.            *)
Accept(p) == Answer(p, "welcome") /\ registered' = registered \cup {p}
NameTaken(p) == Answer(p, "name_taken") /\ registered' = registered \ {p}
Reject(p) == Answer(p, "rejected") /\ UNCHANGED registered

(* The server closes a connection, or it breaks. *)
Break(p) ==
    /\ conn[p] # "none"
    /\ Fault
    /\ conn' = [conn EXCEPT ![p] = "none"]
    /\ UNCHANGED <<pc, files, reply, server, cancelled, collisions, helpers>>

(* unregister, by the handler of a connection that is gone. *)
Unregister(p) ==
    /\ p \in registered /\ conn[p] # "served"
    /\ registered' = registered \ {p}
    /\ UNCHANGED <<pc, files, conn, reply, up, cancelled, collisions, helpers, faults>>

ServerStops ==
    /\ up /\ Fault
    /\ up' = FALSE
    /\ registered' = {}
    /\ conn' = [p \in Proc |-> "none"]
    /\ UNCHANGED <<pc, files, reply, cancelled, collisions, helpers>>

ServerStarts ==
    /\ ~up
    /\ up' = TRUE
    /\ UNCHANGED <<pc, files, conn, reply, registered, cancelled, collisions, helpers, faults>>

----------------------------------------------------------------------------
(* ControlDial. *)

HGoto(h, l) ==
    /\ hpc' = [hpc EXCEPT ![h] = l]
    /\ UNCHANGED <<pc, lock, conn, reply, server, cancelled, collisions, faults>>

(* FindListenerState *)
Find(h) ==
    /\ hpc[h] = "start"
    /\ seen' = [seen EXCEPT ![h] = file]
    /\ HGoto(h, IF file = NoProc THEN "absent" ELSE "dial")
    /\ UNCHANGED file

(* The server knows the listener: the helper does what it came for. *)
Attach(h) ==
    /\ hpc[h] = "dial" /\ up /\ seen[h] \in registered
    /\ HGoto(h, "attached")
    /\ UNCHANGED <<file, seen>>

(* unknown_peer or unauthorized *)
Refused(h) ==
    /\ hpc[h] = "dial" /\ up /\ seen[h] \notin registered
    /\ HGoto(h, "stale")
    /\ UNCHANGED <<file, seen>>

(* No server, another error, or no answer. *)
HelperFails(h) ==
    /\ hpc[h] = "dial"
    /\ HGoto(h, "failed")
    /\ UNCHANGED <<file, seen>>

(* UnlinkIfMatches reads the file again, and removes it in a second step.  *)
Reread(h) ==
    /\ hpc[h] = "stale"
    /\ HGoto(h, IF file = seen[h] THEN "unlink" ELSE "absent")
    /\ UNCHANGED <<file, seen>>

Unlink(h) ==
    /\ hpc[h] = "unlink"
    /\ file' = NoProc
    /\ HGoto(h, "unlinked")
    /\ UNCHANGED seen

----------------------------------------------------------------------------
Own(p) ==
    \/ Acquire(p) \/ AcquireFails(p) \/ Retry(p) \/ DeleteState(p) \/ Unlock(p)
    \/ Dial(p) \/ DialFails(p)
    \/ ReadWelcome(p) \/ ReadNameTaken(p) \/ ReadRejected(p) \/ HelloFails(p)
    \/ Record(p) \/ RecordFails(p) \/ ReadFails(p)

Serve(p) == Accept(p) \/ NameTaken(p) \/ Reject(p)

Next ==
    \/ \E p \in Proc : \/ Own(p) \/ Serve(p) \/ Cancel(p) \/ Kill(p)
                       \/ Break(p) \/ Unregister(p)
    \/ \E h \in Helper : \/ Find(h) \/ Attach(h) \/ Refused(h) \/ HelperFails(h)
                         \/ Reread(h) \/ Unlink(h)
    \/ ServerStops \/ ServerStarts

Spec == Init /\ [][Next]_vars

(* A process that can take a step takes it; the server answers a hello     *)
(* (helloTimeout sees to that), and launchd restarts it (KeepAlive).       *)
Fairness == /\ \A p \in Proc : WF_vars(Own(p)) /\ WF_vars(Serve(p))
            /\ WF_vars(ServerStarts)

FairSpec == Spec /\ Fairness

----------------------------------------------------------------------------
ListenerTypeOK ==
    /\ pc \in [Proc -> Holding \cup {"start", "exit"}]
    /\ lock \in Proc \cup {NoProc}
    /\ file \in Proc \cup {NoProc}
    /\ conn \in [Proc -> {"none", "sent", "served"}]
    /\ reply \in [Proc -> {"none", "welcome", "name_taken", "rejected"}]
    /\ registered \subseteq Proc
    /\ up \in BOOLEAN
    /\ cancelled \subseteq Proc
    /\ collisions \in [Proc -> 0 .. MaxCollisions]
    /\ hpc \in [Helper -> {"start", "dial", "attached", "stale", "unlink",
                           "unlinked", "absent", "failed"}]
    /\ seen \in [Helper -> Proc \cup {NoProc}]
    /\ faults \in Nat

(* A listener that is in its read loop can be found: the state file holds  *)
(* its record and never that of a dead or competing process, unless a      *)
(* helper took the file away.                                              *)
ServingIsFindable ==
    \A p \in Proc : pc[p] = "serve" =>
        file = p \/ (file = NoProc /\ \E h \in Helper : hpc[h] = "unlinked")

(* The end of a listener takes away no record of one that still runs: the  *)
(* flock is held until the file is gone.                                   *)
LiveRecordIsKept ==
    [][\A p \in Proc :
          DeleteState(p) => file \in {p, NoProc} \/ pc[file] = "exit"]_vars

(* A listener that dials is connected in the end, or gives up and exits:   *)
(* it does not go on colliding for ever.                                   *)
Settles == \A p \in Proc : pc[p] = "dial" ~> pc[p] \in {"serve", "exit"}

(* A listener that is told to stop, or whose parent is gone, exits: "team  *)
(* list" has no ghosts.                                                    *)
CancelledExits == \A p \in Proc : p \in cancelled ~> pc[p] = "exit"

(* UnlinkIfMatches is "TOCTOU-safe": a fresh listener's state is not       *)
(* stomped on.                                                             *)
FreshStateSurvives ==
    [][\A p \in Proc : pc[p] = "serve" /\ conn[p] = "served" /\ file = p
                          => file' = p \/ pc'[p] # "serve"]_vars
============================================================================
