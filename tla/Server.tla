------------------------------- MODULE Server -------------------------------
(***************************************************************************)
(* The life of a "team server" process (cmd/server.go) and the files it    *)
(* shares with everybody else: the token (auth/token.go), created by       *)
(* whoever needs it first, and the identity, a pidfile and its .meta       *)
(* (auth/identity.go), which listeners verify before they send the token.  *)
(* Processes may be killed, and file operations may fail, at any step.     *)
(*                                                                         *)
(* A process is its own pid; the token it writes is named after it.  A     *)
(* file that is truncated but not written yet fails to verify, as one that *)
(* is not there, and is not told apart from the write before or after it.  *)
(***************************************************************************)
EXTENDS Naturals

CONSTANTS
    Server,       \* "team server" processes ever started
    Listener,     \* "team connect" processes, restarted by their monitor
    Command,      \* commands that only need the token ("team debug token")
    None,
    Empty,        \* the token file exists and holds nothing
    Exclusive,    \* is a server started only when no other is alive (launchd)?
    MaxFaults     \* bound: kills, signals, failed operations, broken connections

Proc == Server \cup Listener \cup Command

ASSUME ServerAssumption ==
    /\ None \notin Proc /\ Empty \notin Proc /\ None # Empty
    /\ Server \cap Listener = {} /\ Server \cap Command = {}
    /\ Listener \cap Command = {}
    /\ Exclusive \in BOOLEAN
    /\ MaxFaults \in Nat

VARIABLES
    pc,        \* where a process is
    token,     \* who wrote the token file; None if there is no file
    got,       \* the token a process has read or written
    pidfile,   \* the pid in the pidfile
    meta,      \* the pid in .meta
    bound,     \* the process that listens on the port
    peer,      \* a listener: the pid being verified, then the server dialled
    signal,    \* a server: SIGTERM not sent, in the channel, or taken from it
    faults

tokens == <<token, got>>
identity == <<pidfile, meta>>
vars == <<pc, tokens, identity, bound, peer, signal, faults>>

----------------------------------------------------------------------------
Alive(p) == pc[p] \notin {"new", "exit"}

Goto(p, l) == pc' = [pc EXCEPT ![p] = l]

Fault == faults < MaxFaults /\ faults' = faults + 1

(* The operation fails for cause b, or by a fault. *)
FailsFor(b) == \/ b /\ UNCHANGED faults
               \/ Fault

(* What follows EnsureToken, when it returns a token and when it fails. *)
AfterToken(p) == CASE p \in Server -> "pid"
                   [] p \in Listener -> "dial"
                   [] p \in Command -> "exit"

AfterError(p) == IF p \in Listener THEN "verify" ELSE "exit"

Init ==
    /\ pc = [p \in Proc |-> IF p \in Listener THEN "verify" ELSE "new"]
    /\ token = None
    /\ got = [p \in Proc |-> None]
    /\ pidfile = None
    /\ meta = None
    /\ bound = None
    /\ peer = [c \in Listener |-> None]
    /\ signal = [p \in Server |-> "none"]
    /\ faults = 0

----------------------------------------------------------------------------
(* EnsureToken. *)

(* Mutant: without O_EXCL, an existing file is truncated. *)
OpenTokenTruncates(p) ==
    /\ pc[p] = "token"
    /\ token' = Empty
    /\ Goto(p, "write")
    /\ UNCHANGED <<got, identity, bound, peer, signal, faults>>

(* O_CREATE|O_EXCL: one caller creates the file, the others read it. *)
OpenToken(p) ==
    /\ pc[p] = "token"
    /\ \/ token = None /\ token' = Empty /\ Goto(p, "write")
       \/ token # None /\ UNCHANGED token /\ Goto(p, "read")
    /\ UNCHANGED <<got, identity, bound, peer, signal, faults>>

(* The directory cannot be made, or the file neither created nor found.    *)
OpenTokenFails(p) ==
    /\ pc[p] = "token"
    /\ Fault
    /\ Goto(p, AfterError(p))
    /\ UNCHANGED <<tokens, identity, bound, peer, signal>>

WriteToken(p) ==
    /\ pc[p] = "write"
    /\ token' = p
    /\ got' = [got EXCEPT ![p] = p]
    /\ Goto(p, AfterToken(p))
    /\ UNCHANGED <<identity, bound, peer, signal, faults>>

(* The file stays as it was created, or (Sync failed) has its body. *)
WriteTokenFails(p) ==
    /\ pc[p] = "write"
    /\ Fault
    /\ token' \in {token, p}
    /\ Goto(p, AfterError(p))
    /\ UNCHANGED <<got, identity, bound, peer, signal>>

(* Mutant: a loser takes what it reads first. *)
ReadTokenAtOnce(p) ==
    /\ pc[p] = "read"
    /\ got' = [got EXCEPT ![p] = token]
    /\ Goto(p, AfterToken(p))
    /\ UNCHANGED <<token, identity, bound, peer, signal, faults>>

(* A loser reads until the file has a body... *)
ReadToken(p) ==
    /\ pc[p] = "read" /\ token # Empty
    /\ got' = [got EXCEPT ![p] = token]
    /\ Goto(p, AfterToken(p))
    /\ UNCHANGED <<token, identity, bound, peer, signal, faults>>

(* ...but not for ever: nobody will write it, or (a fault) not in time, or *)
(* it cannot be read.                                                      *)
ReadTokenFails(p) ==
    /\ pc[p] = "read"
    /\ FailsFor(token = Empty /\ \A q \in Proc : pc[q] # "write")
    /\ Goto(p, AfterError(p))
    /\ UNCHANGED <<tokens, identity, bound, peer, signal>>

EnsureToken(p) ==
    \/ OpenToken(p) \/ OpenTokenFails(p) \/ WriteToken(p) \/ WriteTokenFails(p)
    \/ ReadToken(p) \/ ReadTokenFails(p)

----------------------------------------------------------------------------
(* "team server". *)

(* launchd starts a server when the last one is gone; anybody else may     *)
(* start one at any time ("team server &").                                *)
Start(p) ==
    /\ pc[p] = "new"
    /\ Exclusive /\ p \in Server => \A q \in Server : ~Alive(q)
    /\ Goto(p, "token")
    /\ UNCHANGED <<tokens, identity, bound, peer, signal, faults>>

(* WriteServerIdentity: the pidfile, then .meta. *)
WritePid(p) ==
    /\ pc[p] = "pid"
    /\ pidfile' = p
    /\ Goto(p, "meta")
    /\ UNCHANGED <<tokens, meta, bound, peer, signal, faults>>

(* Mutant: a .meta that exists is kept. *)
WriteMetaOnce(p) ==
    /\ pc[p] = "meta"
    /\ meta' = IF meta = None THEN p ELSE meta
    /\ Goto(p, "listen")
    /\ UNCHANGED <<tokens, pidfile, bound, peer, signal, faults>>

WriteMeta(p) ==
    /\ pc[p] = "meta"
    /\ meta' = p
    /\ Goto(p, "listen")
    /\ UNCHANGED <<tokens, pidfile, bound, peer, signal, faults>>

(* The file is as it was, truncated, or (chmod failed) written.  The       *)
(* removal is not deferred yet: what there is stays.                       *)
WriteIdentityFails(p) ==
    /\ Fault
    /\ \/ pc[p] = "pid" /\ pidfile' \in {pidfile, None, p} /\ UNCHANGED meta
       \/ pc[p] = "meta" /\ meta' \in {meta, None, p} /\ UNCHANGED pidfile
    /\ Goto(p, "exit")
    /\ UNCHANGED <<tokens, bound, peer, signal>>

Listen(p) ==
    /\ pc[p] = "listen" /\ bound = None
    /\ bound' = p
    /\ Goto(p, "notify")
    /\ UNCHANGED <<tokens, identity, peer, signal, faults>>

(* The port is taken: return, which runs unlinkOwnIdentity. *)
ListenFails(p) ==
    /\ pc[p] = "listen"
    /\ FailsFor(bound # None)
    /\ Goto(p, "unlink")
    /\ UNCHANGED <<tokens, identity, bound, peer, signal>>

(* signal.Notify, and the goroutine that waits for one signal. *)
Notify(p) ==
    /\ pc[p] = "notify"
    /\ Goto(p, "mount")
    /\ UNCHANGED <<tokens, identity, bound, peer, signal, faults>>

(* Serve sets httpServer and accepts connections. *)
Serve(p) ==
    /\ pc[p] = "mount"
    /\ Goto(p, "serve")
    /\ UNCHANGED <<tokens, identity, bound, peer, signal, faults>>

(* SIGTERM or SIGINT once Notify has run; a second one is never received.  *)
Signal(p) ==
    /\ pc[p] \in {"mount", "serve"} /\ signal[p] = "none"
    /\ Fault
    /\ signal' = [signal EXCEPT ![p] = "pending"]
    /\ UNCHANGED <<pc, tokens, identity, bound, peer>>

(* Mutant: Shutdown waits for the connections. *)
StopWaits(p) ==
    /\ signal[p] = "pending" /\ pc[p] = "serve"
    /\ \A c \in Listener : pc[c] = "in" => peer[c] # p
    /\ signal' = [signal EXCEPT ![p] = "taken"]
    /\ bound' = None
    /\ Goto(p, "unlink")
    /\ UNCHANGED <<tokens, identity, peer, faults>>

(* Mutant: the port is kept until the process exits. *)
StopLate(p) ==
    /\ signal[p] = "pending" /\ pc[p] = "serve"
    /\ signal' = [signal EXCEPT ![p] = "taken"]
    /\ Goto(p, "unlink")
    /\ UNCHANGED <<tokens, identity, bound, peer, faults>>

(* The goroutine's Stop.  Before Serve there is no httpServer and nothing  *)
(* happens; after, Shutdown closes the port and Serve returns at once.     *)
Stop(p) ==
    /\ signal[p] = "pending" /\ pc[p] \in {"mount", "serve"}
    /\ signal' = [signal EXCEPT ![p] = "taken"]
    /\ IF pc[p] = "serve"
       THEN bound' = None /\ Goto(p, "unlink")
       ELSE UNCHANGED <<bound, pc>>
    /\ UNCHANGED <<tokens, identity, peer, faults>>

ServeFails(p) ==
    /\ pc[p] = "serve"
    /\ Fault
    /\ bound' = None
    /\ Goto(p, "unlink")
    /\ UNCHANGED <<tokens, identity, peer, signal>>

(* unlinkOwnIdentity: the pidfile is read, then both files are removed.    *)
ReadOwnPid(p) ==
    /\ pc[p] = "unlink"
    /\ Goto(p, IF pidfile = p THEN "remove_pid" ELSE "exit")
    /\ UNCHANGED <<tokens, identity, bound, peer, signal, faults>>

RemovePid(p) ==
    /\ pc[p] = "remove_pid"
    /\ pidfile' = None
    /\ Goto(p, "remove_meta")
    /\ UNCHANGED <<tokens, meta, bound, peer, signal, faults>>

RemoveMeta(p) ==
    /\ pc[p] = "remove_meta"
    /\ meta' = None
    /\ Goto(p, "exit")
    /\ UNCHANGED <<tokens, pidfile, bound, peer, signal, faults>>

(* A pidfile that cannot be read is not removed; the error of a removal is *)
(* ignored.                                                                *)
UnlinkFails(p) ==
    /\ Fault
    /\ \/ pc[p] = "remove_pid" /\ Goto(p, "remove_meta")
       \/ pc[p] \in {"unlink", "remove_meta"} /\ Goto(p, "exit")
    /\ UNCHANGED <<tokens, identity, bound, peer, signal>>

RunServer(p) ==
    \/ Start(p) \/ EnsureToken(p)
    \/ WritePid(p) \/ WriteMeta(p) \/ WriteIdentityFails(p)
    \/ Listen(p) \/ ListenFails(p) \/ Notify(p) \/ Serve(p) \/ ServeFails(p)
    \/ ReadOwnPid(p) \/ RemovePid(p) \/ RemoveMeta(p) \/ UnlinkFails(p)

----------------------------------------------------------------------------
(* "team connect", as far as it depends on these files: verify, read the   *)
(* token, dial; after any error, again.                                    *)

VerifyPid(c) ==
    /\ pc[c] = "verify"
    /\ pidfile # None /\ Alive(pidfile)
    /\ peer' = [peer EXCEPT ![c] = pidfile]
    /\ Goto(c, "verify_meta")
    /\ UNCHANGED <<tokens, identity, bound, signal, faults>>

VerifyMeta(c) ==
    /\ pc[c] = "verify_meta"
    /\ Goto(c, IF meta = peer[c] THEN "token" ELSE "verify")
    /\ UNCHANGED <<tokens, identity, bound, peer, signal, faults>>

(* A file cannot be read: the server counts as not verified. *)
VerifyFails(c) ==
    /\ pc[c] \in {"verify", "verify_meta"}
    /\ Fault
    /\ Goto(c, "verify")
    /\ UNCHANGED <<tokens, identity, bound, peer, signal>>

(* The server compares the tokens; a client that is refused stops.         *)
Dial(c) ==
    /\ pc[c] = "dial" /\ bound # None /\ pc[bound] = "serve"
    /\ peer' = [peer EXCEPT ![c] = bound]
    /\ Goto(c, IF got[c] = got[bound] THEN "in" ELSE "exit")
    /\ UNCHANGED <<tokens, identity, bound, signal, faults>>

DialFails(c) ==
    /\ pc[c] = "dial"
    /\ FailsFor(bound = None)
    /\ Goto(c, "verify")
    /\ UNCHANGED <<tokens, identity, bound, peer, signal>>

(* The server is gone, or the connection breaks. *)
Dropped(c) ==
    /\ pc[c] = "in"
    /\ FailsFor(~Alive(peer[c]))
    /\ Goto(c, "verify")
    /\ UNCHANGED <<tokens, identity, bound, peer, signal>>

RunListener(c) ==
    \/ VerifyPid(c) \/ VerifyMeta(c) \/ VerifyFails(c) \/ EnsureToken(c)
    \/ Dial(c) \/ DialFails(c) \/ Dropped(c)

RunCommand(p) == Start(p) \/ EnsureToken(p)

(* SIGKILL, a crash, or SIGTERM before Notify.  The port is free again.    *)
Kill(p) ==
    /\ Alive(p)
    /\ Fault
    /\ Goto(p, AfterError(p))
    /\ bound' = IF bound = p THEN None ELSE bound
    /\ UNCHANGED <<tokens, identity, peer, signal>>

----------------------------------------------------------------------------
Next ==
    \/ \E p \in Server : RunServer(p) \/ Signal(p) \/ Stop(p)
    \/ \E c \in Listener : RunListener(c)
    \/ \E p \in Command : RunCommand(p)
    \/ \E p \in Proc : Kill(p)

Spec == Init /\ [][Next]_vars

(* A process that can take a step takes it, and launchd starts a server    *)
(* when there is none (KeepAlive).                                         *)
Fairness == /\ \A p \in Server : WF_vars(RunServer(p)) /\ WF_vars(Stop(p))
            /\ \A c \in Listener : WF_vars(RunListener(c))
            /\ \A p \in Command : WF_vars(RunCommand(p))

FairSpec == Spec /\ Fairness

----------------------------------------------------------------------------
ServerTypeOK ==
    /\ pc \in [Proc -> {"new", "token", "write", "read", "pid", "meta", "listen",
                        "notify", "mount", "serve", "unlink", "remove_pid",
                        "remove_meta", "verify", "verify_meta", "dial", "in", "exit"}]
    /\ token \in Proc \cup {None, Empty}
    /\ got \in [Proc -> Proc \cup {None}]
    /\ pidfile \in Server \cup {None}
    /\ meta \in Server \cup {None}
    /\ bound \in Server \cup {None}
    /\ peer \in [Listener -> Server \cup {None}]
    /\ signal \in [Server -> {"none", "pending", "taken"}]
    /\ faults \in Nat

(* EnsureToken: concurrent callers agree on one token, whoever of them     *)
(* creates the file and whoever is killed meanwhile, and it never changes. *)
TokensAgree == \A p, q \in Proc : None \in {got[p], got[q]} \/ got[p] = got[q]

(* The identity is published before the port is bound and removed after it *)
(* is closed, so whoever can dial can verify.                              *)
BoundHasIdentity == bound # None => pidfile = bound /\ meta = bound

(* "Clients always see a valid identity by the time they can dial": the    *)
(* server that is left when no other is alive has its identity on disk.    *)
SoleServerHasIdentity ==
    \A p \in Server : bound = p /\ (\A q \in Server \ {p} : ~Alive(q))
                          => pidfile = p /\ meta = p

(* A server that is told to stop while it serves exits, whoever is still   *)
(* connected to it.                                                        *)
ServingStops ==
    \A p \in Server : signal[p] = "pending" /\ pc[p] = "serve" ~> pc[p] = "exit"

(* Whatever crashed and whatever files it left, listeners get (back) in,   *)
(* unless a crash left the token file empty.                               *)
ListenersGetIn ==
    \/ \A c \in Listener : []<>(pc[c] = "in")
    \/ <>[](token = Empty)
============================================================================
