------------------------------- MODULE Commands -------------------------------
(***************************************************************************)
(* A helper's command over its control connection: what the helper reports *)
(* (ControlConn, runWithControlConn) and what the server did.  JSON        *)
(* escapes a text, up to six bytes for one: a text has a raw size, which   *)
(* the helper looks at, and an encoded one, which the server's limit on    *)
(* frames is about.                                                        *)
(***************************************************************************)
EXTENDS Naturals

CONSTANTS
    Helper,            \* helper processes
    Command,           \* what they are asked to do
    TextCap, BroadcastTextCap,
    FrameCap,          \* WSFrameCap
    Header             \* size of a Send besides its text

Kind == {"send", "broadcast", "rename", "list"}

ASSUME CommandsAssumption ==
    /\ Command \subseteq [kind : Kind, raw : Nat, enc : Nat]
    /\ \A c \in Command : c.raw <= c.enc
    /\ TextCap \in Nat /\ BroadcastTextCap \in Nat /\ FrameCap \in Nat
    /\ Header \in Nat

VARIABLES
    command,  \* what a helper was asked to do
    hpc,      \* where the helper is: new, wait, done
    verdict,  \* its exit: ok, refused (the server's error frame), failed
    spc,      \* where its handler is: idle, read, act, reply, done
    answer,   \* the reply the handler has decided on
    wire,     \* what waits for the helper's Read
    carried   \* helpers whose command has been carried out

commandsVars == <<command, hpc, verdict, spc, answer, wire, carried>>

NoCommand == [kind |-> "list", raw |-> 0, enc |-> 0]

(* SendDirect and SendBroadcast take silence for success; Rename and List  *)
(* block for the response.                                                 *)
Silent(h) == command[h].kind \in {"send", "broadcast"}

TooLong(c) ==
    \/ c.kind = "send" /\ c.raw > TextCap
    \/ c.kind = "broadcast" /\ c.raw > BroadcastTextCap

(* SetReadLimit *)
OverLimit(h) == command[h].enc + Header > FrameCap

CommandsInit ==
    /\ command = [h \in Helper |-> NoCommand]
    /\ hpc = [h \in Helper |-> "new"]
    /\ verdict = [h \in Helper |-> "none"]
    /\ spc = [h \in Helper |-> "idle"]
    /\ answer = [h \in Helper |-> "none"]
    /\ wire = [h \in Helper |-> "none"]
    /\ carried = {}

----------------------------------------------------------------------------
(* The helper *)

Exit(h, v) ==
    /\ hpc' = [hpc EXCEPT ![h] = "done"]
    /\ verdict' = [verdict EXCEPT ![h] = v]

Ask(h, c) ==
    /\ hpc[h] = "new"
    /\ command' = [command EXCEPT ![h] = c]
    /\ IF TooLong(c)
       THEN Exit(h, "failed") /\ UNCHANGED spc
       ELSE /\ hpc' = [hpc EXCEPT ![h] = "wait"]
            /\ spc' = [spc EXCEPT ![h] = "read"]
            /\ UNCHANGED verdict
    /\ UNCHANGED <<answer, wire, carried>>

AskFails(h, c) ==
    /\ hpc[h] = "new"
    /\ command' = [command EXCEPT ![h] = c]
    /\ Exit(h, "failed")
    /\ UNCHANGED <<spc, answer, wire, carried>>

(* Mutant: every command takes silence for success. *)
NoFrameAnyway(h) == Exit(h, "ok")

(* The deadline has passed, or the connection is closed. *)
NoFrame(h) == Exit(h, IF Silent(h) THEN "ok" ELSE "failed")

Conclude(h) ==
    /\ hpc[h] = "wait"
    /\ \/ wire[h] = "error" /\ Exit(h, "refused")
       \/ wire[h] = "result" /\ Exit(h, "ok")
       \/ wire[h] = "closed" /\ NoFrame(h)
    /\ UNCHANGED <<command, spc, answer, wire, carried>>

(* A frame may come in at the last moment and not be read. *)
TimesOut(h) ==
    /\ hpc[h] = "wait"
    /\ NoFrame(h)
    /\ UNCHANGED <<command, spc, answer, wire, carried>>

----------------------------------------------------------------------------
(* The server *)

SGoto(h, l) == spc' = [spc EXCEPT ![h] = l]

(* A frame over the read limit closes the connection. *)
ReadCommand(h) ==
    /\ spc[h] = "read"
    /\ IF OverLimit(h)
       THEN SGoto(h, "done") /\ wire' = [wire EXCEPT ![h] = "closed"]
       ELSE SGoto(h, "act") /\ UNCHANGED wire
    /\ UNCHANGED <<command, hpc, verdict, answer, carried>>

(* No such peer, a dead listener, an exhausted quota, a taken name. *)
RefuseCommand(h) ==
    /\ spc[h] = "act"
    /\ answer' = [answer EXCEPT ![h] = "error"]
    /\ SGoto(h, "reply")
    /\ UNCHANGED <<command, hpc, verdict, wire, carried>>

Carry(h) ==
    /\ spc[h] = "act"
    /\ carried' = carried \cup {h}
    /\ IF Silent(h)
       THEN SGoto(h, "done") /\ UNCHANGED answer
       ELSE SGoto(h, "reply") /\ answer' = [answer EXCEPT ![h] = "result"]
    /\ UNCHANGED <<command, hpc, verdict, wire>>

Reply(h) ==
    /\ spc[h] = "reply"
    /\ SGoto(h, "done")
    /\ wire' = [wire EXCEPT ![h] = IF @ = "none" THEN answer[h] ELSE @]
    /\ UNCHANGED <<command, hpc, verdict, answer, carried>>

(* The connection breaks; a command the server has read runs on. *)
Break(h) ==
    /\ hpc[h] = "wait" /\ wire[h] = "none"
    /\ wire' = [wire EXCEPT ![h] = "closed"]
    /\ \/ spc[h] = "read" /\ SGoto(h, "done")
       \/ spc[h] # "read" /\ UNCHANGED spc
    /\ UNCHANGED <<command, hpc, verdict, answer, carried>>

CommandsNext == \E h \in Helper :
    \/ \E c \in Command : Ask(h, c) \/ AskFails(h, c)
    \/ Conclude(h) \/ TimesOut(h) \/ Break(h)
    \/ ReadCommand(h) \/ RefuseCommand(h) \/ Carry(h) \/ Reply(h)

CommandsSpec == CommandsInit /\ [][CommandsNext]_commandsVars

----------------------------------------------------------------------------
CommandsTypeOK ==
    /\ command \in [Helper -> Command \cup {NoCommand}]
    /\ hpc \in [Helper -> {"new", "wait", "done"}]
    /\ verdict \in [Helper -> {"none", "ok", "refused", "failed"}]
    /\ spc \in [Helper -> {"idle", "read", "act", "reply", "done"}]
    /\ answer \in [Helper -> {"none", "error", "result"}]
    /\ wire \in [Helper -> {"none", "error", "result", "closed"}]
    /\ carried \subseteq Helper

(* Whatever the timing: a command that was refused is never carried out,   *)
(* and a rename or list that succeeded was (SendDirect, Rename, List,      *)
(* expectErrorOrTimeout).  Success of a send or broadcast says neither.    *)
VerdictIsHonest ==
    \A h \in Helper :
        /\ verdict[h] = "refused" => h \notin carried /\ spc[h] = "done"
        /\ verdict[h] = "ok" /\ ~Silent(h) => h \in carried
===============================================================================
