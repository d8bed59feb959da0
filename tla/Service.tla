-------------------------------- MODULE Service -------------------------------
(***************************************************************************)
(* The launchd service (internal/service): `team service ...` commands,    *)
(* each call of launchctl and each write of the plist a step, that may     *)
(* fail or be the last before the command is killed.  launchd keeps what   *)
(* it loaded, whatever the plist on disk says since.                       *)
(***************************************************************************)
EXTENDS Naturals

CONSTANTS
    Cli,      \* team service processes
    Binary,   \* paths of the team binary, before and after an upgrade
    MaxTrouble, \* bound: failures and kills
    MaxCalls    \* bound: commands run

Nothing == "nothing"

ASSUME ServiceAssumption ==
    /\ Nothing \notin Binary
    /\ MaxTrouble \in Nat
    /\ MaxCalls \in Nat

VARIABLES
    plist,    \* the binary in the plist, or Nothing
    job,      \* the binary in the job launchd has loaded, or Nothing
    up,       \* is the job's process running?
    step,     \* where a command is: idle, write, status, bootout, bootstrap, remove
    wanted,   \* the binary it installs
    changed,  \* plistChanged
    alarm,    \* has a command failed or been killed since the last one that loaded
              \* the job or removed the plist?
    trouble,
    calls

serviceVars == <<plist, job, up, step, wanted, changed, alarm, trouble, calls>>

ServiceInit ==
    /\ plist = Nothing
    /\ job = Nothing
    /\ up = FALSE
    /\ step = [c \in Cli |-> "idle"]
    /\ wanted = [c \in Cli |-> Nothing]
    /\ changed = [c \in Cli |-> FALSE]
    /\ alarm = FALSE
    /\ trouble = 0
    /\ calls = 0

At(c, s) == step[c] = s
ServiceGoto(c, s) == step' = [step EXCEPT ![c] = s]

Call(c) == At(c, "idle") /\ calls < MaxCalls /\ calls' = calls + 1

(* Something fails, and the command with it. *)
Fails(c) ==
    /\ trouble < MaxTrouble
    /\ trouble' = trouble + 1
    /\ alarm' = TRUE
    /\ ServiceGoto(c, "idle")

----------------------------------------------------------------------------
(* launchd *)

(* A job is loaded only if none is; its process is started (RunAtLoad).    *)
Load ==
    /\ job' = plist
    /\ up' = (plist # Nothing)
    /\ alarm' = FALSE

(* A login loads the plist on disk.  No command runs across a logout. *)
Login ==
    /\ \A c \in Cli : At(c, "idle")
    /\ job # plist
    /\ Load
    /\ UNCHANGED <<plist, step, wanted, changed, trouble, calls>>

(* KeepAlive *)
Revive ==
    /\ job # Nothing /\ ~up
    /\ up' = TRUE
    /\ UNCHANGED <<plist, job, step, wanted, changed, alarm, trouble, calls>>

ServerExits ==
    /\ up
    /\ up' = FALSE
    /\ UNCHANGED <<plist, job, step, wanted, changed, alarm, trouble, calls>>

----------------------------------------------------------------------------
(* Install *)

ReadPlist(c, b) ==
    /\ Call(c)
    /\ wanted' = [wanted EXCEPT ![c] = b]
    /\ changed' = [changed EXCEPT ![c] = plist # b]
    /\ ServiceGoto(c, IF plist # b THEN "write" ELSE "status")
    /\ UNCHANGED <<plist, job, up, alarm, trouble>>

WritePlist(c) ==
    /\ At(c, "write")
    /\ plist' = wanted[c]
    /\ ServiceGoto(c, "status")
    /\ UNCHANGED <<job, up, wanted, changed, alarm, trouble, calls>>

(* Status: launchctl print.  Its error is ignored: the service then counts *)
(* as not loaded, as it does for any exit code but 0.                      *)
ReadStatusFails(c) ==
    /\ At(c, "status") /\ trouble < MaxTrouble
    /\ trouble' = trouble + 1
    /\ ServiceGoto(c, "bootstrap")
    /\ UNCHANGED <<plist, job, up, wanted, changed, alarm, calls>>

(* Mutant: a loaded service is left alone. *)
AlreadyLoaded(c) ==
    /\ At(c, "status") /\ job # Nothing
    /\ ServiceGoto(c, "idle")
    /\ UNCHANGED <<plist, job, up, wanted, changed, alarm, trouble, calls>>

(* "already installed": the plist was as wanted, and some job is loaded.   *)
AlreadyInstalled(c) ==
    /\ At(c, "status") /\ job # Nothing /\ ~changed[c]
    /\ ServiceGoto(c, "idle")
    /\ UNCHANGED <<plist, job, up, wanted, changed, alarm, trouble, calls>>

ReadStatus(c) ==
    /\ At(c, "status") /\ (job # Nothing => changed[c])
    /\ ServiceGoto(c, IF job = Nothing THEN "bootstrap" ELSE "bootout")
    /\ UNCHANGED <<plist, job, up, wanted, changed, alarm, trouble, calls>>

(* The exit code of bootout is not looked at. *)
Bootout(c) ==
    /\ At(c, "bootout")
    /\ job' = Nothing
    /\ up' = FALSE
    /\ ServiceGoto(c, "bootstrap")
    /\ UNCHANGED <<plist, wanted, changed, alarm, trouble, calls>>

BootoutRefused(c) ==
    /\ At(c, "bootout") /\ trouble < MaxTrouble
    /\ trouble' = trouble + 1
    /\ ServiceGoto(c, "bootstrap")
    /\ UNCHANGED <<plist, job, up, wanted, changed, alarm, calls>>

Bootstrap(c) ==
    /\ At(c, "bootstrap") /\ job = Nothing /\ plist # Nothing
    /\ Load
    /\ ServiceGoto(c, "idle")
    /\ UNCHANGED <<plist, wanted, changed, trouble, calls>>

(* There is no plist, or launchd has the job: an error for the user. *)
BootstrapRefused(c) ==
    /\ At(c, "bootstrap") /\ (job # Nothing \/ plist = Nothing)
    /\ alarm' = TRUE
    /\ ServiceGoto(c, "idle")
    /\ UNCHANGED <<plist, job, up, wanted, changed, trouble, calls>>

----------------------------------------------------------------------------
(* Uninstall: bootout, whose exit code is only reported, then the plist.   *)

UninstallJob(c) ==
    /\ Call(c)
    /\ job' = Nothing
    /\ up' = FALSE
    /\ ServiceGoto(c, "remove")
    /\ UNCHANGED <<plist, wanted, changed, alarm, trouble>>

UninstallRefused(c) ==
    /\ Call(c) /\ trouble < MaxTrouble
    /\ trouble' = trouble + 1
    /\ ServiceGoto(c, "remove")
    /\ UNCHANGED <<plist, job, up, wanted, changed, alarm>>

RemovePlist(c) ==
    /\ At(c, "remove")
    /\ plist' = Nothing
    /\ alarm' = FALSE
    /\ ServiceGoto(c, "idle")
    /\ UNCHANGED <<job, up, wanted, changed, trouble, calls>>

----------------------------------------------------------------------------
(* Start and Restart end with the process up, Stop with it gone for now;   *)
(* without a job all three are errors that change nothing.                 *)
StartStop(c) ==
    /\ Call(c) /\ job # Nothing
    /\ up' \in BOOLEAN
    /\ UNCHANGED <<plist, job, step, wanted, changed, alarm, trouble>>

(* launchctl cannot be run, the plist cannot be written or removed, or the *)
(* user presses Ctrl-C.  A plist torn in writing is as good as none.       *)
Abandon(c) ==
    /\ ~At(c, "idle")
    /\ Fails(c)
    /\ \/ UNCHANGED plist
       \/ At(c, "write") /\ plist' = Nothing
    /\ UNCHANGED <<job, up, wanted, changed, calls>>

ServiceNext ==
    \/ Login \/ Revive \/ ServerExits
    \/ \E c \in Cli :
          \/ \E b \in Binary : ReadPlist(c, b)
          \/ WritePlist(c)
          \/ AlreadyInstalled(c) \/ ReadStatus(c) \/ ReadStatusFails(c)
          \/ Bootout(c) \/ BootoutRefused(c)
          \/ Bootstrap(c) \/ BootstrapRefused(c)
          \/ UninstallJob(c) \/ UninstallRefused(c) \/ RemovePlist(c)
          \/ StartStop(c) \/ Abandon(c)

ServiceSpec == ServiceInit /\ [][ServiceNext]_serviceVars

----------------------------------------------------------------------------
ServiceTypeOK ==
    /\ plist \in Binary \cup {Nothing}
    /\ job \in Binary \cup {Nothing}
    /\ up \in BOOLEAN
    /\ step \in [Cli -> {"idle", "write", "status", "bootout", "bootstrap", "remove"}]
    /\ wanted \in [Cli -> Binary \cup {Nothing}]
    /\ changed \in [Cli -> BOOLEAN]
    /\ alarm \in BOOLEAN
    /\ trouble \in 0 .. MaxTrouble
    /\ calls \in 0 .. MaxCalls
    /\ up => job # Nothing

(* Once no command is at work, an installed service whose job is not the   *)
(* one in its plist has had a command that failed or was killed since the  *)
(* last one that loaded or removed it: of themselves, and whatever their   *)
(* interleaving, commands that run through leave plist and job agreed      *)
(* (Install, Uninstall).  The failure may have been forgotten since: a     *)
(* later Install may have said "already installed" of the old job.         *)
StaleJobHadFailure ==
    (\A c \in Cli : At(c, "idle")) /\ plist # Nothing /\ plist # job => alarm
===============================================================================
