--------------------------------- MODULE Keys ---------------------------------
(***************************************************************************)
(* ResolveListenerKey: listener and helpers of a Claude Code session look  *)
(* for the Claude process above them, one query of the process table after *)
(* another, while processes start and exit.  The key names the session's   *)
(* flock and state file.                                                   *)
(***************************************************************************)
EXTENDS Naturals

CONSTANTS MaxPid   \* bound: processes; a pid is not used again

ASSUME KeysAssumption == MaxPid \in Nat \ {0}

VARIABLES
    born,     \* the last process started
    parent,   \* process -> its parent; Gone: it has exited or not started
    claude,   \* processes whose command line looks like Claude Code
    probe,    \* process -> pid its walk looks at next, or Gone
    trail,    \* seen: the pids it has looked at
    above,    \* its ancestors when it began
    key       \* what ResolveListenerKey returned, or Gone

keysVars == <<born, parent, claude, probe, trail, above, key>>

Gone == 0
Root == 1
Pid == Root .. MaxPid
Running(p) == p = Root \/ parent[p] # Gone

KeysInit ==
    /\ born = Root
    /\ parent = [p \in Pid |-> Gone]
    /\ claude = {}
    /\ probe = [p \in Pid |-> Gone]
    /\ trail = [p \in Pid |-> {}]
    /\ above = [p \in Pid |-> {}]
    /\ key = [p \in Pid |-> Gone]

----------------------------------------------------------------------------
(* The operating system *)

Fork(p) ==
    /\ Running(p) /\ born < MaxPid
    /\ born' = born + 1
    /\ parent' = [parent EXCEPT ![born'] = p]
    /\ claude' \in {claude, claude \cup {born'}}
    /\ UNCHANGED <<probe, trail, above, key>>

(* Its children are init's from now on. *)
Exits(p) ==
    /\ p # Root /\ Running(p)
    /\ parent' = [q \in Pid |-> IF q = p THEN Gone
                                ELSE IF parent[q] = p THEN Root ELSE parent[q]]
    /\ probe' = [probe EXCEPT ![p] = Gone]
    /\ UNCHANGED <<born, claude, trail, above, key>>

----------------------------------------------------------------------------
(* ResolveListenerKey *)

(* Sets of processes with the parents of their members. *)
Upward(S) == \A q \in S : parent[q] \in S \cup {Gone}

(* The processes above p, up to the root: in every upward set with p.   *)
Ancestors(p) ==
    {a \in Pid \ {Root, p} : \A S \in SUBSET Pid : p \in S /\ Upward(S) => a \in S}

Begin(p) ==
    /\ p # Root /\ Running(p) /\ key[p] = Gone /\ probe[p] = Gone
    /\ probe' = [probe EXCEPT ![p] = parent[p]]
    /\ above' = [above EXCEPT ![p] = Ancestors(p)]
    /\ UNCHANGED <<born, parent, claude, trail, key>>

Resolved(p, k) ==
    /\ key' = [key EXCEPT ![p] = k]
    /\ probe' = [probe EXCEPT ![p] = Gone]
    /\ UNCHANGED <<born, parent, claude, trail, above>>

(* Mutant: the walk does not stop at the first Claude process. *)
ClimbOn(p) ==
    LET x == probe[p] IN
    /\ x # Gone /\ x # Root /\ x \notin trail[p] /\ Running(x)
    /\ x \in claude => Ancestors(x) \cap claude # {}
    /\ probe' = [probe EXCEPT ![p] = parent[x]]
    /\ trail' = [trail EXCEPT ![p] = @ \cup {x}]
    /\ UNCHANGED <<born, parent, claude, above, key>>

Climb(p) ==
    LET x == probe[p] IN
    /\ x # Gone /\ x # Root /\ x \notin trail[p] /\ Running(x)
    /\ x \notin claude
    /\ probe' = [probe EXCEPT ![p] = parent[x]]
    /\ trail' = [trail EXCEPT ![p] = @ \cup {x}]
    /\ UNCHANGED <<born, parent, claude, above, key>>

Found(p) ==
    LET x == probe[p] IN
    /\ x # Gone /\ x # Root /\ x \notin trail[p] /\ Running(x)
    /\ x \in claude
    /\ Resolved(p, x)

(* The walk has come to the root or round a circle, or the process it is   *)
(* to look at has exited: the key is the parent's pid.                     *)
NotFound(p) ==
    LET x == probe[p] IN
    /\ x # Gone
    /\ x = Root \/ x \in trail[p] \/ ~Running(x)
    /\ Resolved(p, parent[p])

KeysNext == \E p \in Pid :
    Fork(p) \/ Exits(p) \/ Begin(p) \/ Climb(p) \/ Found(p) \/ NotFound(p)

KeysSpec == KeysInit /\ [][KeysNext]_keysVars

----------------------------------------------------------------------------
KeysTypeOK ==
    /\ born \in Pid
    /\ parent \in [Pid -> Pid \cup {Gone}]
    /\ claude \subseteq Pid
    /\ probe \in [Pid -> Pid \cup {Gone}]
    /\ trail \in [Pid -> SUBSET Pid]
    /\ above \in [Pid -> SUBSET Pid]
    /\ key \in [Pid -> Pid \cup {Gone}]

(* Pids grow from parent to child, so the nearest ancestor is the last.    *)
Home(p) == {a \in above[p] \cap claude : \A b \in above[p] \cap claude : b <= a}

(* A key is a process above its owner, never another session's, and it is  *)
(* the nearest Claude process, on which a listener and its helpers agree,  *)
(* unless a process in between exited (findCCAncestorPid).                 *)
KeysAgree ==
    \A p \in Pid : key[p] # Gone =>
        /\ key[p] \in above[p] \cup {Root}
        /\ \A a \in Home(p) :
              (\A x \in above[p] : x >= a => Running(x)) => key[p] = a
===============================================================================
