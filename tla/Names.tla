--------------------------------- MODULE Names --------------------------------
(***************************************************************************)
(* The name of a session, in four places: the listener's own (Client.name),*)
(* the one it says hello with; the registry's, which a rename changes; the *)
(* state file's, which its helpers show; and the one it is offered when    *)
(* its name is taken.  Connections break and are made again, and the       *)
(* server notices a break at any later time.                               *)
(***************************************************************************)
EXTENDS Naturals, Sequences, FiniteSets

CONSTANTS
    Agent,         \* listeners
    Wanted,        \* listener -> the name it was started with
    Suffix,        \* the N of "<base>-N": 2 .. what the length of a name allows
    MaxParts,      \* a base and its suffixes, within the length of a name
    MaxCollisions, \* Options.MaxCollisionRetries
    MaxDrops,      \* bound: connections that break
    MaxRenames     \* bound: renames

(* A name is a base followed by the suffixes added to it; <<>> is none.    *)
Name == Seq(Nat \ {0})
Unnamed == <<>>
Absent == <<0>>   \* no entry in the registry, no state file, no candidate

ASSUME NamesAssumption ==
    /\ Wanted \in [Agent -> Name]
    /\ Suffix \subseteq Nat \ {0}
    /\ MaxParts \in Nat
    /\ MaxCollisions \in Nat \ {0}
    /\ MaxDrops \in Nat
    /\ MaxRenames \in Nat

VARIABLES
    session,  \* off, welcome, on, refused, gone
    own,      \* Client.name
    held,     \* the name in the session's registry entry, or Absent
    filed,    \* the name in the state file, or Absent
    offered,  \* the candidate in the error frame, or Absent
    tries,    \* collisions counted
    renamed,  \* sessions renamed since they were last registered
    drops,
    renames

namesVars == <<session, own, held, filed, offered, tries, renamed, drops, renames>>

NamesInit ==
    /\ session = [a \in Agent |-> "off"]
    /\ own = Wanted
    /\ held = [a \in Agent |-> Absent]
    /\ filed = [a \in Agent |-> Absent]
    /\ offered = [a \in Agent |-> Absent]
    /\ tries = [a \in Agent |-> 0]
    /\ renamed = {}
    /\ drops = 0
    /\ renames = 0

To(a, s) == session' = [session EXCEPT ![a] = s]

----------------------------------------------------------------------------
(* The server *)

(* Mutant: names are compared before the session's old entry is removed. *)
HeldByAll(a) == {held[b] : b \in Agent}

(* The names in the registry but for a's. *)
HeldByOthers(a) == {held[b] : b \in Agent \ {a}}

(* NextAvailableName: the first suffix that makes a free name, if any.     *)
NextName(n, taken) ==
    LET free == {i \in Suffix : Len(n) < MaxParts /\ Append(n, i) \notin taken}
    IN  IF free = {} THEN Absent
        ELSE Append(n, CHOOSE i \in free : \A j \in free : i <= j)

(* Mutant: a name that the server has suggested is not checked again. *)
AcceptSuggested(a) ==
    /\ session[a] = "off"
    /\ own[a] = Unnamed \/ own[a] \notin HeldByOthers(a) \/ tries[a] > 0
    /\ held' = [held EXCEPT ![a] = own[a]]
    /\ renamed' = renamed \ {a}
    /\ To(a, "welcome")
    /\ UNCHANGED <<own, filed, offered, tries, drops, renames>>

Accept(a) ==
    /\ session[a] = "off"
    /\ own[a] = Unnamed \/ own[a] \notin HeldByOthers(a)
    /\ held' = [held EXCEPT ![a] = own[a]]
    /\ renamed' = renamed \ {a}
    /\ To(a, "welcome")
    /\ UNCHANGED <<own, filed, offered, tries, drops, renames>>

(* The session's old entry has been removed. *)
NameTaken(a) ==
    /\ session[a] = "off"
    /\ own[a] # Unnamed /\ own[a] \in HeldByOthers(a)
    /\ held' = [held EXCEPT ![a] = Absent]
    /\ offered' = [offered EXCEPT ![a] = NextName(own[a], HeldByOthers(a))]
    /\ To(a, "refused")
    /\ UNCHANGED <<own, filed, tries, renamed, drops, renames>>

(* handleRename, asked for by a helper. *)
RenameTo(a, n) ==
    /\ held[a] # Absent /\ renames < MaxRenames
    /\ n = Unnamed \/ n \notin HeldByOthers(a)
    /\ held' = [held EXCEPT ![a] = n]
    /\ renamed' = renamed \cup {a}
    /\ renames' = renames + 1
    /\ UNCHANGED <<session, own, filed, offered, tries, drops>>

(* The handler of a broken connection ends, before the listener notices    *)
(* (which counts as a drop) or after: unregister.                          *)
Unregister(a) ==
    /\ held[a] # Absent
    /\ IF session[a] \in {"off", "gone"} THEN UNCHANGED drops
       ELSE drops < MaxDrops /\ drops' = drops + 1
    /\ held' = [held EXCEPT ![a] = Absent]
    /\ UNCHANGED <<session, own, filed, offered, tries, renamed, renames>>

----------------------------------------------------------------------------
(* The listener *)

(* Mutant: the state file is written for the first connection only. *)
RecordNameOnce(a) ==
    /\ session[a] = "welcome"
    /\ filed' = IF filed[a] = Absent THEN [filed EXCEPT ![a] = own[a]] ELSE filed
    /\ To(a, "on")
    /\ UNCHANGED <<own, held, offered, tries, renamed, drops, renames>>

RecordName(a) ==
    /\ session[a] = "welcome"
    /\ filed' = [filed EXCEPT ![a] = own[a]]
    /\ To(a, "on")
    /\ UNCHANGED <<own, held, offered, tries, renamed, drops, renames>>

(* handleHelloError, Run: without a candidate, or at the last collision,   *)
(* the listener exits and removes its state file.                          *)
TakeOffer(a) ==
    LET last == offered[a] = Absent \/ tries[a] + 1 >= MaxCollisions IN
    /\ session[a] = "refused"
    /\ own' = [own EXCEPT ![a] = IF offered[a] = Absent THEN @ ELSE offered[a]]
    /\ tries' = [tries EXCEPT ![a] = IF offered[a] = Absent THEN @ ELSE @ + 1]
    /\ offered' = [offered EXCEPT ![a] = Absent]
    /\ filed' = IF last THEN [filed EXCEPT ![a] = Absent] ELSE filed
    /\ To(a, IF last THEN "gone" ELSE "off")
    /\ UNCHANGED <<held, renamed, drops, renames>>

(* The connection breaks, or the error frame is lost. *)
Drop(a) ==
    /\ session[a] \in {"welcome", "on", "refused"}
    /\ IF held[a] = Absent /\ session[a] # "refused" THEN UNCHANGED drops
       ELSE drops < MaxDrops /\ drops' = drops + 1
    /\ offered' = [offered EXCEPT ![a] = Absent]
    /\ To(a, "off")
    /\ UNCHANGED <<own, held, filed, tries, renamed, renames>>

NamesNext == \E a \in Agent :
    \/ Accept(a) \/ NameTaken(a) \/ RecordName(a) \/ TakeOffer(a) \/ Drop(a)
    \/ Unregister(a)
    \/ RenameTo(a, Unnamed)
    \/ \E b \in Agent : RenameTo(a, Wanted[b])
    \/ \E b \in Agent, i \in Suffix : RenameTo(a, Append(Wanted[b], i))

NamesSpec == NamesInit /\ [][NamesNext]_namesVars

----------------------------------------------------------------------------
NamesTypeOK ==
    /\ session \in [Agent -> {"off", "welcome", "on", "refused", "gone"}]
    /\ own \in [Agent -> Name]
    /\ held \in [Agent -> Name \cup {Absent}]
    /\ filed \in [Agent -> Name \cup {Absent}]
    /\ offered \in [Agent -> Name \cup {Absent}]
    /\ tries \in [Agent -> 0 .. MaxCollisions]
    /\ renamed \subseteq Agent
    /\ drops \in 0 .. MaxDrops
    /\ renames \in 0 .. MaxRenames

(* Is name n base m, or m with suffixes? *)
Extends(n, m) == Len(m) <= Len(n) /\ \A i \in 1 .. Len(m) : n[i] = m[i]

(* A listener keeps the name it was started with, through every reconnect, *)
(* unless there is a rival for it: another that was started with this name *)
(* or with one that a suggestion may make into it, or a rename.  Its own   *)
(* old connection, which the server has yet to notice is gone, is no rival *)
(* (helloAgent).                                                           *)
Rivals(a) == {b \in Agent \ {a} : Wanted[b] # Unnamed /\ Extends(Wanted[a], Wanted[b])}

NameIsKept ==
    \A a \in Agent :
        renames = 0 /\ Rivals(a) = {} => own[a] = Wanted[a] /\ session[a] # "gone"

(* Listeners that are connected never show their helpers the same name,    *)
(* though the server offers one name to several that it has refused, and a *)
(* suggestion may be taken before it is tried (helloAgent, connectAndServe,*)
(* NextAvailableName).                                                     *)
Settled(a) == session[a] = "on" /\ held[a] # Absent /\ a \notin renamed

FiledNamesDiffer ==
    \A a, b \in Agent :
        a # b /\ Settled(a) /\ Settled(b) /\ filed[a] # Unnamed => filed[a] # filed[b]

(* The name helpers read in the state file of a connected listener is the  *)
(* one its session goes by, unless it was renamed since it registered      *)
(* (connectAndServe, handleRename).                                        *)
FileTellsName ==
    \A a \in Agent \ renamed :
        session[a] = "on" /\ held[a] # Absent => filed[a] = held[a]
===============================================================================
