----------------------------- MODULE NamesProofs -----------------------------
(***************************************************************************)
(* The state file tells the name of a session that was not renamed,        *)
(* listeners that are connected show different names, and a listener       *)
(* without rivals keeps the name it was started with, for any number of    *)
(* listeners, names, broken connections and renames; and the key that      *)
(* names the state file, for any number of processes.                      *)
(***************************************************************************)
EXTENDS Names, Keys, WellFoundedInduction, TLAPS

(* The entry of a registration that has not been renamed since, and the    *)
(* record of a connected listener, have the listener's own name; a         *)
(* listener that has not exited may collide once more.                     *)
NamesInv ==
    /\ NamesTypeOK
    /\ \A a \in Agent :
          /\ session[a] # "gone" => tries[a] < MaxCollisions
          /\ session[a] \in {"welcome", "on"} /\ held[a] # Absent /\ a \notin renamed
                => held[a] = own[a]
          /\ session[a] = "on" => filed[a] = own[a]

(* No name is the mark for an absent one. *)
LEMMA AbsentIsNoName == Absent \notin Name /\ Unnamed \in Name
BY DEF Absent, Name, Unnamed

(* NextAvailableName adds a suffix, if it finds one. *)
LEMMA NextNameAddsSuffix ==
    ASSUME NEW n \in Name, NEW taken
    PROVE  /\ NextName(n, taken) \in Name \cup {Absent}
           /\ NextName(n, taken) # Absent =>
                 \E i \in Suffix : NextName(n, taken) = Append(n, i)
<1> DEFINE free == {i \in Suffix : Len(n) < MaxParts /\ Append(n, i) \notin taken}
           i0 == CHOOSE i \in free : \A j \in free : i <= j
<1>1. CASE free = {}
    BY <1>1 DEF NextName
<1>2. CASE free # {}
  <2>1. free \subseteq Nat
      BY NamesAssumption
  <2> DEFINE Less == {ss \in Nat \X Nat : ss[1] < ss[2]}
  <2>2. IsWellFoundedOn(Less, Nat)
      BY NatLessThanWellFounded, Zenon DEF OpToRel
  <2>3. \E i \in free : \A j \in free : i <= j
    <3> HIDE DEF Less, free
    <3>1. PICK i \in free : \A j \in free : <<j, i>> \notin Less
        BY <1>2, <2>1, <2>2, WFMin
    <3>2. ASSUME NEW j \in free PROVE i <= j
      <4>1. i \in Nat /\ j \in Nat
          BY <2>1
      <4>2. <<j, i>> \notin Less
          BY <3>1
      <4> QED
          BY <4>1, <4>2 DEF Less
    <3> QED
        BY <3>2
  <2>4. i0 \in free
      BY <2>3
  <2>5. NextName(n, taken) = Append(n, i0)
      BY <1>2 DEF NextName
  <2>6. i0 \in Nat \ {0} /\ i0 \in Suffix
      BY <2>4, NamesAssumption
  <2>7. Append(n, i0) \in Name
      BY <2>6 DEF Name
  <2> QED
      BY <2>5, <2>6, <2>7
<1> QED
    BY <1>1, <1>2

----------------------------------------------------------------------------
LEMMA NamesInvStep == NamesInv /\ [NamesNext]_namesVars => NamesInv'
<1> SUFFICES ASSUME NamesInv, [NamesNext]_namesVars PROVE NamesInv'
    OBVIOUS
<1> USE NamesAssumption, AbsentIsNoName DEF NamesInv, NamesTypeOK, To
<1>1. CASE UNCHANGED namesVars
    BY <1>1 DEF namesVars
<1>2. ASSUME NEW a \in Agent, Accept(a) PROVE NamesInv'
    BY <1>2 DEF Accept
<1>3. ASSUME NEW a \in Agent, NameTaken(a) PROVE NamesInv'
  <2>1. NextName(own[a], HeldByOthers(a)) \in Name \cup {Absent}
      BY NextNameAddsSuffix
  <2> QED
      BY <1>3, <2>1 DEF NameTaken
<1>4. ASSUME NEW a \in Agent, NEW n \in Name, RenameTo(a, n) PROVE NamesInv'
    BY <1>4 DEF RenameTo
<1>5. ASSUME NEW a \in Agent, Unregister(a) PROVE NamesInv'
    BY <1>5 DEF Unregister
<1>6. ASSUME NEW a \in Agent, RecordName(a) PROVE NamesInv'
    BY <1>6 DEF RecordName
<1>7. ASSUME NEW a \in Agent, TakeOffer(a) PROVE NamesInv'
    BY <1>7 DEF TakeOffer
<1>8. ASSUME NEW a \in Agent, Drop(a) PROVE NamesInv'
    BY <1>8 DEF Drop
<1>9. ASSUME NEW b \in Agent, NEW i \in Suffix
      PROVE  Wanted[b] \in Name /\ Append(Wanted[b], i) \in Name
  <2>1. Wanted[b] \in Name /\ i \in Nat \ {0}
      OBVIOUS
  <2> QED
      BY <2>1 DEF Name
<1>10. ASSUME NEW b \in Agent PROVE Wanted[b] \in Name
    OBVIOUS
<1> QED
    BY <1>1, <1>2, <1>3, <1>4, <1>5, <1>6, <1>7, <1>8, <1>9, <1>10 DEF NamesNext

(* A session has one name at its listener, the server and in its file,     *)
(* unless it was renamed (connectAndServe, helloAgent).                    *)
THEOREM NamesInvariant == NamesSpec => []NamesInv
<1>1. NamesInit => NamesInv
    BY NamesAssumption, AbsentIsNoName DEF NamesInit, NamesInv, NamesTypeOK
<1> QED
    BY <1>1, NamesInvStep, PTL DEF NamesSpec

(* The state file of a connected listener has the name its session goes    *)
(* by, unless it was renamed since it registered.                          *)
THEOREM FilesTellNames == NamesSpec => []FileTellsName
<1>1. NamesInv => FileTellsName
    BY DEF NamesInv, FileTellsName
<1> QED
    BY <1>1, NamesInvariant, PTL

----------------------------------------------------------------------------
(* No two entries of the registry have the same name, *)
HeldNamesDiffer ==
    \A a, b \in Agent : a # b /\ held[a] \notin {Absent, Unnamed} => held[a] # held[b]

LEMMA HeldNamesStep ==
    NamesInv /\ HeldNamesDiffer /\ [NamesNext]_namesVars => HeldNamesDiffer'
<1> SUFFICES ASSUME NamesInv, HeldNamesDiffer, [NamesNext]_namesVars
             PROVE  HeldNamesDiffer'
    OBVIOUS
<1> USE DEF NamesInv, NamesTypeOK, HeldNamesDiffer
<1>1. CASE UNCHANGED namesVars
    BY <1>1 DEF namesVars
<1>2. ASSUME NEW a \in Agent, NEW n, held' = [held EXCEPT ![a] = n],
             n \in {Absent, Unnamed} \/ n \notin HeldByOthers(a)
      PROVE  HeldNamesDiffer'
    BY <1>2 DEF HeldByOthers
<1>3. ASSUME NEW a \in Agent, Accept(a) \/ NameTaken(a) \/ Unregister(a)
      PROVE  HeldNamesDiffer'
    BY <1>2, <1>3 DEF Accept, NameTaken, Unregister
<1>4. ASSUME NEW a \in Agent, NEW n, RenameTo(a, n) PROVE HeldNamesDiffer'
    BY <1>2, <1>4 DEF RenameTo
<1>5. ASSUME NEW a \in Agent, RecordName(a) \/ TakeOffer(a) \/ Drop(a)
      PROVE  HeldNamesDiffer'
    BY <1>5 DEF RecordName, TakeOffer, Drop
<1> QED
    BY <1>1, <1>3, <1>4, <1>5 DEF NamesNext

(* so listeners that are connected and were not renamed show different     *)
(* names in their state files, whatever the server offered them.           *)
THEOREM FiledNamesAlwaysDiffer == NamesSpec => []FiledNamesDiffer
<1>1. NamesInit => HeldNamesDiffer
    BY DEF NamesInit, HeldNamesDiffer
<1>2. NamesInv /\ HeldNamesDiffer => FiledNamesDiffer
    BY DEF NamesInv, HeldNamesDiffer, FiledNamesDiffer, Settled
<1> QED
    BY <1>1, <1>2, HeldNamesStep, NamesInvariant, PTL DEF NamesSpec

----------------------------------------------------------------------------
(* Every name a session has had is the one it was started with, or that    *)
(* with suffixes; *)
From(b, n) ==
    /\ n \in Name
    /\ n = Unnamed <=> Wanted[b] = Unnamed
    /\ Extends(n, Wanted[b])

(* so nobody stands in the way of a listener without rivals.               *)
KeptInv ==
    renames = 0 =>
        /\ \A b \in Agent : /\ From(b, own[b])
                            /\ held[b] = Absent \/ From(b, held[b])
                            /\ offered[b] = Absent \/ From(b, offered[b])
        /\ \A a \in Agent :
              Rivals(a) = {} => own[a] = Wanted[a] /\ session[a] \notin {"refused", "gone"}

LEMMA FromStart ==
    ASSUME NEW b \in Agent
    PROVE  From(b, Wanted[b])
BY NamesAssumption DEF From, Extends, Name

LEMMA FromSuffix ==
    ASSUME NEW b \in Agent, NEW n, From(b, n), n # Unnamed, NEW i \in Suffix
    PROVE  From(b, Append(n, i))
<1> DEFINE m == Append(n, i)
<1>1. n \in Seq(Nat \ {0}) /\ Wanted[b] \in Seq(Nat \ {0}) /\ i \in Nat \ {0}
    BY NamesAssumption DEF From, Name
<1>2. /\ m \in Seq(Nat \ {0}) /\ Len(m) = Len(n) + 1
      /\ \A k \in 1 .. Len(n) : m[k] = n[k]
    BY <1>1
<1>3. Extends(m, Wanted[b])
    BY <1>1, <1>2 DEF From, Extends
<1>4. m # Unnamed
    BY <1>1, <1>2 DEF Unnamed
<1> QED
    BY <1>2, <1>3, <1>4 DEF From, Name

LEMMA KeptStep ==
    NamesInv /\ KeptInv /\ [NamesNext]_namesVars => KeptInv'
<1> SUFFICES ASSUME NamesInv, KeptInv, [NamesNext]_namesVars, renames' = 0
             PROVE  KeptInv'
    BY DEF KeptInv
<1> USE DEF NamesInv, NamesTypeOK, To
<1>0. renames = 0 /\ \A a \in Agent : \A n : ~RenameTo(a, n)
  <2>1. \A a \in Agent : \A n : RenameTo(a, n) => renames' = renames + 1
      BY DEF RenameTo
  <2>2. renames \in Nat
      BY NamesAssumption
  <2>3. \A a \in Agent : \A n : ~RenameTo(a, n)
      BY <2>1, <2>2
  <2>4. renames' = renames
      BY <2>3 DEF NamesNext, namesVars, Accept, NameTaken, RecordName, TakeOffer, Drop,
                  Unregister
  <2> QED
      BY <2>3, <2>4
<1>1. CASE UNCHANGED namesVars
    BY <1>1 DEF namesVars, KeptInv, From, Rivals
<1>2. ASSUME NEW c \in Agent, Accept(c) PROVE KeptInv'
    BY <1>0, <1>2 DEF Accept, KeptInv, From, Rivals
<1>3. ASSUME NEW c \in Agent, NameTaken(c) PROVE KeptInv'
  <2>1. Rivals(c) # {}
    <3>1. PICK b \in Agent \ {c} : held[b] = own[c] /\ own[c] # Unnamed
        BY <1>3 DEF NameTaken, HeldByOthers
    <3>2. held[b] # Absent
        BY <3>1, AbsentIsNoName
    <3>3. From(b, own[c])
        BY <1>0, <3>1, <3>2 DEF KeptInv
    <3>4. Rivals(c) = {} => b \in Rivals(c)
        BY <1>0, <3>1, <3>3 DEF KeptInv, From, Rivals
    <3> QED
        BY <3>4
  <2>2. offered'[c] = Absent \/ From(c, offered'[c])
    <3>1. offered'[c] = NextName(own[c], HeldByOthers(c)) /\ own[c] # Unnamed
        BY <1>3 DEF NameTaken
    <3>2. From(c, own[c])
        BY <1>0 DEF KeptInv
    <3> QED
        BY <3>1, <3>2, NextNameAddsSuffix, FromSuffix
  <2>3. \A b \in Agent : b # c => offered'[b] = offered[b]
      BY <1>3 DEF NameTaken
  <2> QED
      BY <1>0, <1>3, <2>1, <2>2, <2>3 DEF NameTaken, KeptInv, From, Rivals
<1>4. ASSUME NEW c \in Agent, RecordName(c) PROVE KeptInv'
    BY <1>0, <1>4 DEF RecordName, KeptInv, From, Rivals
<1>5. ASSUME NEW c \in Agent, TakeOffer(c) PROVE KeptInv'
    BY <1>0, <1>5 DEF TakeOffer, KeptInv, From, Rivals
<1>6. ASSUME NEW c \in Agent, Drop(c) PROVE KeptInv'
    BY <1>0, <1>6 DEF Drop, KeptInv, From, Rivals
<1>7. ASSUME NEW c \in Agent, Unregister(c) PROVE KeptInv'
    BY <1>0, <1>7 DEF Unregister, KeptInv, From, Rivals
<1> QED
    BY <1>0, <1>1, <1>2, <1>3, <1>4, <1>5, <1>6, <1>7 DEF NamesNext

(* A listener keeps its name through every reconnect, unless another was   *)
(* started with it or with one that it extends, or a session was renamed   *)
(* (helloAgent, handleHelloError).                                         *)
THEOREM NamesAreKept == NamesSpec => []NameIsKept
<1>1. NamesInit => KeptInv
    BY FromStart DEF NamesInit, KeptInv
<1>2. KeptInv => NameIsKept
    BY DEF KeptInv, NameIsKept
<1> QED
    BY <1>1, <1>2, KeptStep, NamesInvariant, PTL DEF NamesSpec

----------------------------------------------------------------------------
(* Listener keys.  A process runs with its parent, which is older. *)
ParentsRun ==
    \A q \in Pid : parent[q] # Gone => /\ q # Root /\ q <= born
                                       /\ parent[q] < q /\ Running(parent[q])

(* What is above a process: its parent, theirs, ... *)
LEMMA AboveIsOlder ==
    ASSUME KeysTypeOK, ParentsRun, NEW p \in Pid, NEW a \in Ancestors(p)
    PROVE  parent[p] # Gone /\ a <= parent[p] /\ a < p /\ Running(a)
<1> USE KeysAssumption DEF Pid, Root, Gone
<1>1. CASE parent[p] = Gone
  <2>1. Upward({p})
    BY <1>1 DEF Upward
  <2> QED
    BY <2>1 DEF Ancestors
<1>2. CASE parent[p] # Gone
  <2> DEFINE S == {p} \cup {x \in Pid : x <= parent[p] /\ Running(x)}
  <2>1. Upward(S)
    <3> SUFFICES ASSUME NEW q \in S, parent[q] # Gone PROVE parent[q] \in S
      BY DEF Upward
    <3>1. parent[q] \in Pid /\ parent[q] < q /\ Running(parent[q])
      BY DEF KeysTypeOK, ParentsRun
    <3> QED
      BY <3>1 DEF KeysTypeOK
  <2>2. S \in SUBSET Pid /\ p \in S
    OBVIOUS
  <2>3. a \in S /\ a # p
    <3> HIDE DEF S
    <3> QED
      BY <2>1, <2>2 DEF Ancestors
  <2> QED
    BY <1>2, <2>3 DEF KeysTypeOK, ParentsRun
<1> QED
  BY <1>1, <1>2

LEMMA ParentIsAbove ==
    ASSUME KeysTypeOK, ParentsRun, NEW p \in Pid
    PROVE  parent[p] \in Ancestors(p) \cup {Root, Gone}
<1> USE KeysAssumption DEF Pid, Root, Gone
<1> SUFFICES ASSUME parent[p] \notin {Root, Gone}, NEW S \in SUBSET Pid, p \in S, Upward(S)
             PROVE  parent[p] \in S
    BY DEF Ancestors, KeysTypeOK, ParentsRun
<1> QED
    BY DEF Upward

LEMMA AboveIsClosed ==
    ASSUME KeysTypeOK, ParentsRun, NEW p \in Pid, NEW y \in Ancestors(p)
    PROVE  parent[y] \in Ancestors(p) \cup {Root, Gone}
<1> USE KeysAssumption DEF Pid, Root, Gone
<1>1. y \in Pid /\ y < p
    BY AboveIsOlder DEF Ancestors
<1> SUFFICES ASSUME parent[y] \notin {Root, Gone}, NEW S \in SUBSET Pid, p \in S, Upward(S)
             PROVE  parent[y] \in S
    BY <1>1 DEF Ancestors, KeysTypeOK, ParentsRun
<1>2. y \in S
    BY DEF Ancestors
<1> QED
    BY <1>2 DEF Upward

(* ... and nothing else, *)
LEMMA AboveParent ==
    ASSUME KeysTypeOK, ParentsRun, NEW p \in Pid, NEW a \in Ancestors(p), a # parent[p]
    PROVE  a \in Ancestors(parent[p])
<1> USE KeysAssumption DEF Pid, Root, Gone
<1> DEFINE m == parent[p]
           S == {p, m, Root} \cup Ancestors(m)
<1>1. m \in Pid /\ parent[Root] = Gone
    BY AboveIsOlder DEF KeysTypeOK, ParentsRun
<1>2. Upward(S)
  <2> SUFFICES ASSUME NEW q \in S PROVE parent[q] \in S \cup {Gone}
    BY DEF Upward
  <2> QED
    BY <1>1, ParentIsAbove, AboveIsClosed
<1>3. S \in SUBSET Pid /\ p \in S
    BY <1>1 DEF Ancestors
<1>4. a \in S /\ a # p /\ a # Root
  <2> HIDE DEF S
  <2> QED
    BY <1>2, <1>3 DEF Ancestors
<1> QED
    BY <1>4

(* in a line. *)
LEMMA AboveIsLine ==
    ASSUME KeysTypeOK, ParentsRun, NEW p \in Pid, NEW y \in Ancestors(p) \cup {p},
           NEW z \in Ancestors(p), z < y
    PROVE  z <= parent[y]
<1> USE KeysAssumption DEF Pid, Root, Gone
<1>1. CASE y = p
    BY <1>1, AboveIsOlder
<1>2. CASE y \in Ancestors(p)
  <2> DEFINE S == {p, y, Root} \cup {q \in Pid : y \in Ancestors(q)} \cup Ancestors(y)
  <2>1. y \in Pid /\ z \in Pid /\ parent[Root] = Gone
    BY <1>2 DEF Ancestors, KeysTypeOK, ParentsRun
  <2>2. Upward(S)
    <3> SUFFICES ASSUME NEW q \in S PROVE parent[q] \in S \cup {Gone}
      BY DEF Upward
    <3>1. CASE q \in Pid /\ y \in Ancestors(q)
      <4>1. parent[q] \in Pid \cup {Gone}
        BY <3>1 DEF KeysTypeOK
      <4>2. parent[q] = y \/ y \in Ancestors(parent[q])
        BY <3>1, AboveParent
      <4> QED
        BY <4>1, <4>2
    <3>2. CASE q = y
      BY <2>1, <3>2, ParentIsAbove
    <3>3. CASE q \in Ancestors(y)
      BY <2>1, <3>3, AboveIsClosed
    <3> QED
      BY <1>2, <2>1, <3>1, <3>2, <3>3
  <2>3. S \in SUBSET Pid /\ p \in S
    BY <2>1 DEF Ancestors
  <2>4. z \in S /\ z # p /\ z # Root
    <3> HIDE DEF S
    <3> QED
      BY <2>2, <2>3 DEF Ancestors
  <2>5. z \in Ancestors(y)
    <3>1. y \in Ancestors(z) => y < z
      BY <2>1, AboveIsOlder
    <3> QED
      BY <2>1, <2>4, <3>1
  <2> QED
    BY <2>1, <2>5, AboveIsOlder
<1> QED
    BY <1>1, <1>2

(* The invariant.  While the ancestors of p from z up to p run, *)
Unbroken(p, z) == \A x \in above[p] : x >= z => Running(x)

Begun(p) == probe[p] # Gone \/ key[p] # Gone

(* none of them has lost its place in the line to the root; *)
LinesHold ==
    \A p \in Pid : Begun(p) =>
        /\ p # Root /\ p <= born
        /\ \A a \in above[p] : a \in Pid /\ Root < a /\ a < p
        /\ \A y \in above[p] \cup {p} :
              /\ parent[y] \in above[p] \cup {Root, Gone}
              /\ \A z \in above[p] :
                    z < y /\ parent[y] # Gone /\ Unbroken(p, z) => z <= parent[y]

(* a walk has not passed the nearest Claude process, nor been anywhere     *)
(* twice; and no walk begins with pids it has looked at.                   *)
WalksClimb ==
    \A p \in Pid : probe[p] # Gone =>
        /\ Running(p) /\ p # Root
        /\ probe[p] \in above[p] \cup {Root}
        /\ \A t \in trail[p] : probe[p] < t
        /\ \A a \in Home(p) : Unbroken(p, a) => a <= probe[p]

TrailsBegin == \A p \in Pid : trail[p] # {} => Begun(p) \/ (p <= born /\ ~Running(p))

KeysInv == /\ KeysTypeOK /\ ParentsRun /\ LinesHold /\ WalksClimb /\ TrailsBegin
           /\ KeysAgree

(* Processes come and go. *)
LEMMA ForkKeeps ==
    ASSUME KeysInv, NEW p \in Pid, Fork(p)
    PROVE  KeysInv'
<1> USE KeysAssumption DEF Pid, Root, Gone
<1> DEFINE n == born + 1
<1>1. /\ n \in Pid /\ born' = n /\ parent'[n] = p /\ parent[n] = Gone /\ p <= born
      /\ \A q \in Pid \ {n} : parent'[q] = parent[q]
      /\ UNCHANGED <<probe, trail, above, key>> /\ p # n /\ Running(p)
    BY DEF KeysInv, KeysTypeOK, ParentsRun, Fork, Running
<1>2. KeysTypeOK'
    BY <1>1 DEF KeysInv, KeysTypeOK, Fork
<1>3. ParentsRun'
  <2>1. ASSUME NEW q \in Pid, parent[q] # Gone
        PROVE  parent[q] \in Pid /\ parent[q] < q /\ q # Root /\ q <= born /\ Running(parent[q])
    BY <2>1 DEF KeysInv, KeysTypeOK, ParentsRun
  <2>2. ASSUME NEW q \in Pid, q # n, Running(q) PROVE Running(q)'
    BY <1>1, <2>2 DEF Running
  <2>3. ASSUME NEW q \in Pid, q # n, parent[q] # Gone
        PROVE  q <= born' /\ Running(parent[q])'
    BY <1>1, <2>1, <2>2, <2>3 DEF KeysInv, KeysTypeOK
  <2>4. n # Root /\ n <= born' /\ p < n /\ Running(p)'
    BY <1>1, <2>2 DEF KeysInv, KeysTypeOK
  <2> QED
    BY <1>1, <2>1, <2>3, <2>4 DEF ParentsRun, Running
<1>4. ASSUME NEW q \in Pid, Begun(q)
      PROVE  /\ \A x \in above[q] \cup {q} :
                   x \in Pid /\ x # n /\ parent'[x] = parent[x] /\ (Running(x)' <=> Running(x))
             /\ \A z : Unbroken(q, z)' <=> Unbroken(q, z)
             /\ Home(q)' = Home(q)
  <2>1. \A x \in above[q] \cup {q} : x \in Pid /\ x # n
    BY <1>4 DEF KeysInv, KeysTypeOK, LinesHold
  <2>2. \A x \in above[q] \cup {q} : parent'[x] = parent[x] /\ (Running(x)' <=> Running(x))
    BY <1>1, <2>1 DEF Running
  <2>3. above'[q] = above[q] /\ above[q] \cap claude' = above[q] \cap claude
    BY <1>1, <2>1 DEF Fork
  <2> QED
    BY <2>1, <2>2, <2>3 DEF Unbroken, Home
<1>5. LinesHold'
    BY <1>1, <1>4 DEF KeysInv, KeysTypeOK, LinesHold, Begun
<1>6. WalksClimb'
    BY <1>1, <1>4 DEF KeysInv, WalksClimb, Begun
<1>7. TrailsBegin'
    BY <1>1 DEF KeysInv, KeysTypeOK, TrailsBegin, Begun, Running
<1>8. KeysAgree'
  <2> SUFFICES ASSUME NEW q \in Pid, key[q] # Gone
               PROVE  /\ key[q] \in above[q] \cup {Root}
                      /\ \A a \in Home(q) : Unbroken(q, a) => key[q] = a
    BY <1>1, <1>4 DEF KeysAgree, Begun, Unbroken
  <2> QED
    BY DEF KeysInv, KeysAgree, Unbroken
<1> QED
    BY <1>2, <1>3, <1>5, <1>6, <1>7, <1>8 DEF KeysInv

LEMMA ExitsKeeps ==
    ASSUME KeysInv, NEW e \in Pid, Exits(e)
    PROVE  KeysInv'
<1> USE KeysAssumption DEF Pid, Root, Gone
<1>1. /\ e # Root /\ e <= born /\ parent[e] # Gone
      /\ \A q \in Pid : parent'[q] = IF q = e THEN Gone
                                     ELSE IF parent[q] = e THEN Root ELSE parent[q]
      /\ \A q \in Pid : probe'[q] = IF q = e THEN Gone ELSE probe[q]
      /\ UNCHANGED <<born, claude, trail, above, key>>
    BY DEF KeysInv, KeysTypeOK, ParentsRun, Exits, Running
<1>2. KeysTypeOK'
    BY <1>1 DEF KeysInv, KeysTypeOK, Exits
<1>3. \A x \in Pid : Running(x)' <=> Running(x) /\ x # e
    BY <1>1 DEF Running
<1>4. ParentsRun'
  <2> SUFFICES ASSUME NEW q \in Pid, parent'[q] # Gone
               PROVE  q # Root /\ q <= born /\ parent'[q] < q /\ Running(parent[q])'
    BY <1>1 DEF ParentsRun, Running
  <2>1. /\ q # e /\ parent[q] # Gone /\ q # Root /\ q <= born
        /\ parent[q] \in Pid /\ parent[q] < q /\ Running(parent[q])
    BY <1>1 DEF KeysInv, KeysTypeOK, ParentsRun
  <2>2. CASE parent[q] = e
    BY <1>1, <2>1, <2>2 DEF Running
  <2>3. CASE parent[q] # e
    BY <1>1, <1>3, <2>1, <2>3
  <2> QED
    BY <2>1, <2>2, <2>3
<1>5. /\ \A q \in Pid : Begun(q)' => Begun(q)
      /\ \A q \in Pid : Home(q)' = Home(q)
    BY <1>1 DEF Begun, Home
<1>6. \A q \in Pid : \A z : Unbroken(q, z)' => Unbroken(q, z)
    BY <1>1, <1>3 DEF Unbroken, KeysInv, KeysTypeOK
<1>7. LinesHold'
  <2> SUFFICES ASSUME NEW q \in Pid, Begun(q)', NEW y \in above[q] \cup {q}
               PROVE  /\ parent'[y] \in above[q] \cup {Root, Gone}
                      /\ \A z \in above[q] :
                            z < y /\ parent'[y] # Gone /\ Unbroken(q, z)' => z <= parent'[y]
    BY <1>1, <1>5 DEF KeysInv, LinesHold
  <2>1. /\ Begun(q) /\ y \in Pid /\ parent[y] \in above[q] \cup {Root, Gone}
        /\ \A z \in above[q] : /\ z \in Pid /\ z > Root
                               /\ z < y /\ parent[y] # Gone /\ Unbroken(q, z) => z <= parent[y]
    BY <1>5 DEF KeysInv, LinesHold
  <2>2. ASSUME NEW z \in above[q], z < y, parent'[y] # Gone, Unbroken(q, z)'
        PROVE  z <= parent'[y]
    <3>1. y # e /\ parent[y] # Gone /\ z <= parent[y]
      BY <1>1, <1>6, <2>1, <2>2
    <3>2. parent[y] \in above[q]
      BY <2>1, <3>1
    <3>3. parent[y] # e
      BY <1>1, <1>3, <2>1, <2>2, <3>1, <3>2 DEF Unbroken
    <3> QED
      BY <1>1, <2>1, <3>1, <3>3
  <2> QED
    BY <1>1, <2>1, <2>2
<1>8. WalksClimb'
  <2> SUFFICES ASSUME NEW q \in Pid, probe'[q] # Gone
               PROVE  /\ Running(q)' /\ q # Root
                      /\ probe'[q] \in above[q] \cup {Root}
                      /\ \A t \in trail[q] : probe'[q] < t
                      /\ \A a \in Home(q) : Unbroken(q, a)' => a <= probe'[q]
    BY <1>1, <1>5 DEF WalksClimb
  <2>1. q # e /\ probe'[q] = probe[q] /\ probe[q] # Gone
    BY <1>1
  <2> QED
    BY <1>3, <1>6, <2>1 DEF KeysInv, WalksClimb
<1>9. TrailsBegin'
    BY <1>1, <1>3 DEF KeysInv, TrailsBegin, Begun
<1>10. KeysAgree'
  <2> SUFFICES ASSUME NEW q \in Pid, key[q] # Gone
               PROVE  /\ key[q] \in above[q] \cup {Root}
                      /\ \A a \in Home(q) : Unbroken(q, a)' => key[q] = a
    BY <1>1, <1>5 DEF KeysAgree, Unbroken
  <2> QED
    BY <1>6 DEF KeysInv, KeysAgree, Unbroken
<1> QED
    BY <1>2, <1>4, <1>7, <1>8, <1>9, <1>10 DEF KeysInv

(* A walk of p: the processes stay, and so does every other walk. *)
WalkOf(p) == /\ UNCHANGED <<born, parent, claude>>
             /\ \A q \in Pid \ {p} : /\ probe'[q] = probe[q] /\ key'[q] = key[q]
                                     /\ above'[q] = above[q] /\ trail'[q] = trail[q]

LEMMA WalkKeeps ==
    ASSUME KeysInv, KeysTypeOK', NEW p \in Pid, WalkOf(p), above'[p] = above[p],
           Begun(p), Begun(p)',
           probe'[p] # Gone =>
               /\ Running(p) /\ probe'[p] \in above[p] \cup {Root}
               /\ \A t \in trail'[p] : probe'[p] < t
               /\ \A a \in Home(p) : Unbroken(p, a) => a <= probe'[p],
           key'[p] # Gone =>
               /\ key'[p] \in above[p] \cup {Root}
               /\ \A a \in Home(p) : Unbroken(p, a) => key'[p] = a
    PROVE  KeysInv'
<1>1. UNCHANGED <<born, parent, claude>>
    BY DEF WalkOf
<1>2. ParentsRun'
    BY <1>1 DEF KeysInv, ParentsRun, Running
<1>3. \A q \in Pid : above'[q] = above[q] /\ (Begun(q)' <=> Begun(q))
    BY DEF WalkOf, Begun
<1>4. /\ \A q \in Pid : Home(q)' = Home(q) /\ \A z : Unbroken(q, z)' <=> Unbroken(q, z)
      /\ \A x : Running(x)' <=> Running(x)
    BY <1>1, <1>3 DEF Home, Unbroken, Running
<1>5. LinesHold'
  <2> SUFFICES ASSUME NEW q \in Pid, Begun(q)
               PROVE  /\ q # Root /\ q <= born
                      /\ \A a \in above[q] : a \in Pid /\ Root < a /\ a < q
                      /\ \A y \in above[q] \cup {q} :
                            /\ parent[y] \in above[q] \cup {Root, Gone}
                            /\ \A z \in above[q] :
                                  z < y /\ parent[y] # Gone /\ Unbroken(q, z)
                                      => z <= parent[y]
    BY <1>1, <1>3, <1>4 DEF LinesHold, Pid
  <2> QED
    BY DEF KeysInv, LinesHold
<1>6. WalksClimb'
  <2>1. p # Root
    BY DEF KeysInv, LinesHold
  <2> SUFFICES ASSUME NEW q \in Pid, probe'[q] # Gone
               PROVE  /\ Running(q) /\ q # Root
                      /\ probe'[q] \in above[q] \cup {Root}
                      /\ \A t \in trail'[q] : probe'[q] < t
                      /\ \A a \in Home(q) : Unbroken(q, a) => a <= probe'[q]
    BY <1>3, <1>4 DEF WalksClimb
  <2>2. CASE q = p
    BY <2>1, <2>2
  <2>3. CASE q # p
    BY <2>3 DEF WalkOf, KeysInv, WalksClimb
  <2> QED
    BY <2>2, <2>3
<1>7. TrailsBegin'
  <2> SUFFICES ASSUME NEW q \in Pid, trail'[q] # {}
               PROVE  Begun(q) \/ (q <= born /\ ~Running(q))
    BY <1>1, <1>3, <1>4 DEF TrailsBegin
  <2> QED
    BY DEF WalkOf, KeysInv, TrailsBegin
<1>8. KeysAgree'
  <2> SUFFICES ASSUME NEW q \in Pid, key'[q] # Gone
               PROVE  /\ key'[q] \in above[q] \cup {Root}
                      /\ \A a \in Home(q) : Unbroken(q, a) => key'[q] = a
    BY <1>3, <1>4 DEF KeysAgree, Unbroken
  <2>1. CASE q = p
    BY <2>1
  <2>2. CASE q # p
    BY <2>2 DEF WalkOf, KeysInv, KeysAgree, Unbroken
  <2> QED
    BY <2>1, <2>2
<1> QED
    BY <1>2, <1>5, <1>6, <1>7, <1>8 DEF KeysInv

LEMMA BeginKeeps ==
    ASSUME KeysInv, NEW p \in Pid, Begin(p)
    PROVE  KeysInv'
<1> USE KeysAssumption DEF Pid, Root, Gone
<1>1. /\ WalkOf(p) /\ p # Root /\ parent[p] # Gone /\ ~Begun(p) /\ p <= born
      /\ above'[p] = Ancestors(p) /\ probe'[p] = parent[p] /\ key'[p] = Gone
      /\ UNCHANGED <<born, parent, claude, key, trail>>
    BY DEF KeysInv, KeysTypeOK, ParentsRun, Begin, WalkOf, Running, Begun
<1>2. KeysTypeOK /\ ParentsRun /\ parent[p] \in Pid
    BY <1>1 DEF KeysInv, KeysTypeOK
<1>3. KeysTypeOK' /\ ParentsRun'
    BY <1>1, <1>2 DEF Begin, KeysInv, KeysTypeOK, ParentsRun, Ancestors, Running
<1>4. \A q \in Pid \ {p} : /\ Begun(q)' <=> Begun(q)
                           /\ above'[q] = above[q]
                           /\ Home(q)' = Home(q)
                           /\ \A z : Unbroken(q, z)' <=> Unbroken(q, z)
    BY <1>1 DEF WalkOf, Begun, Home, Unbroken, Running
<1>5. trail[p] = {}
    BY <1>1 DEF KeysInv, TrailsBegin, Running
<1>6. LinesHold'
  <2> SUFFICES ASSUME NEW q \in Pid, Begun(q)'
               PROVE  /\ q # Root /\ q <= born
                      /\ \A a \in above'[q] : a \in Pid /\ Root < a /\ a < q
                      /\ \A y \in above'[q] \cup {q} :
                            /\ parent[y] \in above'[q] \cup {Root, Gone}
                            /\ \A z \in above'[q] :
                                  z < y /\ parent[y] # Gone /\ Unbroken(q, z)'
                                      => z <= parent[y]
    BY <1>1 DEF LinesHold
  <2>1. CASE q # p
    BY <1>1, <1>4, <2>1 DEF KeysInv, LinesHold
  <2>2. CASE q = p
    <3>1. \A a \in Ancestors(p) : a \in Pid /\ Root < a /\ a < p
      BY <1>2, AboveIsOlder DEF Ancestors
    <3>2. \A y \in Ancestors(p) \cup {p} : parent[y] \in Ancestors(p) \cup {Root, Gone}
      BY <1>2, ParentIsAbove, AboveIsClosed
    <3>3. \A y \in Ancestors(p) \cup {p} : \A z \in Ancestors(p) : z < y => z <= parent[y]
      BY <1>2, AboveIsLine
    <3> QED
      BY <1>1, <2>2, <3>1, <3>2, <3>3
  <2> QED
    BY <2>1, <2>2
<1>7. WalksClimb'
  <2> SUFFICES ASSUME NEW q \in Pid, probe'[q] # Gone
               PROVE  /\ Running(q) /\ q # Root
                      /\ probe'[q] \in above'[q] \cup {Root}
                      /\ \A t \in trail[q] : probe'[q] < t
                      /\ \A a \in Home(q)' : Unbroken(q, a)' => a <= probe'[q]
    BY <1>1 DEF WalksClimb, Running
  <2>1. CASE q # p
    BY <1>1, <1>4, <2>1 DEF KeysInv, WalksClimb, WalkOf
  <2>2. CASE q = p
    <3>1. \A a \in Home(p)' : a \in Ancestors(p)
      BY <1>1 DEF Home
    <3>2. \A a \in Home(p)' : a <= parent[p]
      BY <1>2, <3>1, AboveIsOlder
    <3>3. parent[p] \in Ancestors(p) \cup {Root}
      BY <1>1, <1>2, ParentIsAbove
    <3> QED
      BY <1>1, <1>5, <2>2, <3>2, <3>3 DEF Running
  <2> QED
    BY <2>1, <2>2
<1>8. TrailsBegin'
    BY <1>1, <1>4, <1>5 DEF KeysInv, TrailsBegin, Running
<1>9. KeysAgree'
  <2> SUFFICES ASSUME NEW q \in Pid \ {p}, key[q] # Gone
               PROVE  /\ key[q] \in above[q] \cup {Root}
                      /\ \A a \in Home(q) : Unbroken(q, a) => key[q] = a
    BY <1>1, <1>4 DEF KeysAgree, Unbroken
  <2> QED
    BY DEF KeysInv, KeysAgree, Unbroken
<1> QED
    BY <1>3, <1>6, <1>7, <1>8, <1>9 DEF KeysInv

(* What a walker knows of the pid it is to look at. *)
LEMMA ProbeIs ==
    ASSUME KeysInv, NEW p \in Pid, probe[p] # Gone
    PROVE  /\ Begun(p) /\ Running(p) /\ p # Root /\ parent[p] # Gone
           /\ probe[p] \in Pid /\ probe[p] \in above[p] \cup {Root}
           /\ probe[p] \notin trail[p]
           /\ \A a \in Home(p) : a \in above[p] /\ a \in Pid /\ a > Root
           /\ \A a \in Home(p) : Unbroken(p, a) => a <= probe[p] /\ probe[p] # Root
           /\ probe[p] \in claude => \A a \in Home(p) : Unbroken(p, a) => probe[p] = a
<1> USE KeysAssumption DEF Pid, Root, Gone
<1>1. /\ Begun(p) /\ Running(p) /\ p # Root /\ parent[p] # Gone
      /\ probe[p] \in Pid /\ probe[p] \in above[p] \cup {Root}
    BY DEF Begun, KeysInv, KeysTypeOK, WalksClimb, Running
<1>2. \A t \in trail[p] : t \in Pid /\ probe[p] < t
    BY DEF KeysInv, KeysTypeOK, WalksClimb
<1>3. \A a \in Home(p) : a \in above[p] /\ a \in Pid /\ a > Root
    BY <1>1 DEF Home, KeysInv, LinesHold
<1>4. \A a \in Home(p) : Unbroken(p, a) => a <= probe[p]
    BY DEF KeysInv, WalksClimb
<1>5. \A a \in Home(p) : Unbroken(p, a) /\ probe[p] \in claude => probe[p] <= a
    BY <1>1, <1>3, <1>4 DEF Home
<1> QED
    BY <1>1, <1>2, <1>3, <1>4, <1>5

LEMMA ClimbKeeps ==
    ASSUME KeysInv, NEW p \in Pid, Climb(p)
    PROVE  KeysInv'
<1> USE KeysAssumption DEF Pid, Root, Gone
<1> DEFINE x == probe[p]
<1>1. /\ x # Gone /\ x # Root /\ x \notin claude /\ Running(x) /\ x \in Pid
      /\ x \in above[p] /\ parent[x] # Gone /\ Begun(p)
    BY ProbeIs DEF Climb, Running
<1>2. /\ WalkOf(p) /\ above' = above /\ key' = key
      /\ probe'[p] = parent[x] /\ trail'[p] = trail[p] \cup {x}
    BY <1>1 DEF Climb, WalkOf, KeysInv, KeysTypeOK
<1>3. KeysTypeOK'
    BY <1>1 DEF Climb, KeysInv, KeysTypeOK
<1>4. parent[x] < x /\ parent[x] \in above[p] \cup {Root} /\ parent[x] \in Pid
    BY <1>1 DEF KeysInv, KeysTypeOK, ParentsRun, LinesHold
<1>5. \A t \in trail'[p] : probe'[p] < t
  <2>1. \A t \in trail[p] : t \in Pid /\ x < t
    BY <1>1 DEF KeysInv, KeysTypeOK, WalksClimb
  <2> QED
    BY <1>1, <1>2, <1>4, <2>1
<1>6. ASSUME NEW a \in Home(p), Unbroken(p, a) PROVE a <= probe'[p]
  <2>1. a <= x /\ a \in above[p] /\ a \in claude /\ a \in Pid
    BY <1>1, <1>6, ProbeIs DEF Home
  <2>2. a < x
    BY <1>1, <2>1
  <2> QED
    BY <1>1, <1>2, <1>6, <2>1, <2>2 DEF KeysInv, LinesHold
<1>7. Begun(p)'
    BY <1>1, <1>2 DEF Begun
<1>8. key'[p] # Gone => /\ key'[p] \in above[p] \cup {Root}
                        /\ \A a \in Home(p) : Unbroken(p, a) => key'[p] = a
    BY <1>2 DEF KeysInv, KeysAgree, Unbroken
<1>9. Running(p)
    BY <1>1, ProbeIs
<1> HIDE DEF x
<1> QED
    BY <1>1, <1>2, <1>3, <1>4, <1>5, <1>6, <1>7, <1>8, <1>9, WalkKeeps

LEMMA ResolvedKeeps ==
    ASSUME KeysInv, NEW p \in Pid, Found(p) \/ NotFound(p)
    PROVE  KeysInv'
<1> USE KeysAssumption DEF Pid, Root, Gone
<1> DEFINE x == probe[p]
<1>1. x # Gone /\ x \in Pid
    BY ProbeIs DEF Found, NotFound
<1>2. PICK k : /\ Resolved(p, k)
               /\ \/ k = x /\ x \in claude /\ x # Root
                  \/ k = parent[p] /\ (x = Root \/ ~Running(x))
  <2>1. CASE Found(p)
    BY <2>1 DEF Found, Resolved
  <2>2. CASE NotFound(p)
    <3>1. x \notin trail[p]
      BY <1>1, ProbeIs
    <3> QED
      BY <2>2, <3>1 DEF NotFound, Resolved
  <2> QED
    BY <2>1, <2>2
<1>3. k \in above[p] \cup {Root} /\ k \in Pid
  <2>1. parent[p] \in above[p] \cup {Root} /\ parent[p] \in Pid
    BY <1>1, ProbeIs DEF KeysInv, KeysTypeOK, LinesHold
  <2> QED
    BY <1>1, <1>2, <2>1, ProbeIs
<1>4. ASSUME NEW a \in Home(p), Unbroken(p, a) PROVE k = a
  <2>1. a <= x /\ x # Root /\ x \in above[p]
    BY <1>1, <1>4, ProbeIs
  <2>2. Running(x)
    BY <1>4, <2>1 DEF Unbroken
  <2> QED
    BY <1>1, <1>2, <1>4, <2>1, <2>2, ProbeIs
<1>5. /\ WalkOf(p) /\ above' = above /\ probe'[p] = Gone /\ key'[p] = k /\ KeysTypeOK'
    BY <1>2, <1>3 DEF Resolved, WalkOf, KeysInv, KeysTypeOK
<1>6. Begun(p) /\ Begun(p)'
    BY <1>1, <1>3, <1>5 DEF Begun
<1> QED
    BY <1>3, <1>4, <1>5, <1>6, WalkKeeps

(* A walk stays on the line of its process, and does not pass the nearest  *)
(* Claude process while the line up to it is unbroken (findCCAncestorPid). *)
THEOREM KeysInvariant == KeysSpec => []KeysInv
<1>1. KeysInit => KeysInv
    BY KeysAssumption DEF KeysInit, KeysInv, KeysTypeOK, ParentsRun, LinesHold, WalksClimb,
       TrailsBegin, KeysAgree, Begun, Pid, Root, Gone
<1>2. KeysInv /\ KeysNext => KeysInv'
    BY ForkKeeps, ExitsKeeps, BeginKeeps, ClimbKeeps, ResolvedKeeps DEF KeysNext
<1>3. KeysInv /\ UNCHANGED keysVars => KeysInv'
  <2> SUFFICES ASSUME KeysInv, UNCHANGED keysVars PROVE KeysInv'
    OBVIOUS
  <2>1. KeysTypeOK' /\ ParentsRun' /\ TrailsBegin'
    BY DEF keysVars, KeysInv, KeysTypeOK, ParentsRun, Running, TrailsBegin, Begun
  <2>2. LinesHold' /\ WalksClimb' /\ KeysAgree'
    BY DEF keysVars, KeysInv, LinesHold, WalksClimb, KeysAgree, Begun, Unbroken, Home, Running
  <2> QED
    BY <2>1, <2>2 DEF KeysInv
<1> QED
    BY <1>1, <1>2, <1>3, PTL DEF KeysSpec

(* However processes above it start and exit while it walks, a listener or *)
(* helper finds a process above it, and its own session's Claude process   *)
(* as long as nothing up to that one exits.                                *)
THEOREM KeysAlwaysAgree == KeysSpec => []KeysAgree
<1>1. KeysInv => KeysAgree
    BY DEF KeysInv
<1> QED
    BY <1>1, KeysInvariant, PTL
============================================================================
