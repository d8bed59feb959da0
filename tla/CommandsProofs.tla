--------------------------- MODULE CommandsProofs ---------------------------
(***************************************************************************)
(* What a helper reports is true as far as VerdictIsHonest goes, for any   *)
(* number of helpers and any sizes; the quota that broadcasts are charged  *)
(* to, for any number of handlers; and the service: where no command has   *)
(* failed since the job was last loaded or removed, the job is the one in  *)
(* the plist, for any number of service commands, binaries, failures and   *)
(* kills.                                                                  *)
(***************************************************************************)
EXTENDS Commands, Quota, Service, FiniteSetTheorems, TLAPS

(* A command is fixed when it is asked for; until then nothing happens. An *)
(* error is decided on instead of carrying the command out, and only then  *)
(* written.                                                                *)
Answered(h) ==
    /\ hpc[h] = "new" => /\ spc[h] = "idle"
                         /\ wire[h] = "none"
                         /\ verdict[h] = "none"
    /\ spc[h] \in {"idle", "read", "act"} => h \notin carried
    /\ spc[h] = "reply" => (answer[h] = "result" <=> h \in carried)
    /\ wire[h] = "error" => spc[h] = "done" /\ h \notin carried
    /\ wire[h] = "result" => h \in carried

CommandsInv ==
    /\ CommandsTypeOK
    /\ \A h \in Helper : Answered(h)
    /\ VerdictIsHonest

LEMMA CommandsTypeStep == CommandsTypeOK /\ [CommandsNext]_commandsVars => CommandsTypeOK'
<1> SUFFICES ASSUME CommandsTypeOK, [CommandsNext]_commandsVars PROVE CommandsTypeOK'
    OBVIOUS
<1> USE DEF CommandsTypeOK
<1>1. CASE UNCHANGED commandsVars
    BY <1>1 DEF commandsVars
<1>2. ASSUME NEW h \in Helper, NEW c \in Command, Ask(h, c) \/ AskFails(h, c)
      PROVE  CommandsTypeOK'
    BY <1>2 DEF Ask, AskFails, Exit
<1>3. ASSUME NEW h \in Helper, Conclude(h) \/ TimesOut(h) \/ Break(h)
      PROVE  CommandsTypeOK'
    BY <1>3 DEF Conclude, TimesOut, Break, NoFrame, Exit, SGoto
<1>4. ASSUME NEW h \in Helper, ReadCommand(h) \/ RefuseCommand(h) \/ Carry(h) \/ Reply(h)
      PROVE  CommandsTypeOK'
    BY <1>4 DEF ReadCommand, RefuseCommand, Carry, Reply, SGoto
<1> QED
    BY <1>1, <1>2, <1>3, <1>4 DEF CommandsNext

LEMMA AnsweredStep ==
    CommandsInv /\ [CommandsNext]_commandsVars => \A h \in Helper : Answered(h)'
<1> SUFFICES ASSUME CommandsInv, [CommandsNext]_commandsVars, NEW g \in Helper
             PROVE  Answered(g)'
    OBVIOUS
<1> USE DEF CommandsInv, CommandsTypeOK, Answered
<1>1. CASE UNCHANGED commandsVars
    BY <1>1 DEF commandsVars
<1>2. ASSUME NEW h \in Helper, NEW c \in Command, Ask(h, c) \/ AskFails(h, c)
      PROVE  Answered(g)'
    BY <1>2 DEF Ask, AskFails, Exit
<1>3. ASSUME NEW h \in Helper, Conclude(h) \/ TimesOut(h) \/ Break(h)
      PROVE  Answered(g)'
    BY <1>3 DEF Conclude, TimesOut, Break, NoFrame, Exit, SGoto
<1>4. ASSUME NEW h \in Helper, ReadCommand(h) \/ RefuseCommand(h) \/ Carry(h)
      PROVE  Answered(g)'
    BY <1>4 DEF ReadCommand, RefuseCommand, Carry, SGoto
<1>5. ASSUME NEW h \in Helper, Reply(h)
      PROVE  Answered(g)'
    BY <1>5 DEF Reply, SGoto
<1> QED
    BY <1>1, <1>2, <1>3, <1>4, <1>5 DEF CommandsNext

LEMMA HonestStep ==
    CommandsInv /\ [CommandsNext]_commandsVars => VerdictIsHonest'
<1> SUFFICES ASSUME CommandsInv, [CommandsNext]_commandsVars
             PROVE  VerdictIsHonest'
    OBVIOUS
<1> USE DEF CommandsInv, CommandsTypeOK, Answered, VerdictIsHonest, Silent
<1>1. CASE UNCHANGED commandsVars
    BY <1>1 DEF commandsVars
<1>2. ASSUME NEW h \in Helper, NEW c \in Command, Ask(h, c) \/ AskFails(h, c)
      PROVE  VerdictIsHonest'
    BY <1>2 DEF Ask, AskFails, Exit
<1>3. ASSUME NEW h \in Helper, Conclude(h) \/ TimesOut(h) \/ Break(h)
      PROVE  VerdictIsHonest'
    BY <1>3 DEF Conclude, TimesOut, Break, NoFrame, Exit, SGoto
<1>4. ASSUME NEW h \in Helper, ReadCommand(h) \/ RefuseCommand(h) \/ Carry(h) \/ Reply(h)
      PROVE  VerdictIsHonest'
    BY <1>4 DEF ReadCommand, RefuseCommand, Carry, Reply, SGoto
<1> QED
    BY <1>1, <1>2, <1>3, <1>4 DEF CommandsNext

(* Every stage of a helper and its handler has the reply it should have    *)
(* (expectErrorOrTimeout, dispatchLoop).                                   *)
THEOREM CommandsInvariant == CommandsSpec => []CommandsInv
<1>1. CommandsInit => CommandsInv
    BY DEF CommandsInit, CommandsInv, CommandsTypeOK, Answered, VerdictIsHonest
<1>2. CommandsInv /\ [CommandsNext]_commandsVars => CommandsInv'
    BY CommandsTypeStep, AnsweredStep, HonestStep DEF CommandsInv
<1> QED
    BY <1>1, <1>2, PTL DEF CommandsSpec

(* A command that was refused is never carried out, and a rename or list   *)
(* reported as successful was.                                             *)
THEOREM VerdictsAreHonest == CommandsSpec => []VerdictIsHonest
<1>1. CommandsInv => VerdictIsHonest
    BY DEF CommandsInv
<1> QED
    BY <1>1, CommandsInvariant, PTL

----------------------------------------------------------------------------
(* The quota.  A stamp is Skew old at most when it is charged; *)
StampsAreRecent ==
    \A h \in Caller : stamp[h] # Unset => stamp[h] <= clock /\ clock - stamp[h] <= Skew

GrantsAreTimely ==
    \A g \in DOMAIN granted : /\ granted[g].stamp <= granted[g].at
                              /\ granted[g].at <= granted[g].stamp + Skew
                              /\ granted[g].at <= clock

(* so no handler's charge drops a broadcast let through in the last Minute *)
(* less Skew, whichever stamp it drops the expired ones by.                *)
WindowHoldsLatest == Latest(Minute - Skew) \subseteq window

QuotaInv == /\ QuotaTypeOK /\ StampsAreRecent /\ GrantsAreTimely /\ WindowHoldsLatest
            /\ refused <= clock /\ RefusalIsJustified

LEMMA SubsetIsSmaller ==
  ASSUME NEW S, NEW T, IsFiniteSet(T), S \subseteq T
  PROVE  Cardinality(S) <= Cardinality(T) /\ Cardinality(S) \in Nat /\ Cardinality(T) \in Nat
  BY FS_Subset, FS_CardinalityType

LEMMA GrantsAreFinite ==
  ASSUME QuotaTypeOK
  PROVE  IsFiniteSet(DOMAIN granted) /\ IsFiniteSet(window)
<1>1. DOMAIN granted = 1 .. Len(granted) /\ Len(granted) \in Nat
  BY DEF QuotaTypeOK
<1>2. IsFiniteSet(DOMAIN granted)
  BY <1>1, FS_Interval
<1> QED
  BY <1>2, FS_Subset DEF QuotaTypeOK

LEMMA KeepIsPart ==
  ASSUME QuotaTypeOK, NEW h
  PROVE  /\ Keep(h) \subseteq window /\ IsFiniteSet(Keep(h))
         /\ Cardinality(Keep(h)) <= Cardinality(window)
         /\ Cardinality(Keep(h)) \in Nat /\ Cardinality(window) \in Nat
<1>1. Keep(h) \subseteq window
  BY DEF Keep
<1> QED
  BY <1>1, GrantsAreFinite, SubsetIsSmaller, FS_Subset

LEMMA QuotaStep ==
  ASSUME QuotaInv, QuotaNext
  PROVE  QuotaInv'
<1> USE QuotaAssumption
<1>0. QuotaTypeOK /\ clock \in Nat /\ granted \in Seq(Grant)
  BY DEF QuotaInv, QuotaTypeOK
<1>1. \A g \in DOMAIN granted : granted[g].at \in Nat /\ granted[g].stamp \in Nat
  <2>1. \A g \in DOMAIN granted : granted[g] \in Grant
    BY <1>0
  <2> QED
    BY <2>1 DEF Grant
<1>2. CASE Tick
  <2>1. QuotaTypeOK'
    BY <1>2 DEF Tick, QuotaInv, QuotaTypeOK
  <2>2. StampsAreRecent'
    BY <1>2 DEF Tick, QuotaInv, QuotaTypeOK, StampsAreRecent, Unset
  <2>3. GrantsAreTimely' /\ WindowHoldsLatest'
    BY <1>0, <1>1, <1>2 DEF Tick, QuotaInv, GrantsAreTimely, WindowHoldsLatest, Latest
  <2>4. refused' <= clock' /\ refused' # clock'
    BY <1>0, <1>2 DEF Tick, QuotaInv, QuotaTypeOK, Unset
  <2> QED
    BY <2>1, <2>2, <2>3, <2>4 DEF QuotaInv, RefusalIsJustified
<1>3. ASSUME NEW h \in Caller, ReadClock(h) PROVE QuotaInv'
  <2>1. QuotaTypeOK'
    BY <1>3 DEF ReadClock, QuotaInv, QuotaTypeOK
  <2>2. StampsAreRecent'
    BY <1>0, <1>3 DEF ReadClock, QuotaInv, QuotaTypeOK, StampsAreRecent
  <2> QED
    BY <1>3, <2>1, <2>2
       DEF ReadClock, QuotaInv, GrantsAreTimely, WindowHoldsLatest, RefusalIsJustified, Latest
<1>4. ASSUME NEW h \in Caller, stamp[h] # Unset
      PROVE  \A g \in window : g \in Latest(Minute - Skew) => g \in Keep(h)
  <2>1. stamp[h] <= clock /\ stamp[h] \in Nat
    BY <1>4 DEF QuotaInv, QuotaTypeOK, StampsAreRecent, Unset
  <2> QED
    BY <1>0, <1>1, <2>1 DEF QuotaInv, GrantsAreTimely, Latest, Keep
<1>5. ASSUME NEW h \in Caller, Charge(h) PROVE QuotaInv'
  <2> DEFINE n == Len(granted) + 1
             new == [at |-> clock, stamp |-> stamp[h]]
  <2>1. /\ stamp[h] \in 0 .. MaxTime /\ stamp[h] <= clock /\ clock - stamp[h] <= Skew
        /\ stamp[h] # Unset /\ new \in Grant
    BY <1>5 DEF Charge, QuotaInv, QuotaTypeOK, StampsAreRecent, Unset, Grant
  <2>2. /\ granted' = Append(granted, new) /\ granted' \in Seq(Grant)
        /\ Len(granted') = n /\ n \in Nat /\ DOMAIN granted' = DOMAIN granted \cup {n}
        /\ granted'[n] = new /\ n \notin DOMAIN granted
        /\ \A g \in DOMAIN granted : granted'[g] = granted[g]
    BY <1>0, <1>5, <2>1 DEF Charge
  <2>3. window' = Keep(h) \cup {n} /\ UNCHANGED <<clock, refused>>
    BY <1>5, <2>2 DEF Charge
  <2>4. Cardinality(window') <= Limit
    <3>1. n \notin Keep(h)
      BY <1>0, <2>2, KeepIsPart DEF QuotaTypeOK
    <3>2. Cardinality(Keep(h) \cup {n}) = Cardinality(Keep(h)) + 1
      BY <1>0, <3>1, KeepIsPart, FS_AddElement
    <3> QED
      BY <1>0, <1>5, <2>3, <3>2, KeepIsPart DEF Charge
  <2>5. QuotaTypeOK'
    BY <1>0, <1>5, <2>2, <2>3, <2>4, KeepIsPart DEF Charge, QuotaTypeOK
  <2>6. StampsAreRecent'
    BY <1>5 DEF Charge, QuotaInv, QuotaTypeOK, StampsAreRecent
  <2>7. GrantsAreTimely'
    BY <1>0, <1>1, <2>1, <2>2, <2>3 DEF QuotaInv, GrantsAreTimely
  <2>8. WindowHoldsLatest'
    BY <1>4, <2>1, <2>2, <2>3 DEF QuotaInv, WindowHoldsLatest, Latest
  <2>9. RefusalIsJustified'
    <3>1. Latest(Minute + Skew) \subseteq Latest(Minute + Skew)'
      BY <2>2, <2>3 DEF Latest
    <3>2. IsFiniteSet(Latest(Minute + Skew)')
      <4>1. IsFiniteSet(DOMAIN granted \cup {n})
        BY <1>0, GrantsAreFinite, FS_AddElement
      <4> QED
        BY <2>2, <4>1, FS_Subset DEF Latest
    <3> QED
      BY <2>3, <3>1, <3>2, SubsetIsSmaller DEF QuotaInv, RefusalIsJustified
  <2> QED
    BY <2>3, <2>5, <2>6, <2>7, <2>8, <2>9 DEF QuotaInv
<1>6. ASSUME NEW h \in Caller, RefuseCharge(h) PROVE QuotaInv'
  <2>1. /\ stamp[h] \in 0 .. MaxTime /\ stamp[h] <= clock /\ clock - stamp[h] <= Skew
        /\ stamp[h] # Unset
    BY <1>6 DEF RefuseCharge, QuotaInv, QuotaTypeOK, StampsAreRecent, Unset
  <2>2. QuotaTypeOK'
    BY <1>0, <1>6, KeepIsPart DEF RefuseCharge, QuotaTypeOK
  <2>3. StampsAreRecent' /\ GrantsAreTimely'
    BY <1>6 DEF RefuseCharge, QuotaInv, QuotaTypeOK, StampsAreRecent, GrantsAreTimely
  <2>4. WindowHoldsLatest'
    BY <1>4, <1>6, <2>1 DEF RefuseCharge, QuotaInv, WindowHoldsLatest, Latest
  <2>5. RefusalIsJustified'
    <3>1. Keep(h) \subseteq Latest(Minute + Skew)
      <4> SUFFICES ASSUME NEW g \in Keep(h) PROVE g \in Latest(Minute + Skew)
        OBVIOUS
      <4>1. g \in DOMAIN granted /\ granted[g].stamp > stamp[h] - Minute
        BY <1>0 DEF Keep, QuotaTypeOK
      <4>2. granted[g].at > clock - (Minute + Skew)
        BY <1>0, <1>1, <2>1, <4>1 DEF QuotaInv, GrantsAreTimely
      <4> QED
        BY <4>1, <4>2 DEF Latest
    <3>2. IsFiniteSet(Latest(Minute + Skew))
      BY <1>0, GrantsAreFinite, FS_Subset DEF Latest
    <3>3. Cardinality(Latest(Minute + Skew)) >= Limit
      BY <1>6, <3>1, <3>2, SubsetIsSmaller DEF RefuseCharge
    <3> QED
      BY <1>6, <3>3 DEF RefuseCharge, RefusalIsJustified, Latest
  <2>6. refused' <= clock'
    BY <1>0, <1>6 DEF RefuseCharge
  <2> QED
    BY <2>2, <2>3, <2>4, <2>5, <2>6 DEF QuotaInv
<1> QED
  BY <1>2, <1>3, <1>5, <1>6 DEF QuotaNext

(* Whatever order handlers charge in, the window has the latest broadcasts *)
(* (consumeBroadcastQuota).                                                *)
THEOREM QuotaInvariant == QuotaSpec => []QuotaInv
<1>1. QuotaInit => QuotaInv
  <2> SUFFICES ASSUME QuotaInit PROVE QuotaInv
    OBVIOUS
  <2>1. QuotaTypeOK
    BY QuotaAssumption, FS_EmptySet DEF QuotaInit, QuotaTypeOK
  <2>2. StampsAreRecent /\ GrantsAreTimely /\ WindowHoldsLatest
    BY DEF QuotaInit, StampsAreRecent, GrantsAreTimely, WindowHoldsLatest, Latest
  <2>3. refused = -1 /\ clock = 0
    BY DEF QuotaInit, Unset
  <2> QED
    BY <2>1, <2>2, <2>3 DEF QuotaInv, RefusalIsJustified
<1>2. QuotaInv /\ UNCHANGED quotaVars => QuotaInv'
  BY DEF quotaVars, QuotaInv, QuotaTypeOK, StampsAreRecent, GrantsAreTimely, WindowHoldsLatest,
         RefusalIsJustified, Latest
<1> QED
  BY <1>1, <1>2, QuotaStep, PTL DEF QuotaSpec

(* However many handlers charge a listener's window, and in whatever order,*)
(* no more than Limit of its broadcasts pass in a minute less Skew.        *)
THEOREM RatesAreBounded == QuotaSpec => []RateIsBounded
<1>1. ASSUME QuotaInv PROVE RateIsBounded
  <2>1. /\ Cardinality(Latest(Minute - Skew)) <= Cardinality(window)
        /\ Cardinality(Latest(Minute - Skew)) \in Nat /\ Cardinality(window) \in Nat
    BY <1>1, GrantsAreFinite, SubsetIsSmaller DEF QuotaInv, WindowHoldsLatest
  <2> QED
    BY <1>1, <2>1, QuotaAssumption DEF QuotaInv, QuotaTypeOK, RateIsBounded
<1> QED
  BY <1>1, QuotaInvariant, PTL

(* A broadcast is refused only after Limit others in a minute and Skew. *)
THEOREM RefusalsAreJustified == QuotaSpec => []RefusalIsJustified
<1>1. QuotaInv => RefusalIsJustified
  BY DEF QuotaInv
<1> QED
  BY <1>1, QuotaInvariant, PTL

----------------------------------------------------------------------------
(* The service. *)

(* A command that is yet to reload the service, or to remove the plist.    *)
Mending(c) ==
    \/ At(c, "status") /\ (changed[c] \/ job = Nothing)
    \/ step[c] \in {"bootout", "bootstrap", "remove"}

(* A command writes only a plist that it found changed.  Where plist and   *)
(* job differ, a command is at work on it or one has failed.               *)
ServiceInv ==
    /\ ServiceTypeOK
    /\ \A c \in Cli : At(c, "write") => changed[c]
    /\ plist # Nothing /\ plist # job => alarm \/ \E c \in Cli : Mending(c)

LEMMA ServiceTypeStep == ServiceTypeOK /\ [ServiceNext]_serviceVars => ServiceTypeOK'
<1> SUFFICES ASSUME ServiceTypeOK, [ServiceNext]_serviceVars PROVE ServiceTypeOK'
    OBVIOUS
<1> USE ServiceAssumption DEF ServiceTypeOK, ServiceGoto, At
<1>1. CASE UNCHANGED serviceVars
    BY <1>1 DEF serviceVars
<1>2. CASE Login \/ Revive \/ ServerExits
    BY <1>2 DEF Login, Revive, ServerExits, Load
<1>3. ASSUME NEW c \in Cli, NEW b \in Binary, ReadPlist(c, b) PROVE ServiceTypeOK'
    BY <1>3 DEF ReadPlist, Call
<1>4. ASSUME NEW c \in Cli, WritePlist(c) PROVE ServiceTypeOK'
    BY <1>4 DEF WritePlist
<1>5. ASSUME NEW c \in Cli, AlreadyInstalled(c) \/ ReadStatus(c) PROVE ServiceTypeOK'
    BY <1>5 DEF AlreadyInstalled, ReadStatus
<1>6. ASSUME NEW c \in Cli, ReadStatusFails(c) PROVE ServiceTypeOK'
    BY <1>6 DEF ReadStatusFails
<1>7. ASSUME NEW c \in Cli, Bootout(c) PROVE ServiceTypeOK'
    BY <1>7 DEF Bootout
<1>8. ASSUME NEW c \in Cli, BootoutRefused(c) PROVE ServiceTypeOK'
    BY <1>8 DEF BootoutRefused
<1>9. ASSUME NEW c \in Cli, Bootstrap(c) PROVE ServiceTypeOK'
    BY <1>9 DEF Bootstrap, Load
<1>10. ASSUME NEW c \in Cli, BootstrapRefused(c) PROVE ServiceTypeOK'
    BY <1>10 DEF BootstrapRefused
<1>11. ASSUME NEW c \in Cli, UninstallJob(c) PROVE ServiceTypeOK'
  <2>1. calls' \in 0 .. MaxCalls
      BY <1>11 DEF UninstallJob, Call
  <2> QED
      BY <1>11, <2>1 DEF UninstallJob
<1>12. ASSUME NEW c \in Cli, UninstallRefused(c) PROVE ServiceTypeOK'
  <2>1. trouble' \in 0 .. MaxTrouble /\ calls' \in 0 .. MaxCalls
      BY <1>12 DEF UninstallRefused, Call
  <2> QED
      BY <1>12, <2>1 DEF UninstallRefused
<1>13. ASSUME NEW c \in Cli, RemovePlist(c) PROVE ServiceTypeOK'
    BY <1>13 DEF RemovePlist
<1>14. ASSUME NEW c \in Cli, StartStop(c) PROVE ServiceTypeOK'
    BY <1>14 DEF StartStop, Call
<1>15. ASSUME NEW c \in Cli, Abandon(c) PROVE ServiceTypeOK'
    BY <1>15 DEF Abandon, Fails
<1> QED
    BY <1>1, <1>2, <1>3, <1>4, <1>5, <1>6, <1>7, <1>8, <1>9, <1>10, <1>11, <1>12, <1>13, <1>14, <1>15 DEF ServiceNext

LEMMA WritersChange ==
    ServiceInv /\ [ServiceNext]_serviceVars => \A c \in Cli : At(c, "write")' => changed[c]'
<1> SUFFICES ASSUME ServiceInv, [ServiceNext]_serviceVars, NEW d \in Cli, At(d, "write")'
             PROVE  changed[d]'
    OBVIOUS
<1> USE DEF ServiceInv, ServiceTypeOK, At, ServiceGoto
<1>1. CASE UNCHANGED serviceVars
    BY <1>1 DEF serviceVars
<1>2. CASE Login \/ Revive \/ ServerExits
    BY <1>2 DEF Login, Revive, ServerExits
<1>3. ASSUME NEW c \in Cli, NEW b \in Binary, ReadPlist(c, b) PROVE changed[d]'
    BY <1>3 DEF ReadPlist
<1>4. ASSUME NEW c \in Cli,
             \/ WritePlist(c)
             \/ AlreadyInstalled(c) \/ ReadStatus(c) \/ ReadStatusFails(c)
             \/ Bootout(c) \/ BootoutRefused(c) \/ Bootstrap(c) \/ BootstrapRefused(c)
      PROVE  changed[d]'
    BY <1>4 DEF WritePlist, AlreadyInstalled, ReadStatus, ReadStatusFails,
                Bootout, BootoutRefused, Bootstrap, BootstrapRefused
<1>5. ASSUME NEW c \in Cli,
             \/ UninstallJob(c) \/ UninstallRefused(c) \/ RemovePlist(c)
             \/ StartStop(c) \/ Abandon(c)
      PROVE  changed[d]'
    BY <1>5 DEF UninstallJob, UninstallRefused, RemovePlist, StartStop, Abandon, Fails
<1> QED
    BY <1>1, <1>2, <1>3, <1>4, <1>5 DEF ServiceNext

(* What makes plist and job differ leaves a command that mends it or sets  *)
(* the alarm; a command stops mending by making them agree, by failing, or *)
(* because there is no plist any more.                                     *)
LEMMA MendingStep ==
    ServiceInv /\ [ServiceNext]_serviceVars =>
        (plist # Nothing /\ plist # job => alarm \/ \E c \in Cli : Mending(c))'
<1> SUFFICES ASSUME ServiceInv, [ServiceNext]_serviceVars,
                    plist' # Nothing, plist' # job', alarm' # TRUE
             PROVE  \E c \in Cli : Mending(c)'
    BY ServiceTypeStep DEF ServiceInv, ServiceTypeOK
<1> USE DEF ServiceInv, ServiceTypeOK, At, ServiceGoto, Mending
<1>1. CASE UNCHANGED serviceVars
    BY <1>1 DEF serviceVars
<1>2. CASE Login \/ Revive \/ ServerExits
    BY <1>2 DEF Login, Revive, ServerExits, Load
<1>3. ASSUME NEW c \in Cli, NEW b \in Binary, ReadPlist(c, b)
      PROVE  \E d \in Cli : Mending(d)'
    BY <1>3 DEF ReadPlist, Call
<1>4. ASSUME NEW c \in Cli, WritePlist(c)
      PROVE  \E d \in Cli : Mending(d)'
    BY <1>4 DEF WritePlist
<1>5. ASSUME NEW c \in Cli, AlreadyInstalled(c) \/ ReadStatus(c)
      PROVE  \E d \in Cli : Mending(d)'
    BY <1>5 DEF AlreadyInstalled, ReadStatus
<1>6. ASSUME NEW c \in Cli, ReadStatusFails(c) \/ Bootout(c) \/ BootoutRefused(c)
      PROVE  \E d \in Cli : Mending(d)'
    BY <1>6 DEF ReadStatusFails, Bootout, BootoutRefused
<1>7. ASSUME NEW c \in Cli, Bootstrap(c) \/ BootstrapRefused(c)
      PROVE  \E d \in Cli : Mending(d)'
    BY <1>7 DEF Bootstrap, BootstrapRefused, Load
<1>8. ASSUME NEW c \in Cli, UninstallJob(c) \/ UninstallRefused(c) \/ RemovePlist(c)
      PROVE  \E d \in Cli : Mending(d)'
    BY <1>8 DEF UninstallJob, UninstallRefused, RemovePlist
<1>9. ASSUME NEW c \in Cli, StartStop(c) \/ Abandon(c)
      PROVE  \E d \in Cli : Mending(d)'
    BY <1>9 DEF StartStop, Abandon, Fails
<1> QED
    BY <1>1, <1>2, <1>3, <1>4, <1>5, <1>6, <1>7, <1>8, <1>9 DEF ServiceNext

(* Where plist and job differ a command has failed or is still mending it  *)
(* (Install, Uninstall).                                                   *)
THEOREM ServiceInvariant == ServiceSpec => []ServiceInv
<1>1. ServiceInit => ServiceInv
  <2>1. ServiceInit => ServiceTypeOK
    <3> SUFFICES ASSUME ServiceInit PROVE ServiceTypeOK
        OBVIOUS
    <3>1. trouble \in 0 .. MaxTrouble /\ calls \in 0 .. MaxCalls
        BY ServiceAssumption DEF ServiceInit
    <3>2. up => job # Nothing
        BY DEF ServiceInit
    <3> QED
        BY <3>1, <3>2 DEF ServiceInit, ServiceTypeOK
  <2>2. ServiceInit => ServiceTypeOK /\ plist = Nothing /\ \A c \in Cli : ~At(c, "write")
      BY <2>1 DEF ServiceInit, At
  <2> QED
      BY <2>2 DEF ServiceInv
<1>2. ServiceInv /\ [ServiceNext]_serviceVars => ServiceInv'
    BY ServiceTypeStep, WritersChange, MendingStep DEF ServiceInv
<1> QED
    BY <1>1, <1>2, PTL DEF ServiceSpec

(* Once no command is at work, a service whose job is not the one in its   *)
(* plist has had a command fail, or be killed, since the last one that     *)
(* loaded or removed it (Install, Uninstall).                              *)
THEOREM StaleJobsHadFailures == ServiceSpec => []StaleJobHadFailure
<1>1. ServiceInv => StaleJobHadFailure
    BY DEF ServiceInv, StaleJobHadFailure, Mending, At
<1> QED
    BY <1>1, ServiceInvariant, PTL
============================================================================
