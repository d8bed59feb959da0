----------------------------- MODULE LocalProofs -----------------------------
(***************************************************************************)
(* A behaviour of MCLocal is one of each of its parts, so that what is     *)
(* proved of a part holds in it too.                                       *)
(***************************************************************************)
EXTENDS MCLocal, JournalProofs, CommandsProofs, NamesProofs

LEMMA PartsStart ==
    LocalInit => JournalInit /\ QuotaInit /\ CommandsInit /\ NamesInit /\ ServiceInit /\ KeysInit
BY DEF LocalInit

LEMMA PartsStep ==
    [LocalNext]_localVars =>
        /\ [JournalNext]_journalVars
        /\ [QuotaNext]_quotaVars
        /\ [CommandsNext]_commandsVars
        /\ [NamesNext]_namesVars
        /\ [ServiceNext]_serviceVars
        /\ [KeysNext]_keysVars
BY DEF LocalNext, localVars

(* Whichever part runs, each does what its own specification says. *)
THEOREM PartsRun ==
    LocalSpec => /\ JournalSpec /\ QuotaSpec /\ CommandsSpec
                 /\ NamesSpec /\ ServiceSpec /\ KeysSpec
BY PartsStart, PartsStep, PTL
   DEF LocalSpec, JournalSpec, QuotaSpec, CommandsSpec, NamesSpec, ServiceSpec, KeysSpec

(* Every variable of every part keeps its type, whatever the constants. *)
THEOREM LocalTypeCorrect == LocalSpec => []LocalTypeOK
<1>1. CommandsInv => CommandsTypeOK
    BY DEF CommandsInv
<1>2. QuotaInv => QuotaTypeOK
    BY DEF QuotaInv
<1>3. NamesInv => NamesTypeOK
    BY DEF NamesInv
<1>4. ServiceInv => ServiceTypeOK
    BY DEF ServiceInv
<1>5. KeysInv => KeysTypeOK
    BY DEF KeysInv
<1>6. JournalTypeOK /\ QuotaTypeOK /\ CommandsTypeOK /\ NamesTypeOK /\ ServiceTypeOK /\ KeysTypeOK
        => LocalTypeOK
    BY DEF LocalTypeOK
<1> QED
    BY <1>1, <1>2, <1>3, <1>4, <1>5, <1>6, PartsRun, JournalTypeCorrect, QuotaInvariant,
       CommandsInvariant, NamesInvariant, ServiceInvariant, KeysInvariant, PTL
==============================================================================
