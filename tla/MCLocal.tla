------------------------------- MODULE MCLocal --------------------------------
(***************************************************************************)
(* Instances for TLC of the parts that share nothing with each other: the  *)
(* first state chooses which one runs, so that the states of a run are the *)
(* sum of theirs, not the product.                                         *)
(***************************************************************************)
EXTENDS Journal, Quota, Commands, Names, Service, Keys

CONSTANTS
    Parts,   \* the parts that run
    w1, w2, w3,
    a1, a2, a3

VARIABLE part

localVars == <<part, journalVars, quotaVars, commandsVars, namesVars, serviceVars, keysVars>>

(* In megabytes: texts of nothing, at the caps and over them, escaped to   *)
(* six times their size at most.  A header counts as one.                  *)
Text(raws, encs) == {t \in raws \X encs : t[1] <= t[2] /\ t[2] <= 6 * t[1]}

CommandMC ==
    {[kind |-> "send", raw |-> t[1], enc |-> t[2]] :
        t \in Text({0, 1, 10, 11}, {0, 1, 6, 10, 14, 15, 16})}
    \cup {[kind |-> "broadcast", raw |-> t[1], enc |-> t[2]] :
        t \in Text({0, 1, 2}, {0, 1, 6})}
    \cup [kind : {"rename", "list"}, raw : {0}, enc : {0}]

(* Two agents want the same name, the third has one of its own, but may be *)
(* renamed to the name of the two or to a suggestion.                      *)
WantedMC == [a \in Agent |-> IF a = a3 THEN <<2>> ELSE <<1>>]

LocalInit ==
    /\ part \in Parts
    /\ JournalInit /\ QuotaInit /\ CommandsInit /\ NamesInit /\ ServiceInit /\ KeysInit

LocalNext ==
    \/ /\ part = "journal" /\ JournalNext
       /\ UNCHANGED <<part, quotaVars, commandsVars, namesVars, serviceVars, keysVars>>
    \/ /\ part = "quota" /\ QuotaNext
       /\ UNCHANGED <<part, journalVars, commandsVars, namesVars, serviceVars, keysVars>>
    \/ /\ part = "commands" /\ CommandsNext
       /\ UNCHANGED <<part, journalVars, quotaVars, namesVars, serviceVars, keysVars>>
    \/ /\ part = "names" /\ NamesNext
       /\ UNCHANGED <<part, journalVars, quotaVars, commandsVars, serviceVars, keysVars>>
    \/ /\ part = "service" /\ ServiceNext
       /\ UNCHANGED <<part, journalVars, quotaVars, commandsVars, namesVars, keysVars>>
    \/ /\ part = "keys" /\ KeysNext
       /\ UNCHANGED <<part, journalVars, quotaVars, commandsVars, namesVars, serviceVars>>

LocalSpec == LocalInit /\ [][LocalNext]_localVars

(* Every variable of every part keeps its type. *)
LocalTypeOK ==
    /\ JournalTypeOK
    /\ QuotaTypeOK
    /\ CommandsTypeOK
    /\ NamesTypeOK
    /\ ServiceTypeOK
    /\ KeysTypeOK
===============================================================================
