-------------------------------- MODULE Quota --------------------------------
(***************************************************************************)
(* The broadcast quota of a listener (consumeBroadcastQuota).  Handlers    *)
(* read the clock, then wait for broadcastMu and charge the window with    *)
(* the time they read: windows are charged late, and out of order.         *)
(*                                                                         *)
(* A listener's window is charged by its own handler and those of its      *)
(* controls, is kept when it reconnects, and is touched by no other        *)
(* listener: one window is modelled.                                       *)
(***************************************************************************)
EXTENDS Integers, Sequences, FiniteSets

CONSTANTS
    Caller,   \* handlers that speak for the listener
    Limit,    \* BroadcastRateLimitPerMin
    Minute,   \* the length of the window
    Skew,     \* longest time between reading the clock and the lock
    MaxTime   \* bound: when the clock stops

ASSUME QuotaAssumption ==
    /\ Limit \in Nat \ {0}
    /\ Minute \in Nat \ {0}
    /\ Skew \in 0 .. Minute - 1
    /\ MaxTime \in Nat

VARIABLES
    clock,
    stamp,    \* the time a handler has read, or Unset
    granted,  \* the broadcasts allowed so far: when, and with which stamp
    window,   \* broadcastWindows[listener]: those whose stamps it holds
    refused   \* when a broadcast was last refused, or never

quotaVars == <<clock, stamp, granted, window, refused>>

Unset == -1

QuotaInit ==
    /\ clock = 0
    /\ stamp = [h \in Caller |-> Unset]
    /\ granted = <<>>
    /\ window = {}
    /\ refused = Unset

(* A handler is held up for Skew at most: the scheduler's promise. *)
Tick ==
    /\ clock < MaxTime
    /\ \A h \in Caller : stamp[h] # Unset => clock - stamp[h] < Skew
    /\ clock' = clock + 1
    /\ UNCHANGED <<stamp, granted, window, refused>>

ReadClock(h) ==
    /\ stamp[h] = Unset
    /\ stamp' = [stamp EXCEPT ![h] = clock]
    /\ UNCHANGED <<clock, granted, window, refused>>

(* Mutant: the window starts anew when an entry expires. *)
KeepAll(h) == IF \E g \in window : granted[g].stamp <= stamp[h] - Minute THEN {} ELSE window

(* Mutant: an entry as old as the window is kept. *)
KeepTooLong(h) == {g \in window : granted[g].stamp >= stamp[h] - Minute}

(* The entries that have not expired. *)
Keep(h) == {g \in window : granted[g].stamp > stamp[h] - Minute}

Charge(h) ==
    /\ stamp[h] # Unset /\ Cardinality(Keep(h)) < Limit
    /\ granted' = Append(granted, [at |-> clock, stamp |-> stamp[h]])
    /\ window' = Keep(h) \cup {Len(granted')}
    /\ stamp' = [stamp EXCEPT ![h] = Unset]
    /\ UNCHANGED <<clock, refused>>

RefuseCharge(h) ==
    /\ stamp[h] # Unset /\ Cardinality(Keep(h)) >= Limit
    /\ window' = Keep(h)
    /\ refused' = clock
    /\ stamp' = [stamp EXCEPT ![h] = Unset]
    /\ UNCHANGED <<clock, granted>>

QuotaNext == Tick \/ \E h \in Caller : ReadClock(h) \/ Charge(h) \/ RefuseCharge(h)

QuotaSpec == QuotaInit /\ [][QuotaNext]_quotaVars

----------------------------------------------------------------------------
Grant == [at : 0 .. MaxTime, stamp : 0 .. MaxTime]

QuotaTypeOK ==
    /\ clock \in 0 .. MaxTime
    /\ stamp \in [Caller -> 0 .. MaxTime \cup {Unset}]
    /\ granted \in Seq(Grant)
    /\ window \subseteq DOMAIN granted
    /\ Cardinality(window) <= Limit
    /\ refused \in 0 .. MaxTime \cup {Unset}

(* The broadcasts let through in the last d of time. *)
Latest(d) == {g \in DOMAIN granted : granted[g].at > clock - d}

(* No more than Limit broadcasts of a listener are let through in a minute *)
(* (less the time a handler may be held up before it takes the lock),      *)
(* though they charge the window out of order (consumeBroadcastQuota).     *)
RateIsBounded == Cardinality(Latest(Minute - Skew)) <= Limit

(* A broadcast is refused only if Limit others were let through in the     *)
(* last minute (and Skew): expired entries do not count.                   *)
RefusalIsJustified == refused = clock => Cardinality(Latest(Minute + Skew)) >= Limit
============================================================================
