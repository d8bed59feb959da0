--------------------------- MODULE ListenerProofs ---------------------------
(***************************************************************************)
(* Theorems of Listener, for any number of listener and helper processes,  *)
(* of collisions allowed and of faults.                                    *)
(***************************************************************************)
EXTENDS Listener, TLAPS

(* The invariant of the proofs.  A listener in its loop has not used up    *)
(* its collisions;                                                         *)
CollisionsAreLeft ==
    \A p \in Proc : pc[p] \in Running \cup {"start"} => collisions[p] < MaxCollisions

(* whoever is past Acquire has the flock;                                  *)
LockIsHeld == \A p \in Proc : pc[p] \in Holding => lock = p

(* the record in the state file is of a listener that has yet to delete    *)
(* it, or of one that was killed.                                          *)
RecordIsOwned == file # NoProc => pc[file] \in (Holding \ {"unlock"}) \cup {"exit"}

ListenerInv ==
    ListenerTypeOK /\ CollisionsAreLeft /\ LockIsHeld /\ RecordIsOwned /\ ServingIsFindable

----------------------------------------------------------------------------
USE DEF files, server, helpers, Running, Holding

LEMMA ListenerInvInit == Init => ListenerInv
  BY ListenerAssumption
     DEF Init, ListenerInv, ListenerTypeOK, CollisionsAreLeft, LockIsHeld, RecordIsOwned,
         ServingIsFindable

(* A step of listener p outside connectAndServe. *)
LEMMA RunKeepsInv ==
  ASSUME ListenerInv, NEW p \in Proc,
         \/ Acquire(p) \/ AcquireFails(p) \/ Retry(p) \/ DeleteState(p) \/ Unlock(p)
         \/ Cancel(p) \/ Kill(p)
  PROVE  ListenerInv'
<1> USE ListenerAssumption
    DEF ListenerInv, ListenerTypeOK, CollisionsAreLeft, LockIsHeld, RecordIsOwned,
        ServingIsFindable, Goto, Return, Fault, FailsFor
<1>1. CASE Acquire(p)
  BY <1>1 DEF Acquire
<1>2. CASE AcquireFails(p)
  BY <1>2 DEF AcquireFails
<1>3. CASE Retry(p)
  BY <1>3 DEF Retry
<1>4. CASE DeleteState(p)
  BY <1>4 DEF DeleteState
<1>5. CASE Unlock(p)
  BY <1>5 DEF Unlock
<1>6. CASE Cancel(p)
  BY <1>6 DEF Cancel
<1>7. CASE Kill(p)
  BY <1>7 DEF Kill
<1> QED
  BY <1>1, <1>2, <1>3, <1>4, <1>5, <1>6, <1>7

(* A step of listener p inside connectAndServe. *)
LEMMA ConnectKeepsInv ==
  ASSUME ListenerInv, NEW p \in Proc,
         \/ Dial(p) \/ DialFails(p)
         \/ ReadWelcome(p) \/ ReadNameTaken(p) \/ ReadRejected(p) \/ HelloFails(p)
         \/ Record(p) \/ RecordFails(p) \/ ReadFails(p)
  PROVE  ListenerInv'
<1> USE ListenerAssumption
    DEF ListenerInv, ListenerTypeOK, CollisionsAreLeft, LockIsHeld, RecordIsOwned,
        ServingIsFindable, Goto, Return, Fault, FailsFor
<1>1. CASE Dial(p) \/ DialFails(p)
  BY <1>1 DEF Dial, DialFails
<1>2. CASE ReadNameTaken(p)
  <2>1. collisions[p] + 1 \in 0 .. MaxCollisions
    BY <1>2 DEF ReadNameTaken
  <2>2. CASE collisions[p] + 1 >= MaxCollisions
    BY <1>2, <2>1, <2>2 DEF ReadNameTaken
  <2>3. CASE collisions[p] + 1 < MaxCollisions
    BY <1>2, <2>1, <2>3 DEF ReadNameTaken
  <2> QED
    BY <2>1, <2>2, <2>3
<1>3. CASE ReadWelcome(p) \/ ReadRejected(p) \/ HelloFails(p)
  BY <1>3 DEF ReadWelcome, ReadRejected, HelloFails
<1>4. CASE Record(p)
  BY <1>4 DEF Record
<1>5. CASE RecordFails(p) \/ ReadFails(p)
  BY <1>5 DEF RecordFails, ReadFails
<1> QED
  BY <1>1, <1>2, <1>3, <1>4, <1>5

(* A step of the server, or of the network. *)
LEMMA ServerKeepsInv ==
  ASSUME ListenerInv,
         \/ \E p \in Proc : Serve(p) \/ Break(p) \/ Unregister(p)
         \/ ServerStops \/ ServerStarts
  PROVE  ListenerInv'
<1> USE DEF ListenerInv, ListenerTypeOK, CollisionsAreLeft, LockIsHeld, RecordIsOwned,
            ServingIsFindable, Fault
<1>1. ASSUME NEW p \in Proc, Serve(p) \/ Break(p) \/ Unregister(p) PROVE ListenerInv'
  BY <1>1 DEF Serve, Accept, NameTaken, Reject, Answer, Break, Unregister
<1>2. CASE ServerStops
  <2>1. up' = FALSE /\ UNCHANGED <<pc, lock, file, reply, cancelled, collisions, hpc, seen>>
    BY <1>2 DEF ServerStops
  <2>2. /\ registered' = {} /\ conn' = [p \in Proc |-> "none"]
        /\ faults' \in Nat
    BY <1>2 DEF ServerStops
  <2> QED
    BY <2>1, <2>2
<1>3. CASE ServerStarts
  <2>1. /\ up' = TRUE
        /\ UNCHANGED <<pc, lock, file, conn, reply, registered, cancelled, collisions,
                       hpc, seen, faults>>
    BY <1>3 DEF ServerStarts
  <2> QED
    BY <2>1
<1> QED
  BY <1>1, <1>2, <1>3

(* A step of a helper. *)
LEMMA HelperKeepsInv ==
  ASSUME ListenerInv, NEW h \in Helper,
         \/ Find(h) \/ Attach(h) \/ Refused(h) \/ HelperFails(h) \/ Reread(h) \/ Unlink(h)
  PROVE  ListenerInv'
<1> USE ListenerAssumption
    DEF ListenerInv, ListenerTypeOK, CollisionsAreLeft, LockIsHeld, RecordIsOwned,
        ServingIsFindable, HGoto
<1>1. CASE Find(h)
  BY <1>1 DEF Find
<1>2. CASE Attach(h) \/ Refused(h) \/ HelperFails(h)
  BY <1>2 DEF Attach, Refused, HelperFails
<1>3. CASE Reread(h)
  BY <1>3 DEF Reread
<1>4. CASE Unlink(h)
  BY <1>4 DEF Unlink
<1> QED
  BY <1>1, <1>2, <1>3, <1>4

LEMMA ListenerInvNext == ListenerInv /\ [Next]_vars => ListenerInv'
<1> SUFFICES ASSUME ListenerInv, [Next]_vars PROVE ListenerInv'
  OBVIOUS
<1>1. CASE Next
  BY <1>1, RunKeepsInv, ConnectKeepsInv, ServerKeepsInv, HelperKeepsInv DEF Next, Own
<1>2. CASE UNCHANGED vars
  BY <1>2 DEF vars, ListenerInv, ListenerTypeOK, CollisionsAreLeft, LockIsHeld,
              RecordIsOwned, ServingIsFindable
<1> QED
  BY <1>1, <1>2

----------------------------------------------------------------------------
(* Types, and with them: no listener is told more than MaxCollisions times *)
(* that its name is taken.                                                 *)
THEOREM ListenerTypeCorrect == Spec => []ListenerTypeOK
<1>1. ListenerInv => ListenerTypeOK
  BY DEF ListenerInv
<1> QED
  BY <1>1, ListenerInvInit, ListenerInvNext, PTL DEF Spec

(* The flock keeps listeners of a session apart: at most one of them is    *)
(* anywhere between Acquire and Unlock.                                    *)
THEOREM OneListenerRuns ==
  Spec => [](\A p, q \in Proc : pc[p] \in Holding /\ pc[q] \in Holding => p = q)
<1>1. ListenerInv => \A p, q \in Proc : pc[p] \in Holding /\ pc[q] \in Holding => p = q
  BY DEF ListenerInv, LockIsHeld
<1> QED
  BY <1>1, ListenerInvInit, ListenerInvNext, PTL DEF Spec

(* Helpers of a session whose listener serves find that listener, or, if   *)
(* one of them removed the file, none: never a dead or competing process.  *)
THEOREM ServingListenerIsFindable == Spec => []ServingIsFindable
<1>1. ListenerInv => ServingIsFindable
  BY DEF ListenerInv
<1> QED
  BY <1>1, ListenerInvInit, ListenerInvNext, PTL DEF Spec

(* The deferred DeleteSessionState of a listener removes its own record or *)
(* that of a killed process.                                               *)
THEOREM DeletesNoLiveRecord == Spec => LiveRecordIsKept
<1> DEFINE Keeps == \A p \in Proc :
                       DeleteState(p) => file \in {p, NoProc} \/ pc[file] = "exit"
<1>1. ListenerInv /\ [Next]_vars => [Keeps]_vars
  BY DEF ListenerInv, ListenerTypeOK, LockIsHeld, RecordIsOwned, DeleteState
<1> QED
  BY <1>1, ListenerInvInit, ListenerInvNext, PTL DEF Spec, LiveRecordIsKept
============================================================================
