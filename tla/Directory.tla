----------------------------- MODULE Directory -----------------------------
(***************************************************************************)
(* What the registry of internal/bus promises its clients, with neither    *)
(* connections nor frames: a session id, once claimed, is held under a     *)
(* name no other session has, until it is released or claimed again by     *)
(* whoever knows the nonce it was claimed with.                            *)
(***************************************************************************)
CONSTANTS SessionId, Name, Nonce, NoName, NoNonce,
          Vacant  \* the holder of a session id nobody holds, not a record

VARIABLE holder

Init == holder = [s \in SessionId |-> Vacant]

NameFree(n, s) ==
    n = NoName \/ \A t \in SessionId \ {s} : holder[t] # Vacant => holder[t].name # n

Claim(s, n, k) ==
    /\ holder[s] # Vacant => k # NoNonce /\ k = holder[s].nonce
    /\ NameFree(n, s)
    /\ holder' = [holder EXCEPT ![s] = [name |-> n, nonce |-> k]]

Release(s) ==
    /\ holder[s] # Vacant
    /\ holder' = [holder EXCEPT ![s] = Vacant]

Rename(s, n) ==
    /\ holder[s] # Vacant
    /\ NameFree(n, s)
    /\ holder' = [holder EXCEPT ![s].name = n]

Next == \E s \in SessionId :
            \/ Release(s)
            \/ \E n \in Name \cup {NoName} :
                  Rename(s, n) \/ \E k \in Nonce \cup {NoNonce} : Claim(s, n, k)

Spec == Init /\ [][Next]_holder
============================================================================
