------------------------------- MODULE MCBus -------------------------------
(***************************************************************************)
(* Instances of Bus for TLC: two listener processes, one of which wants    *)
(* the other's name, an impostor of the first, a nameless client without a *)
(* session id, and control connections of the first with a current and a   *)
(* stale nonce.                                                            *)
(***************************************************************************)
EXTENDS Bus, TLC

CONSTANTS c1, c2, c3, s1, s2, n1, n2, k1, k2, q

Duo == {c1, c2}
Trio == {c1, c2, c3}
DuoSymmetry == Permutations(Duo)
TrioSymmetry == Permutations(Trio)

Agent(s, n, k) == [role |-> "agent", session |-> s, name |-> n, nonce |-> k]
Control(s, k) == [role |-> "control", session |-> s, name |-> NoName, nonce |-> k]

(* n1 is a prefix of n2, as "bob" is of "bob-2"; q is a prefix of both     *)
(* session ids.                                                            *)
MCPrefix == {<<n1, n1>>, <<n1, n2>>, <<q, s1>>, <<q, s2>>}

(* A second listener that wants the same name, a control of the first, and *)
(* a client without a session id: three agents may be on the bus at once.  *)
TeamHellos ==
    {Agent(s1, n1, k1), Agent(s2, n1, k2), Control(s1, k1),
     Agent(NoSession, NoName, NoNonce)}

(* The second listener, told that n1 is taken, with n2; an impostor of the *)
(* first, a control with a stale nonce.                                    *)
AllHellos ==
    TeamHellos \cup {Agent(s2, n2, k2), Agent(s1, n2, k2), Control(s1, k2)}
============================================================================
