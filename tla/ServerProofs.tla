---------------------------- MODULE ServerProofs ----------------------------
(***************************************************************************)
(* Server keeps its types and its callers agree on one token, for any      *)
(* number of processes and faults; and, where servers are started one      *)
(* after the other, the server that holds the port has its identity on     *)
(* disk.                                                                   *)
(***************************************************************************)
EXTENDS Server, TLAPS

(* Every process stays on its own path through the program. *)
ServerPc == {"new", "token", "write", "read", "pid", "meta", "listen", "notify",
             "mount", "serve", "unlink", "remove_pid", "remove_meta", "exit"}

Paths ==
    /\ \A p \in Server : pc[p] \in ServerPc
    /\ \A c \in Listener : pc[c] \in {"verify", "verify_meta", "token", "write",
                                      "read", "dial", "in", "exit"}
    /\ \A p \in Command : pc[p] \in {"new", "token", "write", "read", "exit"}

(* The file is empty while its creator is about to write it, and only the  *)
(* creator writes; what anybody got is in the file.                        *)
OneToken ==
    /\ \A p \in Proc : pc[p] = "write" =>
          token = Empty /\ \A q \in Proc : pc[q] = "write" => q = p
    /\ \A p \in Proc : pc[p] = "read" => token # None
    /\ \A p \in Proc : got[p] # None => token = got[p]

TypeInv == ServerTypeOK /\ Paths

(* Types and paths are inductive on their own. *)
LEMMA TypeInvStep == TypeInv /\ [Next]_vars => TypeInv'
<1> SUFFICES ASSUME TypeInv, [Next]_vars PROVE TypeInv'
    OBVIOUS
<1> USE ServerAssumption DEF TypeInv, ServerTypeOK, Paths, ServerPc, Proc
<1> CASE UNCHANGED vars
    BY DEF vars, tokens, identity
<1>1. ASSUME NEW p \in Proc, EnsureToken(p) PROVE TypeInv'
  <2> USE DEF EnsureToken
  <2> CASE OpenToken(p) BY <1>1 DEF OpenToken, Goto, identity
  <2> CASE OpenTokenFails(p)
      BY <1>1 DEF OpenTokenFails, Goto, AfterError, Fault, tokens, identity
  <2> CASE WriteToken(p) BY <1>1 DEF WriteToken, Goto, AfterToken, identity
  <2> CASE WriteTokenFails(p)
      BY <1>1 DEF WriteTokenFails, Goto, AfterError, Fault, tokens, identity
  <2> CASE ReadToken(p) BY <1>1 DEF ReadToken, Goto, AfterToken, identity
  <2> CASE ReadTokenFails(p)
      BY <1>1 DEF ReadTokenFails, FailsFor, Goto, AfterError, Fault, tokens, identity
  <2> QED BY <1>1
<1>2. ASSUME NEW p \in Server \cup Command, Start(p) PROVE TypeInv'
      BY <1>2 DEF Start, Goto, tokens, identity
<1>3. ASSUME NEW p \in Server, RunServer(p) PROVE TypeInv'
  <2> USE DEF Goto, Fault, FailsFor, tokens, identity
  <2> CASE Start(p) BY <1>2
  <2> CASE EnsureToken(p) BY <1>1
  <2> CASE WritePid(p) BY DEF WritePid
  <2> CASE WriteMeta(p) BY DEF WriteMeta
  <2> CASE WriteIdentityFails(p) BY DEF WriteIdentityFails
  <2> CASE Listen(p) BY DEF Listen
  <2> CASE ListenFails(p) BY DEF ListenFails
  <2> CASE Notify(p) BY DEF Notify
  <2> CASE Serve(p) BY DEF Serve
  <2> CASE ServeFails(p) BY DEF ServeFails
  <2> CASE ReadOwnPid(p) BY DEF ReadOwnPid
  <2> CASE RemovePid(p) BY DEF RemovePid
  <2> CASE RemoveMeta(p) BY DEF RemoveMeta
  <2> CASE UnlinkFails(p) BY DEF UnlinkFails
  <2> QED BY <1>3 DEF RunServer
<1>4. ASSUME NEW p \in Server, Signal(p) \/ Stop(p) PROVE TypeInv'
      BY <1>4 DEF Signal, Stop, Goto, Fault, tokens, identity
<1>5. ASSUME NEW c \in Listener, RunListener(c) PROVE TypeInv'
  <2> USE DEF Goto, Fault, FailsFor, tokens, identity
  <2> CASE VerifyPid(c) BY DEF VerifyPid
  <2> CASE VerifyMeta(c) BY DEF VerifyMeta
  <2> CASE VerifyFails(c) BY DEF VerifyFails
  <2> CASE EnsureToken(c) BY <1>1
  <2> CASE Dial(c) BY DEF Dial
  <2> CASE DialFails(c) BY DEF DialFails
  <2> CASE Dropped(c) BY DEF Dropped
  <2> QED BY <1>5 DEF RunListener
<1>6. ASSUME NEW p \in Command, RunCommand(p) PROVE TypeInv'
      BY <1>1, <1>2, <1>6 DEF RunCommand
<1>7. ASSUME NEW p \in Proc, Kill(p) PROVE TypeInv'
      BY <1>7 DEF Kill, Goto, AfterError, Fault, Alive, tokens, identity
<1> QED BY <1>3, <1>4, <1>5, <1>6, <1>7 DEF Next

LEMMA TypeInvInit == Init => TypeInv
BY ServerAssumption DEF Init, TypeInv, ServerTypeOK, Paths, ServerPc, Proc

(* Every variable keeps its type. *)
THEOREM ServerTypeCorrect == Spec => []ServerTypeOK
<1>1. TypeInv => ServerTypeOK BY DEF TypeInv
<1> QED BY <1>1, TypeInvInit, TypeInvStep, PTL DEF Spec

----------------------------------------------------------------------------
(* One token. *)

LEMMA OneTokenInit == Init => OneToken
BY DEF Init, OneToken

(* Only the steps of EnsureToken touch the token file; the others only     *)
(* move a process to a place where it neither writes nor reads.            *)
LEMMA OneTokenStep == TypeInv /\ OneToken /\ [Next]_vars => OneToken'
<1> SUFFICES ASSUME TypeInv, OneToken, [Next]_vars PROVE OneToken'
    OBVIOUS
<1> USE ServerAssumption DEF TypeInv, ServerTypeOK, OneToken, Proc
<1> CASE UNCHANGED vars
    BY DEF vars, tokens, identity
<1>1. ASSUME NEW p \in Proc, EnsureToken(p) PROVE OneToken'
  <2>1. AfterToken(p) \notin {"write", "read"} /\ AfterError(p) \notin {"write", "read"}
        BY DEF AfterToken, AfterError
  <2> CASE OpenToken(p) BY DEF OpenToken, Goto
  <2> CASE OpenTokenFails(p) BY <2>1 DEF OpenTokenFails, Goto, tokens
  <2> CASE WriteToken(p) BY <2>1 DEF WriteToken, Goto
  <2> CASE WriteTokenFails(p) BY <2>1 DEF WriteTokenFails, Goto, tokens
  <2> CASE ReadToken(p) BY <2>1 DEF ReadToken, Goto
  <2> CASE ReadTokenFails(p) BY <2>1 DEF ReadTokenFails, Goto, tokens
  <2> QED BY <1>1 DEF EnsureToken
<1>2. ASSUME NEW p \in Server \cup Command, Start(p) PROVE OneToken'
      BY <1>2 DEF Start, Goto, tokens
<1>3. ASSUME NEW p \in Server, RunServer(p) PROVE OneToken'
  <2> USE DEF Goto, tokens
  <2> CASE Start(p) BY <1>2
  <2> CASE EnsureToken(p) BY <1>1
  <2> CASE WritePid(p) BY DEF WritePid
  <2> CASE WriteMeta(p) BY DEF WriteMeta
  <2> CASE WriteIdentityFails(p) BY DEF WriteIdentityFails
  <2> CASE Listen(p) BY DEF Listen
  <2> CASE ListenFails(p) BY DEF ListenFails
  <2> CASE Notify(p) BY DEF Notify
  <2> CASE Serve(p) BY DEF Serve
  <2> CASE ServeFails(p) BY DEF ServeFails
  <2> CASE ReadOwnPid(p) BY DEF ReadOwnPid
  <2> CASE RemovePid(p) BY DEF RemovePid
  <2> CASE RemoveMeta(p) BY DEF RemoveMeta
  <2> CASE UnlinkFails(p) BY DEF UnlinkFails
  <2> QED BY <1>3 DEF RunServer
<1>4. ASSUME NEW p \in Server, Signal(p) \/ Stop(p) PROVE OneToken'
      BY <1>4 DEF Signal, Stop, Goto, tokens
<1>5. ASSUME NEW c \in Listener, RunListener(c) PROVE OneToken'
  <2> USE DEF Goto, tokens
  <2> CASE VerifyPid(c) BY DEF VerifyPid
  <2> CASE VerifyMeta(c) BY DEF VerifyMeta
  <2> CASE VerifyFails(c) BY DEF VerifyFails
  <2> CASE EnsureToken(c) BY <1>1
  <2> CASE Dial(c) BY DEF Dial
  <2> CASE DialFails(c) BY DEF DialFails
  <2> CASE Dropped(c) BY DEF Dropped
  <2> QED BY <1>5 DEF RunListener
<1>6. ASSUME NEW p \in Command, RunCommand(p) PROVE OneToken'
      BY <1>1, <1>2, <1>6 DEF RunCommand
<1>7. ASSUME NEW p \in Proc, Kill(p) PROVE OneToken'
      BY <1>7 DEF Kill, Goto, AfterError, tokens
<1> QED BY <1>3, <1>4, <1>5, <1>6, <1>7 DEF Next

(* All callers of EnsureToken that get a token get the same one, whoever   *)
(* raced to create it, and whoever was killed on the way.                  *)
THEOREM CallersShareOneToken == Spec => []TokensAgree
<1>1. OneToken => TokensAgree BY DEF OneToken, TokensAgree
<1> QED BY <1>1, TypeInvInit, TypeInvStep, OneTokenInit, OneTokenStep, PTL DEF Spec

----------------------------------------------------------------------------
(* Servers started one after the other. *)

HasPid == {"meta", "listen", "notify", "mount", "serve"}
HasMeta == HasPid \ {"meta"}
Serving == {"notify", "mount", "serve"}

(* One server is alive, the port is its own while it serves, and the files *)
(* hold what it has written.                                               *)
SoleServer ==
    /\ \A p, q \in Server : Alive(p) /\ Alive(q) => p = q
    /\ bound # None => pc[bound] \in Serving
    /\ \A p \in Server : pc[p] \in HasPid => pidfile = p
    /\ \A p \in Server : pc[p] \in HasMeta => meta = p

LEMMA SoleServerInit == Init => SoleServer
BY ServerAssumption DEF Init, SoleServer, Alive, Proc, HasPid, HasMeta, Serving

LEMMA SoleServerStep ==
    Exclusive /\ TypeInv /\ SoleServer /\ [Next]_vars => SoleServer'
<1> SUFFICES ASSUME Exclusive, TypeInv, SoleServer, [Next]_vars PROVE SoleServer'
    OBVIOUS
<1> USE ServerAssumption
    DEF TypeInv, ServerTypeOK, Paths, SoleServer, Alive, Proc, HasPid, HasMeta, Serving
<1> CASE UNCHANGED vars
    BY DEF vars, tokens, identity
<1>1. ASSUME NEW p \in Proc, EnsureToken(p) PROVE SoleServer'
  <2> USE DEF Goto, identity
  <2> CASE OpenToken(p) BY DEF OpenToken
  <2> CASE OpenTokenFails(p) BY DEF OpenTokenFails, AfterError
  <2> CASE WriteToken(p) BY DEF WriteToken, AfterToken
  <2> CASE WriteTokenFails(p) BY DEF WriteTokenFails, AfterError
  <2> CASE ReadToken(p) BY DEF ReadToken, AfterToken
  <2> CASE ReadTokenFails(p) BY DEF ReadTokenFails, AfterError
  <2> QED BY <1>1 DEF EnsureToken
<1>2. ASSUME NEW p \in Server \cup Command, Start(p) PROVE SoleServer'
      BY <1>2 DEF Start, Goto, identity
<1>3. ASSUME NEW p \in Server, RunServer(p) PROVE SoleServer'
  <2> USE DEF Goto, identity
  <2> CASE Start(p) BY <1>2
  <2> CASE EnsureToken(p) BY <1>1
  <2> CASE WritePid(p) BY DEF WritePid
  <2> CASE WriteMeta(p) BY DEF WriteMeta
  <2> CASE WriteIdentityFails(p) BY DEF WriteIdentityFails
  <2> CASE Listen(p) BY DEF Listen
  <2> CASE ListenFails(p) BY DEF ListenFails
  <2> CASE Notify(p) BY DEF Notify
  <2> CASE Serve(p) BY DEF Serve
  <2> CASE ServeFails(p) BY DEF ServeFails
  <2> CASE ReadOwnPid(p) BY DEF ReadOwnPid
  <2> CASE RemovePid(p) BY DEF RemovePid
  <2> CASE RemoveMeta(p) BY DEF RemoveMeta
  <2> CASE UnlinkFails(p) BY DEF UnlinkFails
  <2> QED BY <1>3 DEF RunServer
<1>4. ASSUME NEW p \in Server, Signal(p) \/ Stop(p) PROVE SoleServer'
      BY <1>4 DEF Signal, Stop, Goto, identity
<1>5. ASSUME NEW c \in Listener, RunListener(c) PROVE SoleServer'
  <2> USE DEF Goto, identity
  <2> CASE VerifyPid(c) BY DEF VerifyPid
  <2> CASE VerifyMeta(c) BY DEF VerifyMeta
  <2> CASE VerifyFails(c) BY DEF VerifyFails
  <2> CASE EnsureToken(c) BY <1>1
  <2> CASE Dial(c) BY DEF Dial
  <2> CASE DialFails(c) BY DEF DialFails
  <2> CASE Dropped(c) BY DEF Dropped
  <2> QED BY <1>5 DEF RunListener
<1>6. ASSUME NEW p \in Command, RunCommand(p) PROVE SoleServer'
      BY <1>1, <1>2, <1>6 DEF RunCommand
<1>7. ASSUME NEW p \in Proc, Kill(p) PROVE SoleServer'
      BY <1>7 DEF Kill, Goto, AfterError, identity
<1> QED BY <1>3, <1>4, <1>5, <1>6, <1>7 DEF Next

(* Where launchd alone starts servers, the port is never bound without     *)
(* the identity of its holder on disk, across kills and failures.          *)
THEOREM IdentityCoversPort == Exclusive /\ Spec => []BoundHasIdentity
<1>1. TypeInv /\ SoleServer => BoundHasIdentity
      BY ServerAssumption
      DEF TypeInv, ServerTypeOK, SoleServer, BoundHasIdentity, HasPid, HasMeta, Serving
<1>2. ASSUME Exclusive PROVE Spec => []BoundHasIdentity
  <2>1. SoleServer /\ TypeInv /\ [Next]_vars => SoleServer'
        BY <1>2, SoleServerStep
  <2> QED BY <1>1, <2>1, TypeInvInit, TypeInvStep, SoleServerInit, PTL DEF Spec
<1> QED BY <1>2
============================================================================
