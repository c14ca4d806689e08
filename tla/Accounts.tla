-------------------------------- MODULE Accounts --------------------------------
(***************************************************************************)
(* Users, their sessions and the pages that administer them: services/      *)
(* auth.py, web/auth_routes.py, web/dependencies.py and the user pages of   *)
(* web/admin_routes.py.                                                     *)
(*                                                                         *)
(* A request is authorised in a transaction of its own (require_user), and  *)
(* its handler runs later, in another thread, with the user it was given.   *)
(* A handler that reads a row and decides before it writes is two steps,    *)
(* any other is one.  Sessions of one user are not told apart.              *)
(***************************************************************************)
EXTENDS Integers, FiniteSets

CONSTANTS Users,
          Administrators,  \* active administrators at first
          Viewers,         \* active viewers at first
          Requests,        \* slots for requests in progress
          MaxAttempts,     \* settings.login_max_attempts
          MaxOps,          \* bound: requests
          MaxTurns,        \* bound: logins, failed or not, and passages of time
          NoUser

ASSUME UsersAssumption ==
    /\ Administrators \cup Viewers \subseteq Users
    /\ Administrators \cap Viewers = {}
    /\ Administrators # {}
    /\ NoUser \notin Users
ASSUME AttemptsAssumption == MaxAttempts \in Nat \ {0}
ASSUME BoundsAssumption == MaxOps \in Nat /\ MaxTurns \in Nat

Roles == {"admin", "viewer"}
User == [row: BOOLEAN, role: Roles, active: BOOLEAN, deleted: BOOLEAN]
Request == [pc: {"idle", "authorised", "update", "delete"},
            by: Users \cup {NoUser}, admin: BOOLEAN,
            on: Users \cup {NoUser}, was: User \cup {NoUser},   \* the row the handler read
            role: Roles, active: BOOLEAN]                        \* the form

VARIABLES user, session, attempts, blocked, request,
          outdated,   \* history: a handler wrote on the strength of a row that had changed
          ops, turns

accountVars == <<user, session, attempts, blocked, request, outdated, ops, turns>>
rest == <<attempts, blocked, outdated, ops, turns>>
-----------------------------------------------------------------------------
Idle == [pc |-> "idle", by |-> NoUser, admin |-> FALSE, on |-> NoUser, was |-> NoUser,
         role |-> "viewer", active |-> TRUE]

Known(u) == user[u].row /\ ~user[u].deleted
ActiveAdmins == {u \in Users : user[u].active /\ user[u].role = "admin"}

\* The handler of a request, once it is authorised; r is free again when it has answered.
Handles(r) == request[r].pc = "authorised"
AdminHandles(r) == Handles(r) /\ request[r].admin
Answer(r) == request' = [request EXCEPT ![r] = Idle]

-----------------------------------------------------------------------------
(* Signing in and out. *)

Turn == turns < MaxTurns /\ turns' = turns + 1

Admitted(u) == user[u].row /\ user[u].active
Revoked(u) == session \ {u}

\* complete_login and create_server_session.
Login(u) ==
    /\ Turn
    /\ Admitted(u)
    /\ u \notin blocked
    /\ attempts' = [attempts EXCEPT ![u] = 0]
    /\ session' = session \cup {u}
    /\ UNCHANGED <<user, blocked, request, outdated, ops>>

LoginFails(u) ==
    /\ Turn
    /\ u \notin blocked
    /\ attempts' = [attempts EXCEPT ![u] = @ + 1]
    /\ blocked' = IF attempts[u] + 1 >= MaxAttempts THEN blocked \cup {u} ELSE blocked
    /\ UNCHANGED <<user, session, request, outdated, ops>>

\* The block, and the window in which failures count, are equally long.
BlockExpires(u) ==
    /\ Turn
    /\ u \in blocked \/ attempts[u] > 0
    /\ blocked' = blocked \ {u}
    /\ attempts' = [attempts EXCEPT ![u] = 0]
    /\ UNCHANGED <<user, session, request, outdated, ops>>

\* A session that is expired, idle for too long, or of an inactive user goes at its next use.
SessionExpires(u) ==
    /\ Turn
    /\ u \in session
    /\ session' = session \ {u}
    /\ UNCHANGED <<user, attempts, blocked, request, outdated, ops>>

Authorise(r, u) ==
    /\ ops < MaxOps
    /\ request[r].pc = "idle"
    /\ u \in session
    /\ ops' = ops + 1
    /\ IF user[u].active
       THEN /\ request' = [request EXCEPT ![r] = [Idle EXCEPT !.pc = "authorised", !.by = u,
                                                     !.admin = user[u].role = "admin"]]
            /\ UNCHANGED session
       ELSE /\ session' = session \ {u}
            /\ UNCHANGED request
    /\ UNCHANGED <<user, attempts, blocked, outdated, turns>>

Logout(r) ==
    /\ Handles(r)
    /\ session' = Revoked(request[r].by)
    /\ Answer(r)
    /\ UNCHANGED <<user, rest>>

\* A page that changes nothing, or a form that is refused.
ViewPage(r) ==
    /\ Handles(r)
    /\ Answer(r)
    /\ UNCHANGED <<user, session, rest>>

-----------------------------------------------------------------------------
(* The user pages. *)

NewUser(role) == [row |-> TRUE, role |-> role, active |-> TRUE, deleted |-> FALSE]

UserCreate(r, u, role) ==
    /\ AdminHandles(r)
    /\ ~user[u].row
    /\ user' = [user EXCEPT ![u] = NewUser(role)]
    /\ Answer(r)
    /\ UNCHANGED <<session, rest>>

UserPassword(r, u) ==
    /\ AdminHandles(r)
    /\ Known(u)
    /\ session' = Revoked(u)
    /\ Answer(r)
    /\ UNCHANGED <<user, rest>>

UserUnblock(r, u) ==
    /\ AdminHandles(r)
    /\ Known(u)
    /\ blocked' = blocked \ {u}
    /\ Answer(r)
    /\ UNCHANGED <<user, session, attempts, outdated, ops, turns>>

LoginBlockDelete(r, u) ==
    /\ AdminHandles(r)
    /\ u \in blocked
    /\ blocked' = blocked \ {u}
    /\ Answer(r)
    /\ UNCHANGED <<user, session, attempts, outdated, ops, turns>>

\* user_update up to the lock: the row is read, and nobody takes his own rights.
UserUpdateRead(r, u, role, active) ==
    /\ AdminHandles(r)
    /\ Known(u)
    /\ u = request[r].by => active /\ role = "admin"
    /\ request' = [request EXCEPT ![r].pc = "update", ![r].on = u, ![r].was = user[u],
                                  ![r].role = role, ![r].active = active]
    /\ UNCHANGED <<user, session, rest>>

RemovesAdmin(q) ==
    q.was.active /\ q.was.role = "admin" /\ (~q.active \/ q.role # "admin")

\* Mutant: administrators who were deactivated are counted too.
MayUpdateInactive(q) == RemovesAdmin(q) => \E u \in Users \ {q.on} : user[u].role = "admin"

\* The administrators are locked (FOR UPDATE) and counted again.
MayUpdate(q) == RemovesAdmin(q) => ActiveAdmins \ {q.on} # {}

\* Only the columns that differ from the row that was read are written.
UserUpdateWrite(r) ==
    LET q == request[r]  u == q.on IN
    /\ q.pc = "update"
    /\ IF MayUpdate(q)
       THEN /\ user' = [user EXCEPT
                  ![u].role = IF q.role # q.was.role THEN q.role ELSE @,
                  ![u].active = IF q.active # q.was.active THEN q.active ELSE @]
            /\ session' = IF q.active THEN session ELSE Revoked(u)
            /\ outdated' = (outdated \/ user[u] # q.was)
       ELSE UNCHANGED <<user, session, outdated>>
    /\ Answer(r)
    /\ UNCHANGED <<attempts, blocked, ops, turns>>

\* user_delete looks for another administrator without a lock.
UserDeleteRead(r, u) ==
    /\ AdminHandles(r)
    /\ Known(u)
    /\ u # request[r].by
    /\ u \in ActiveAdmins => ActiveAdmins \ {u} # {}
    /\ request' = [request EXCEPT ![r].pc = "delete", ![r].on = u, ![r].was = user[u]]
    /\ UNCHANGED <<user, session, rest>>

\* The rest of user_delete; cleanup_deleted_user_communication belongs to Messaging.
UserDeleteWrite(r) ==
    LET q == request[r]  u == q.on IN
    /\ q.pc = "delete"
    /\ user' = [user EXCEPT ![u].deleted = TRUE,
                            ![u].active = IF q.was.active THEN FALSE ELSE @]
    /\ session' = Revoked(u)
    /\ attempts' = [attempts EXCEPT ![u] = 0]
    /\ blocked' = blocked \ {u}
    /\ outdated' = (outdated \/ user[u] # q.was \/ ActiveAdmins = {u})
    /\ Answer(r)
    /\ UNCHANGED <<ops, turns>>

-----------------------------------------------------------------------------
\* Requests and turns already used up at first.
AccountInit(start) ==
    /\ user = [u \in Users |-> [row |-> u \in Administrators \cup Viewers,
                                role |-> IF u \in Administrators THEN "admin" ELSE "viewer",
                                active |-> u \in Administrators \cup Viewers,
                                deleted |-> FALSE]]
    /\ session = Administrators \cup Viewers
    /\ attempts = [u \in Users |-> 0]
    /\ blocked = {}
    /\ request = [r \in Requests |-> Idle]
    /\ outdated = FALSE
    /\ ops = start.ops
    /\ turns = start.turns

\* What touches accounts only; UserDeleteWrite is composed with Messaging in Portal.
AccountNext ==
    \/ \E u \in Users : \/ Login(u) \/ LoginFails(u)
                        \/ BlockExpires(u) \/ SessionExpires(u)
    \/ \E r \in Requests, u \in Users :
         \/ Authorise(r, u)
         \/ UserPassword(r, u)
         \/ UserUnblock(r, u) \/ LoginBlockDelete(r, u)
         \/ UserDeleteRead(r, u)
         \/ \E role \in Roles : UserCreate(r, u, role)
         \/ \E role \in Roles, active \in BOOLEAN : UserUpdateRead(r, u, role, active)
    \/ \E r \in Requests : Logout(r) \/ ViewPage(r) \/ UserUpdateWrite(r)

AccountTypeOK ==
    /\ user \in [Users -> User]
    /\ session \subseteq Users
    /\ attempts \in [Users -> 0 .. MaxTurns]
    /\ blocked \subseteq Users
    /\ request \in [Requests -> Request]
    /\ outdated \in BOOLEAN
    /\ ops \in 0 .. MaxOps
    /\ turns \in 0 .. MaxTurns

\* An active administrator remains, and a deleted user is inactive and has no session,
\* whatever pages of several administrators overlap: user_update counts under a lock.
\* user_delete does not, and both write rows that they read earlier; outdated tells when
\* that mattered.
AdminRemains ==
    ~outdated =>
        /\ ActiveAdmins # {}
        /\ \A u \in Users : user[u].deleted => ~user[u].active /\ u \notin session
=============================================================================
