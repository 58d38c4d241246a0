------------------------------- MODULE Access -------------------------------
(***************************************************************************)
(* The users of the installation and who may administer them (the code     *)
(* scopes users to no company).  Sources:                                  *)
(* backend/app/modules/auth/service.py, dependencies.py and models.py.     *)
(*                                                                         *)
(* Every operation on users is a superuser's.  The dependency that says so *)
(* reads the acting user's row when the request starts, and nothing looks  *)
(* at it again; the request writes, when it commits, the columns whose     *)
(* value it changed.  Names, passwords, tokens and roles are left out; a   *)
(* name that is taken is one reason for a request to be dropped.           *)
(***************************************************************************)
EXTENDS Naturals, FiniteSets

CONSTANTS
    Users,
    FirstUser,      \* the superuser the seed creates
    AccessThreads,  \* request threads
    MaxAccessRequests

ASSUME FirstUserAssumption == FirstUser \in Users
ASSUME MaxAccessRequestsAssumption == MaxAccessRequests \in Nat

VARIABLES
    user,           \* the committed rows
    request,        \* the open request of every thread
    accessRequests, \* requests opened so far
    steppedDown,    \* history: a user took away their own powers
    crossed         \* history: two requests that each take powers away overlapped

access == <<user, request, accessRequests, steppedDown, crossed>>

Columns == {"exists", "deleted", "active", "superuser"}
UserRow == [Columns -> BOOLEAN]
NoAccessRequest == [op |-> "none"]

\* get_current_user and require_superuser.
IsAdministrator(row) == row.exists /\ ~row.deleted /\ row.active /\ row.superuser

\* What an operation makes of the row it read; update_user sets what the payload holds.
Edited(op, row, active, superuser) ==
    CASE op = "create" -> [row EXCEPT !.exists = TRUE, !.deleted = FALSE,
                                       !.active = active, !.superuser = superuser]
      [] op = "update" -> [row EXCEPT !.active = active, !.superuser = superuser]
      [] op = "delete" -> [row EXCEPT !.deleted = TRUE]
      [] op = "restore" -> [row EXCEPT !.deleted = FALSE]

\* The row with the columns the request changed.
Saved(r) ==
    [c \in Columns |-> IF r.new[c] = r.seen[c] THEN user[r.target][c] ELSE r.new[c]]

\* The request takes from its user something an administrator needs.
TakesAway(r) ==
    \/ r.new.deleted /\ ~r.seen.deleted
    \/ r.seen.active /\ ~r.new.active
    \/ r.seen.superuser /\ ~r.new.superuser

-----------------------------------------------------------------------------
AccessInit ==
    /\ user = [u \in Users |-> [c \in Columns |-> u = FirstUser /\ c # "deleted"]]
    /\ request = [t \in AccessThreads |-> NoAccessRequest]
    /\ accessRequests = 0
    /\ steppedDown = FALSE
    /\ crossed = FALSE

\* Mutant of MayStart: deleting oneself is not refused.
MayStartAnyDeletion(op, actor, u) ==
    /\ IsAdministrator(user[actor])
    /\ (op = "create") <=> ~user[u].exists

\* Who may start what.  A user may not delete the own account, but may update it.
MayStart(op, actor, u) ==
    /\ IsAdministrator(user[actor])
    /\ (op = "create") <=> ~user[u].exists
    /\ op = "delete" => u # actor

StartRequest(t, op, actor, u, active, superuser) ==
    /\ request[t] = NoAccessRequest
    /\ accessRequests < MaxAccessRequests
    /\ accessRequests' = accessRequests + 1
    /\ MayStart(op, actor, u)
    /\ LET new == Edited(op, user[u], active, superuser)
       IN  /\ new # user[u]         \* else nothing is written
           /\ request' = [request EXCEPT ![t] = [op |-> op, actor |-> actor, target |-> u,
                                                 seen |-> user[u], new |-> new]]
    /\ UNCHANGED <<user, steppedDown, crossed>>

\* The flush and the commit; of two creations with one name the second is refused.
CommitRequest(t) ==
    LET r == request[t]
        others == {request[s] : s \in AccessThreads \ {t}} \ {NoAccessRequest}
    IN  /\ r # NoAccessRequest
        /\ r.op = "create" => ~user[r.target].exists
        /\ user' = [user EXCEPT ![r.target] = Saved(r)]
        /\ steppedDown' = (steppedDown \/ (r.op = "update" /\ r.actor = r.target /\ TakesAway(r)))
        /\ crossed' = (crossed \/ (TakesAway(r) /\ \E o \in others : TakesAway(o)))
        /\ request' = [request EXCEPT ![t] = NoAccessRequest]
        /\ UNCHANGED accessRequests

\* A refusal of the database, or a lost connection.
DropAccessRequest(t) ==
    /\ request[t] # NoAccessRequest
    /\ request' = [request EXCEPT ![t] = NoAccessRequest]
    /\ UNCHANGED <<user, accessRequests, steppedDown, crossed>>

AccessNext ==
    \E t \in AccessThreads :
        \/ \E op \in {"create", "update"}, a, u \in Users, active, superuser \in BOOLEAN :
              StartRequest(t, op, a, u, active, superuser)
        \/ \E op \in {"delete", "restore"}, a, u \in Users : StartRequest(t, op, a, u, FALSE, FALSE)
        \/ CommitRequest(t)
        \/ DropAccessRequest(t)

AccessSpec == AccessInit /\ [][AccessNext]_access

-----------------------------------------------------------------------------
(* Properties                                                              *)

\* Somebody is left to administer the users, whatever is deleted, deactivated, demoted or
\* restored, in whatever order: unless an administrator gave up the own powers, or two
\* requests that each take powers away were open together (each acting user was an
\* administrator when the request started, and need not be when it commits).
AdministratorRemains ==
    (\E u \in Users : IsAdministrator(user[u])) \/ steppedDown \/ crossed
=============================================================================
