---------------------------- MODULE Organization ----------------------------
(***************************************************************************)
(* Companies, their branches and the branches' warehouses: soft deletion   *)
(* that takes what is below along, and restoration that brings it back.    *)
(* Source: backend/app/modules/organization/service.py and models.py.      *)
(*                                                                         *)
(* Requests overlap: one reads the rows it works on, and writes when it    *)
(* commits, after waiting for whoever wrote a row of it first.  Only the   *)
(* columns whose value differs from the one read are written.  A unit's    *)
(* other columns are left out.                                             *)
(***************************************************************************)
EXTENDS Naturals, FiniteSets

CONSTANTS
    Units,          \* companies, branches and warehouses
    Parent,         \* a branch's company and a warehouse's branch; nothing moves a unit
    Established,    \* the units that exist, live, at the start
    Codes,
    NoUnit,         \* a company's parent
    Editors,        \* request threads
    MaxOrgRequests  \* bound: requests opened

ASSUME ParentAssumption ==
    /\ NoUnit \notin Units
    /\ Parent \in [Units -> Units \cup {NoUnit}]
    /\ \A u \in Units : LET p == Parent[u] IN       \* three levels
          p = NoUnit \/ Parent[p] = NoUnit \/ Parent[Parent[p]] = NoUnit
ASSUME EstablishedAssumption ==
    /\ Established \subseteq Units
    /\ \A u \in Established : Parent[u] \in Established \cup {NoUnit}
    /\ \A u, v \in Established : Parent[u] = Parent[v] => u = v   \* they have one code
ASSUME MaxOrgRequestsAssumption == MaxOrgRequests \in Nat

VARIABLES
    unit,           \* the committed rows
    editing,        \* the open request of every editor
    cause,          \* history: the unit whose deletion took a unit away
    disturbed,      \* history: the units whose row was changed under an open reader
    orgRequests     \* requests opened so far

organization == <<unit, editing, cause, disturbed, orgRequests>>

Row == [state: {"absent", "live", "deleted"}, cascade: BOOLEAN, code: Codes]
NoRequest == [op |-> "none"]

Children(above) == {u \in Units : Parent[u] \in above}

\* soft_delete_*: the unit and what is live below it; the walk does not pass a unit that
\* was deleted before.
Taken(rows, u) ==
    LET live(s) == {v \in s : rows[v].state = "live"}
        below == live(Children({u}))
    IN  {u} \cup below \cup live(Children(below))

\* Mutant of BroughtBack: everything deleted below the unit returns.
BroughtBackAll(rows, u) ==
    LET gone(s) == {v \in s : rows[v].state = "deleted"}
        below == gone(Children({u}))
    IN  {u} \cup below \cup gone(Children(below))

\* restore_*: the unit and what a deletion above took along.
BroughtBack(rows, u) ==
    LET gone(s) == {v \in s : rows[v].state = "deleted" /\ rows[v].cascade}
        below == gone(Children({u}))
    IN  {u} \cup below \cup gone(Children(below))

\* The rows as the request leaves them in its session, out of the rows it read.
After(request) ==
    LET rows == request.seen
        u == request.unit
        deleted == Taken(rows, u)
        restored == BroughtBack(rows, u)
    IN  CASE request.op = "create" ->
               [rows EXCEPT ![u] = [state |-> "live", cascade |-> FALSE, code |-> request.code]]
          [] request.op = "update" -> [rows EXCEPT ![u].code = request.code]
          [] request.op = "delete" ->
               [v \in Units |-> IF v \in deleted
                                THEN [rows[v] EXCEPT !.state = "deleted", !.cascade = v # u]
                                ELSE rows[v]]
          [] request.op = "restore" ->
               [v \in Units |-> IF v \in restored
                                THEN [rows[v] EXCEPT !.state = "live", !.cascade = FALSE]
                                ELSE rows[v]]

\* The table once the session's UPDATEs are in it: column by column, what it changed.
Flushed(request) ==
    LET new == After(request)
        column(u, c) == IF new[u][c] = request.seen[u][c] THEN unit[u][c] ELSE new[u][c]
    IN  [u \in Units |-> [c \in {"state", "cascade", "code"} |-> column(u, c)]]

\* The partial unique indexes: live units of one parent have different codes.
CodesUnique(rows) ==
    \A u, v \in {w \in Units : rows[w].state = "live"} :
        u # v /\ Parent[u] = Parent[v] => rows[u].code # rows[v].code

-----------------------------------------------------------------------------
OrganizationInit ==
    /\ \E code \in Codes :
          unit = [u \in Units |-> [state |-> IF u \in Established THEN "live" ELSE "absent",
                                  cascade |-> FALSE, code |-> code]]
    /\ editing = [e \in Editors |-> NoRequest]
    /\ cause = [u \in Units |-> NoUnit]
    /\ disturbed = {}
    /\ orgRequests = 0

\* What the handlers ask for before they write: create_* that the parent's row exists,
\* deleted or not, and update_* that the unit's does.  To delete a deleted unit, or to
\* restore a live one, returns at once and changes nothing.
Admits(op, u, c) ==
    CASE op = "create" -> /\ unit[u].state = "absent"
                          /\ Parent[u] # NoUnit => unit[Parent[u]].state # "absent"
      [] op = "update" -> unit[u].state # "absent" /\ unit[u].code # c
      [] op = "delete" -> unit[u].state = "live"
      [] op = "restore" -> unit[u].state = "deleted"

\* The handler up to its writes.
OpenRequest(e, op, u, c) ==
    /\ editing[e] = NoRequest
    /\ orgRequests < MaxOrgRequests
    /\ orgRequests' = orgRequests + 1
    /\ Admits(op, u, c)
    /\ editing' = [editing EXCEPT ![e] = [op |-> op, unit |-> u, code |-> c, seen |-> unit]]
    /\ UNCHANGED <<unit, cause, disturbed>>

\* The flush and the commit.  A code that is taken by then fails the whole request.
FinishRequest(e) ==
    LET request == editing[e]
        rows == Flushed(request)
        changed == {u \in Units : rows[u] # unit[u]}
        readers == {d \in Editors \ {e} : editing[d] # NoRequest}
    IN  /\ request # NoRequest
        /\ request.op = "create" => unit[request.unit].state = "absent"
        /\ CodesUnique(rows)
        /\ unit' = rows
        /\ cause' = [u \in Units |->
                        IF rows[u].state = unit[u].state THEN cause[u]
                        ELSE IF rows[u].state = "deleted" THEN request.unit ELSE NoUnit]
        /\ disturbed' = IF readers = {} THEN disturbed ELSE disturbed \cup changed
        /\ editing' = [editing EXCEPT ![e] = NoRequest]
        /\ UNCHANGED orgRequests

\* A duplicate code, a deadlock, a lost connection: the request is rolled back.
DropRequest(e) ==
    /\ editing[e] # NoRequest
    /\ editing' = [editing EXCEPT ![e] = NoRequest]
    /\ UNCHANGED <<unit, cause, disturbed, orgRequests>>

OrganizationNext ==
    \E e \in Editors :
        \/ \E op \in {"create", "update"}, u \in Units, c \in Codes : OpenRequest(e, op, u, c)
        \/ \E op \in {"delete", "restore"}, u \in Units : OpenRequest(e, op, u, unit[u].code)
        \/ FinishRequest(e)
        \/ DropRequest(e)

OrganizationSpec == OrganizationInit /\ [][OrganizationNext]_organization

-----------------------------------------------------------------------------
(* Properties                                                              *)

\* models.py's promise of deleted_by_cascade: restoring a unit brings back, with it, what
\* went in the same deletion and is still gone, and nothing that was deleted by itself,
\* before or since, however deletions and restorations on the three levels alternate.  Only
\* a unit whose row was changed under an open request is exempt.
RestoresWhatItTook ==
    [][\A e \in Editors :
          /\ editing[e] # NoRequest /\ editing'[e] = NoRequest
          /\ editing[e].op = "restore" /\ unit' # unit
          =>
          LET r == editing[e].unit
              below == Children({r}) \cup Children(Children({r}))
          IN  r \notin disturbed' =>
              \A u \in Units \ disturbed' :
                  (unit[u].state = "deleted" /\ unit'[u].state = "live")
                  <=> \/ u = r
                      \/ u \in below /\ unit[u].state = "deleted" /\ cause[u] = cause[r]]_organization
=============================================================================
