--------------------------- MODULE StockSessions ---------------------------
(***************************************************************************)
(* Inventory requests that overlap in time.  Each endpoint is a plain      *)
(* function, run by a thread of the server's pool with a database session  *)
(* of its own; PostgreSQL runs the sessions at READ COMMITTED.  Source:    *)
(* backend/app/core/database.py and modules/inventory/service.py.          *)
(*                                                                         *)
(* A session reads a balance row once: the ORM's identity map then answers *)
(* every later query for that row from memory.  It checks and computes on  *)
(* what it read, and its UPDATE writes the computed value, not a           *)
(* difference, after waiting for the row's lock.  Only the columns whose   *)
(* value changed are written.  The INSERT of a slot's first row waits for  *)
(* another session's uncommitted row with the same key, and fails when     *)
(* that row is committed.  Everything else about a request (costs, ledger  *)
(* rows, links) is in StockLedger: here a ledger is, slot by slot, the sum *)
(* of its committed rows.                                                  *)
(***************************************************************************)
EXTENDS Integers, Sequences, FiniteSets

CONSTANTS
    Clients,        \* request threads: each serves one request at a time
    Warehouses, Items,
    Quantities,     \* payload quantities (schemas: gt=0)
    OpeningStock,   \* quantities a slot may hold before the run; 0 is "never moved"
    MaxRequests,    \* bound: requests opened
    None,           \* no balance row
    Unread,         \* the session's identity map has no object for the slot
    Unwritten,      \* the session has not written the slot
    Same            \* the session's UPDATE leaves the quantity column out

ASSUME QuantitiesAssumption == Quantities \subseteq Nat \ {0}
ASSUME OpeningStockAssumption == OpeningStock \subseteq Nat
ASSUME MaxRequestsAssumption == MaxRequests \in Nat
ASSUME MarkersAssumption == /\ {None, Unread, Unwritten, Same} \cap Int = {}
                            /\ Unread # None /\ Unwritten # Same

Slots == Warehouses \X Items

VARIABLES
    row,            \* committed StockBalance.quantity_on_hand of every slot, or None
    ledger,         \* what the committed StockMovement rows of every slot add up to
    posted,         \* legs of the committed movements a request may reverse
    allowNegative,  \* committed InventorySettings.allow_negative_stock
    session,        \* the database session of every client
    opened,         \* how many requests were opened
    raced           \* history: the slots, and whether the policy, changed under an open reader

vars == <<row, ledger, posted, allowNegative, session, opened, raced>>

-----------------------------------------------------------------------------
(* Requests                                                                *)

Leg(s, d) == [slot |-> s, qty |-> d]

\* How an operation reads: peek is the query before the first ledger row, check the test
\* on what it returned, approved the payload's override.  transfer_stock honours the
\* override in its own test but does not pass it on to _update_balance.
Request(op, legs, peek, check, approved) ==
    [op |-> op, legs |-> legs, peek |-> peek, check |-> check, approved |-> approved]

Receipts == {Request("receive", <<Leg(s, q)>>, FALSE, FALSE, FALSE) :
                s \in Slots, q \in Quantities}
Issues == {Request("issue", <<Leg(s, -q)>>, TRUE, TRUE, a) :
                s \in Slots, q \in Quantities, a \in BOOLEAN}
Transfers == {Request("transfer", <<Leg(<<w, i>>, -q), Leg(<<v, i>>, q)>>, TRUE, TRUE, a) :
                w \in Warehouses, v \in Warehouses, i \in Items, q \in Quantities,
                a \in BOOLEAN}
Adjustments == UNION {{Request("adjust", <<Leg(s, d)>>, TRUE, FALSE, FALSE) :
                          d \in {q, -q}} : s \in Slots, q \in Quantities}
Recomputations == {Request("recompute", <<Leg(s, 0)>>, TRUE, FALSE, FALSE) : s \in Slots}

\* reverse_movement: the opposite of every leg, the movement asked for first.
ReversalOf(legs) ==
    Request("reverse", [k \in 1..Len(legs) |-> Leg(legs[k].slot, -legs[k].qty)],
            FALSE, FALSE, FALSE)

Acceptable(r) == r.op = "transfer" => r.legs[1].slot # r.legs[2].slot

RequestSet == {r \in Receipts \cup Issues \cup Transfers \cup Adjustments \cup Recomputations :
                   Acceptable(r)}
              \cup {ReversalOf(legs) : legs \in posted}

-----------------------------------------------------------------------------
(* Sessions                                                                *)

Idle == [pc |-> "idle"]

\* A session at its start: the settings row is the first thing every operation reads.
Started(r) ==
    [pc |-> IF r.peek THEN "peek" ELSE "read",
     req |-> r, leg |-> 1, policy |-> allowNegative, sum |-> 0,
     seen |-> [s \in Slots |-> Unread],
     new |-> Unwritten,
     wrote |-> [s \in Slots |-> Unwritten]]

Active(c) == session[c].pc # "idle"
Current(c) == session[c].req.legs[session[c].leg]

\* Row locks and uncommitted keys: c holds slot s once it wrote it.
Holds(c, s) == Active(c) /\ session[c].wrote[s] # Unwritten

\* What a query by c returns for slot s: an object of the identity map as it stands in
\* memory, else the committed row.
Query(c, s) ==
    IF session[c].seen[s] \in Int THEN session[c].seen[s] ELSE row[s]

\* The ledger with the request's rows in it; no request has two legs in one slot.
Committed(legs) ==
    [s \in Slots |-> IF \E k \in 1..Len(legs) : legs[k].slot = s
                     THEN ledger[s] + legs[CHOOSE k \in 1..Len(legs) : legs[k].slot = s].qty
                     ELSE ledger[s]]

\* Mutant of Rollback: the session is never rolled back, so its locks are kept.
RollbackForgotten(c) ==
    /\ session' = [session EXCEPT ![c].pc = "failed"]
    /\ UNCHANGED <<row, ledger, posted, allowNegative, opened, raced>>

\* Mutant of Rollback: the ledger rows of a failed request are committed.
RollbackKeepsRows(c) ==
    /\ session' = [session EXCEPT ![c] = Idle]
    /\ ledger' = Committed(session[c].req.legs)
    /\ UNCHANGED <<row, posted, allowNegative, opened, raced>>

\* get_db's except branch: nothing the session wrote is kept, and its locks are gone.
Rollback(c) ==
    /\ session' = [session EXCEPT ![c] = Idle]
    /\ UNCHANGED <<row, ledger, posted, allowNegative, opened, raced>>

Step(c, next) ==
    /\ session' = [session EXCEPT ![c] = next]
    /\ UNCHANGED <<row, ledger, posted, allowNegative, opened, raced>>

Open(c) ==
    /\ session[c].pc = "idle"
    /\ opened < MaxRequests
    /\ opened' = opened + 1
    /\ \E r \in RequestSet : session' = [session EXCEPT ![c] = Started(r)]
    /\ UNCHANGED <<row, ledger, posted, allowNegative, raced>>

\* The query an operation makes before it writes its ledger rows.  A row that is found
\* stays in the identity map; that there is none is not remembered.  recompute_balance
\* adds up the ledger first and queries the row afterwards.
Peek(c) ==
    LET me == session[c]
        s == Current(c).slot
        onHand == IF row[s] = None THEN 0 ELSE row[s]
    IN  /\ me.pc = "peek"
        /\ IF me.req.op = "recompute"
           THEN Step(c, [me EXCEPT !.pc = "read", !.sum = ledger[s]])
           ELSE IF me.req.check /\ ~(me.policy \/ me.req.approved)
                   /\ onHand + Current(c).qty < 0
           THEN Rollback(c)
           ELSE Step(c, [me EXCEPT !.pc = "read",
                                   !.seen[s] = IF row[s] = None THEN Unread ELSE row[s]])

\* Mutant of Refused: the override is honoured for a slot that has a row as well.
RefusedUnlessApproved(c, found, new) ==
    /\ new < 0
    /\ ~session[c].policy
    /\ ~(session[c].req.op = "issue" /\ session[c].req.approved)

\* _update_balance's test on the quantity it read.
Refused(c, found, new) ==
    /\ new < 0
    /\ ~session[c].policy
    /\ ~(found = None /\ session[c].req.op = "issue" /\ session[c].req.approved)

\* Mutant of Read: the guard of _update_balance is left to the caller's own test.
ReadUnguarded(c) ==
    LET me == session[c]
        s == Current(c).slot
        found == Query(c, s)
        new == IF me.req.op = "recompute" THEN me.sum
               ELSE Current(c).qty + (IF found = None THEN 0 ELSE found)
    IN  /\ me.pc = "read"
        /\ Step(c, [me EXCEPT !.pc = "write", !.seen[s] = found, !.new = new])

\* _update_balance up to its write (and recompute_balance up to its own, which has no test).
Read(c) ==
    LET me == session[c]
        s == Current(c).slot
        found == Query(c, s)
        new == IF me.req.op = "recompute" THEN me.sum
               ELSE Current(c).qty + (IF found = None THEN 0 ELSE found)
    IN  /\ me.pc = "read"
        /\ IF me.req.op # "recompute" /\ Refused(c, found, new)
           THEN Rollback(c)
           ELSE Step(c, [me EXCEPT !.pc = "write", !.seen[s] = found, !.new = new])

\* The session after it wrote its current leg.
Written(me, s) ==
    [me EXCEPT !.pc = IF me.leg = Len(me.req.legs) THEN "commit" ELSE "read",
               !.leg = IF me.leg = Len(me.req.legs) THEN @ ELSE @ + 1,
               !.wrote[s] = IF me.seen[s] = me.new THEN Same ELSE me.new,
               !.seen[s] = me.new]

\* Mutant of Write: an insert that meets a committed row overwrites it.
WriteUpsert(c) ==
    LET me == session[c]
        s == Current(c).slot
    IN  /\ me.pc = "write"
        /\ \A d \in Clients \ {c} : ~Holds(d, s)
        /\ Step(c, Written(me, s))

\* The flush: wait for the row's lock, or for the key, then write.  An INSERT whose key
\* was committed meanwhile violates the unique index, and the request ends with a 409.
Write(c) ==
    LET me == session[c]
        s == Current(c).slot
    IN  /\ me.pc = "write"
        /\ \A d \in Clients \ {c} : ~Holds(d, s)
        /\ IF me.seen[s] = None /\ row[s] # None
           THEN Rollback(c)
           ELSE Step(c, Written(me, s))

\* The slots another open session has read and not finished with.
InUse(c) == {s \in Slots : \E d \in Clients \ {c} :
                Active(d) /\ \/ session[d].seen[s] \in Int
                             \/ session[d].req.op = "recompute" /\ session[d].pc # "peek"
                                /\ session[d].req.legs[1].slot = s}

\* The movements of legs that can be reversed, by the leg reverse_movement is asked for.
Reversible(req) ==
    IF req.op \in {"reverse", "recompute"} THEN {}
    ELSE {req.legs} \cup {<<req.legs[2], req.legs[1]>> : k \in 2..Len(req.legs)}

\* get_db's commit.
Commit(c) ==
    LET me == session[c]
        changed == {s \in Slots : me.wrote[s] \in Int}
    IN  /\ me.pc = "commit"
        /\ row' = [s \in Slots |-> IF s \in changed THEN me.wrote[s] ELSE row[s]]
        /\ ledger' = Committed(me.req.legs)
        /\ posted' = posted \cup Reversible(me.req)
        /\ raced' = [raced EXCEPT !.slots = @ \cup
              (InUse(c) \cap {me.req.legs[k].slot : k \in 1..Len(me.req.legs)})]
        /\ session' = [session EXCEPT ![c] = Idle]
        /\ UNCHANGED <<allowNegative, opened>>

\* c waits for d.
WaitsFor(c, d) ==
    /\ c # d
    /\ session[c].pc = "write"
    /\ Holds(d, Current(c).slot)

\* c is one of the sessions of a ring that wait for each other.
Deadlocked(c) ==
    \E ring \in SUBSET Clients :
        /\ c \in ring
        /\ \A d \in ring : \E e \in ring : WaitsFor(d, e)
        /\ \A d \in ring : \E e \in ring : WaitsFor(e, d)

\* PostgreSQL aborts one session of the ring, whichever notices first.
Abort(c) == Deadlocked(c) /\ Rollback(c)

\* The connection is lost or the server restarts while the request is open.
Disconnect(c) == Active(c) /\ Rollback(c)

\* PATCH /inventory/settings, committed at once.
UpdateSettings ==
    /\ opened < MaxRequests
    /\ opened' = opened + 1
    /\ allowNegative' = ~allowNegative
    /\ raced' = [raced EXCEPT !.policy = @ \/ \E c \in Clients : Active(c)]
    /\ UNCHANGED <<row, ledger, posted, session>>

-----------------------------------------------------------------------------
\* The opening stock of a slot, when there is any, is one committed receipt.
Init ==
    /\ \E stock \in [Slots -> OpeningStock] :
          /\ ledger = stock
          /\ row = [s \in Slots |-> IF stock[s] = 0 THEN None ELSE stock[s]]
          /\ posted = {<<Leg(s, stock[s])>> : s \in {t \in Slots : stock[t] # 0}}
    /\ allowNegative \in BOOLEAN
    /\ session = [c \in Clients |-> Idle]
    /\ opened = 0
    /\ raced = [slots |-> {}, policy |-> FALSE]

\* What the thread of an open request does on its own.
Proceed(c) == Peek(c) \/ Read(c) \/ Commit(c)

Next ==
    \/ \E c \in Clients : Open(c) \/ Proceed(c) \/ Write(c) \/ Abort(c) \/ Disconnect(c)
    \/ UpdateSettings

\* Threads run on; a lock is granted to its waiters in turn; a deadlock is noticed.
Fairness == \A c \in Clients : WF_vars(Proceed(c)) /\ SF_vars(Write(c)) /\ WF_vars(Abort(c))

Spec == Init /\ [][Next]_vars /\ Fairness

-----------------------------------------------------------------------------
(* Properties                                                              *)

Quantity(s) == IF row[s] = None THEN 0 ELSE row[s]

\* The balance is the cache of the ledger its docstring promises.
CacheIsLedger == \A s \in Slots : Quantity(s) = ledger[s]

\* The cache of a slot drifts from its ledger only if a request changed the slot while
\* another, which had read it, was open: refusals half-way, unique-key conflicts,
\* deadlock victims, lost connections and overlaps elsewhere never cause a drift.
DriftNeedsOverlap == \A s \in Slots \ raced.slots : Quantity(s) = ledger[s]

\* The first row of a slot is exact however many requests race for it: the loser's
\* movement goes with its row.
FirstRowExact ==
    [][\A s \in Slots : row[s] = None /\ row'[s] # None => row'[s] = ledger'[s]]_vars

\* A cached quantity goes below zero, or further below, only by a request that ran under
\* a policy allowing it, or whose override met a slot without a row, however requests interleave.
ShortageIsAllowed ==
    [][\A s \in Slots : row'[s] # row[s] /\ row'[s] # None /\ row'[s] < 0 =>
          \E c \in Clients :
              /\ session[c].pc = "commit" /\ session'[c].pc = "idle"
              /\ \/ session[c].policy
                 \/ session[c].req.op = "recompute"
                 \/ session[c].req.approved /\ row[s] = None]_vars

\* While no two requests have overlapped on a slot or on the policy, the requests,
\* seen from the ledger, are steps of StockBook.
Touched == {s \in Slots : \E legs \in posted : legs[1].slot = s \/ legs[Len(legs)].slot = s}
Book == INSTANCE StockBook WITH book <- ledger, touched <- Touched
AloneIsBook == [][raced' = [slots |-> {}, policy |-> FALSE] => Book!Next \/ UNCHANGED Book!vars]_vars

\* Every request is answered, whatever it waits for: opposite transfers that lock each
\* other's rows end with one of them aborted.
RequestsEnd == \A c \in Clients : Active(c) ~> ~Active(c)
=============================================================================
