-------------------------- MODULE PostingSessions --------------------------
(***************************************************************************)
(* Requests on the journal and on posted documents that overlap in time.   *)
(* Source: backend/app/modules/accounting/service.py and integration.py,   *)
(* modules/sales/service.py, core/database.py.                             *)
(*                                                                         *)
(* As in StockSessions every request has a session at READ COMMITTED, sees *)
(* what is committed when it asks, and keeps what it read in memory.  A    *)
(* session takes the lock of the stock row it issues from, then the lock   *)
(* of the settings row that holds a number sequence, and keeps both to the *)
(* end.  SELECT FOR UPDATE waits for the lock but does not refresh a       *)
(* settings object the session loaded before: the number is drawn from     *)
(* what was loaded, and only the unique index stops one given out already. *)
(*                                                                         *)
(* One company with auto-posting on, one customer, one accounting period;  *)
(* the documents are the customer's invoices of one unit of one product.   *)
(* What an entry's lines say is in Journal, and that an exception of the   *)
(* rules needs an approval is in Approvals: here nobody asks for one, and  *)
(* cancelling a posted invoice is approved.                                *)
(***************************************************************************)
EXTENDS Integers, Sequences, FiniteSets

CONSTANTS
    Clients,        \* request threads
    Documents,      \* sales invoices: drafts at the start
    CreditLimit,    \* how many posted invoices the customer's limit allows
    MaxRequests,    \* bound: requests opened
    NoDocument

ASSUME NoDocumentAssumption == NoDocument \notin Documents
ASSUME PostingBoundsAssumption == CreditLimit \in Nat /\ MaxRequests \in Nat

VARIABLES
    entries,        \* committed JournalEntry rows
    documents,      \* committed status of every document, and its issues less their reversals
    sequences,      \* last number drawn of every sequence, and the numbers of its rows
    period,         \* status of the accounting period
    session,        \* the database session of every client
    requests,       \* requests opened so far
    raced           \* history: what changed under an open request that had read it

vars == <<entries, documents, sequences, period, session, requests, raced>>

\* Entries are numbered from one settings row, invoices and credit notes from another.
Kinds == {"entry", "invoice", "note"}
RowOf(kind) == IF kind = "entry" THEN "accounting" ELSE "sales"

\* What a session may have read, as raced remembers it.
Doc(d) == <<"document", d>>
Ent(n) == <<"entry", n>>
Customer == <<"customer", 0>>

EntriesFor(d) == {n \in 1..Len(entries) : entries[n].key = d}
Standing(n) == {m \in 1..Len(entries) : entries[m].reverses = n /\ entries[m].status # "REVERSED"}

-----------------------------------------------------------------------------
(* Sessions                                                                *)

Idle == [pc |-> "idle"]
Active(c) == session[c].pc # "idle"

\* The steps of every operation in order: the first query is made by Open.
Steps(op) ==
    CASE op = "post"    -> <<"stock", "settings", "check", "number", "commit">>
      [] op = "cancel"  -> <<"stock", "settings", "check", "number", "commit">>
      [] op = "drop"    -> <<"commit">>
      [] op = "reverse" -> <<"settings", "number", "commit">>
      [] op = "confirm" -> <<"check", "commit">>
      [] op \in {"entry", "invoice"} -> <<"settings", "number", "commit">>
      [] op = "note"    -> <<"number", "commit">>

\* The sequence an operation draws its number from.
KindOf(op) == IF op \in {"invoice", "note"} THEN op ELSE "entry"

\* number and loaded are 0 until drawn and loaded; entry is the entry to post or to undo.
Started(op, d, n, reads) ==
    [pc |-> Steps(op)[1], op |-> op, document |-> d, entry |-> n, loaded |-> 0,
     number |-> 0, reads |-> reads, late |-> FALSE]

HoldsStock(c) ==
    /\ Active(c)
    /\ session[c].op \in {"post", "cancel"}
    /\ session[c].pc # "stock"

HoldsRow(c, row) == Active(c) /\ session[c].number # 0 /\ RowOf(KindOf(session[c].op)) = row

\* Mutant of Rollback: the session of a failed request is not closed.
RollbackForgotten(c) ==
    /\ session' = [session EXCEPT ![c].pc = "failed"]
    /\ UNCHANGED <<entries, documents, sequences, period, requests, raced>>

\* get_db's except branch, or the end of a request that lost its connection.
Rollback(c) ==
    /\ session' = [session EXCEPT ![c] = Idle]
    /\ UNCHANGED <<entries, documents, sequences, period, requests, raced>>

Step(c, next) ==
    /\ session' = [session EXCEPT ![c] = next]
    /\ UNCHANGED <<entries, documents, sequences, period, requests, raced>>

Begin(c, op, d, n, reads) ==
    /\ session[c].pc = "idle"
    /\ requests < MaxRequests
    /\ requests' = requests + 1
    /\ session' = [session EXCEPT ![c] = Started(op, d, n, reads)]
    /\ UNCHANGED <<entries, documents, sequences, period, raced>>

Posted == {d \in Documents : documents[d].status = "POSTED"}

\* Mutant of OpenPost: the invoice itself is not counted.
OpenPostUncounted(c, d) ==
    /\ documents[d].status = "DRAFT"
    /\ Cardinality(Posted) <= CreditLimit
    /\ Begin(c, "post", d, 0, {Doc(d), Customer})

\* post_invoice up to its execution pass: status, then credit limit, nothing locked.
OpenPost(c, d) ==
    /\ documents[d].status = "DRAFT"
    /\ Cardinality(Posted) < CreditLimit
    /\ Begin(c, "post", d, 0, {Doc(d), Customer})

\* cancel_invoice: of a posted invoice everything is taken back, of a draft there is nothing.
OpenCancel(c, d) ==
    \/ documents[d].status = "POSTED" /\ Begin(c, "cancel", d, 0, {Doc(d)})
    \/ documents[d].status = "DRAFT" /\ Begin(c, "drop", d, 0, {Doc(d)})

\* Mutant of OpenReverse: of a reversal it is not tested whether it was undone itself.
OpenReverseAgain(c, n) ==
    /\ \/ entries[n].status = "POSTED"
       \/ entries[n].status = "REVERSED" /\ entries[n].reverses # 0
    /\ Begin(c, "reverse", NoDocument, n, {Ent(n)})

\* reverse_journal_entry's first queries: POSTED, and no reversal of it stands.
OpenReverse(c, n) ==
    /\ entries[n].status = "POSTED"
    /\ Standing(n) = {}
    /\ Begin(c, "reverse", NoDocument, n, {Ent(n)})

\* post_journal_entry of a draft.
OpenConfirm(c, n) ==
    /\ entries[n].status = "DRAFT"
    /\ Begin(c, "confirm", NoDocument, n, {Ent(n)})

\* create_journal_entry, create_invoice, create_credit_note.
OpenCreate(c, kind) == Begin(c, kind, NoDocument, 0, {})

-----------------------------------------------------------------------------
(* Steps of an open request                                                *)

Goto(me, pc) == [me EXCEPT !.pc = pc]

\* The flush of issue_stock or reverse_movement waits for the lock of the balance row.
Stock(c) ==
    /\ session[c].pc = "stock"
    /\ \A b \in Clients \ {c} : ~HoldsStock(b)
    /\ Step(c, Goto(session[c], "settings"))

\* get_or_create_settings: the row is loaded, and stays in the session's identity map.
Settings(c) ==
    LET me == session[c]
    IN  /\ me.pc = "settings"
        /\ Step(c, [Goto(me, IF me.op \in {"post", "cancel"} THEN "check" ELSE "number")
                    EXCEPT !.loaded = sequences[KindOf(me.op)].last])

\* Mutant of Check: an entry is posted whatever the status of its period.
CheckAnyPeriod(c) ==
    LET me == session[c]
        key == EntriesFor(me.document)
        undone == {n \in key : entries[n].status = "POSTED"}
    IN  /\ me.pc = "check"
        /\ CASE me.op = "post" /\ key # {} -> Step(c, Goto(me, "commit"))
             [] me.op = "post" /\ key = {} -> Step(c, Goto(me, "number"))
             [] me.op = "confirm" -> Step(c, Goto(me, "commit"))
             [] me.op = "cancel" /\ undone = {} -> Step(c, Goto(me, "commit"))
             [] me.op = "cancel" /\ undone # {} ->
                    \E n \in undone : Step(c, [Goto(me, "number") EXCEPT !.entry = n,
                                                  !.reads = @ \cup {Ent(n)}])

\* The queries between settings and number.  publish: an entry with the key ends the
\* matter without a word, otherwise the period must be open.  reverse_document: there is
\* nothing to undo unless the key's entry is POSTED.  _validate_and_post: the period.
Check(c) ==
    LET me == session[c]
        key == EntriesFor(me.document)
        undone == {n \in key : entries[n].status = "POSTED"}
    IN  /\ me.pc = "check"
        /\ CASE me.op = "post" /\ key # {} -> Step(c, Goto(me, "commit"))
             [] me.op = "post" /\ key = {} ->
                    IF period = "CLOSED" THEN Rollback(c) ELSE Step(c, Goto(me, "number"))
             [] me.op = "confirm" ->
                    IF period = "CLOSED" THEN Rollback(c) ELSE Step(c, Goto(me, "commit"))
             [] me.op = "cancel" /\ undone = {} -> Step(c, Goto(me, "commit"))
             [] me.op = "cancel" /\ undone # {} ->
                    \E n \in undone :
                        IF Standing(n) # {} THEN Rollback(c)
                        ELSE Step(c, [Goto(me, "number") EXCEPT !.entry = n,
                                                                !.reads = @ \cup {Ent(n)}])

\* A session whose operation loads no settings beforehand sees the row as it is locked.
Drawn(me) ==
    1 + IF me.op = "note" THEN sequences["note"].last ELSE me.loaded

\* Mutant of Number: nothing is unique but the lock.
NumberUnchecked(c) ==
    LET me == session[c]
        kind == KindOf(me.op)
    IN  /\ me.pc = "number"
        /\ \A b \in Clients \ {c} : ~HoldsRow(b, RowOf(kind))
        /\ IF me.op \in {"reverse", "cancel"} /\ period = "CLOSED"
           THEN Rollback(c)
           ELSE Step(c, [Goto(me, "commit") EXCEPT !.number = Drawn(me)])

\* Wait for the settings row, draw the number, insert the row: a number or a key that is
\* taken violates a unique index.  The entry of a reversal is then tested as any other.
Number(c) ==
    LET me == session[c]
        kind == KindOf(me.op)
        taken == \E k \in 1..Len(sequences[kind].given) : sequences[kind].given[k] = Drawn(me)
    IN  /\ me.pc = "number"
        /\ \A b \in Clients \ {c} : ~HoldsRow(b, RowOf(kind))
        /\ IF \/ taken
              \/ me.op = "post" /\ EntriesFor(me.document) # {}
              \/ me.op \in {"reverse", "cancel"} /\ period = "CLOSED"
           THEN Rollback(c)
           ELSE Step(c, [Goto(me, "commit") EXCEPT !.number = Drawn(me)])

\* What the sessions other than c have read.
InUse(c) == UNION {session[b].reads : b \in {b \in Clients \ {c} : Active(b)}}

\* The entries once the session is committed.
EntriesAfter(me) ==
    LET row == [status |-> IF me.op = "entry" THEN "DRAFT" ELSE "POSTED",
                key |-> IF me.op = "post" THEN me.document ELSE NoDocument,
                reverses |-> IF me.op \in {"reverse", "cancel"} THEN me.entry ELSE 0]
        old == [n \in 1..Len(entries) |->
                   IF n # me.entry THEN entries[n]
                   ELSE [entries[n] EXCEPT !.status =
                            IF me.op = "confirm" THEN "POSTED" ELSE "REVERSED"]]
    IN  IF me.number # 0 /\ KindOf(me.op) = "entry" THEN Append(old, row) ELSE old

\* Mutant of DocumentAfter: the reversal of the movement is forgotten.
DocumentAfterGoodsOut(me, row) ==
    CASE me.op = "post"   -> [status |-> "POSTED", issued |-> row.issued + 1]
      [] me.op \in {"cancel", "drop"} -> [status |-> "CANCELLED", issued |-> row.issued]

\* The document once the session is committed: status as assigned, whatever it is by now.
DocumentAfter(me, row) ==
    CASE me.op = "post"   -> [status |-> "POSTED", issued |-> row.issued + 1]
      [] me.op = "cancel" -> [status |-> "CANCELLED", issued |-> row.issued - 1]
      [] me.op = "drop"   -> [status |-> "CANCELLED", issued |-> row.issued]

\* What committing the session changes that another may have read.
Changes(me) ==
    (IF me.document = NoDocument THEN {} ELSE {Doc(me.document)})
    \cup (IF me.entry = 0 THEN {} ELSE {Ent(me.entry)})
    \cup (IF me.op = "post" THEN {Customer} ELSE {})

\* get_db's commit.
Commit(c) ==
    LET me == session[c]
        kind == KindOf(me.op)
    IN  /\ me.pc = "commit"
        /\ entries' = EntriesAfter(me)
        /\ documents' = IF me.document = NoDocument THEN documents
                        ELSE [documents EXCEPT ![me.document] = DocumentAfter(me, @)]
        /\ sequences' = IF me.number = 0 THEN sequences
                        ELSE [sequences EXCEPT ![kind] =
                                 [last |-> me.number, given |-> Append(@.given, me.number)]]
        /\ raced' = raced \cup (Changes(me) \cap InUse(c))
        /\ session' = [session EXCEPT ![c] = Idle]
        /\ UNCHANGED <<period, requests>>

\* The connection is lost or the server restarts while the request is open.
Disconnect(c) == Active(c) /\ Rollback(c)

\* close_period, committed at once.
ClosePeriod ==
    /\ requests < MaxRequests
    /\ requests' = requests + 1
    /\ period = "OPEN"
    /\ period' = "CLOSED"
    /\ session' = [c \in Clients |-> IF Active(c) THEN [session[c] EXCEPT !.late = TRUE]
                                     ELSE session[c]]
    /\ UNCHANGED <<entries, documents, sequences, raced>>

-----------------------------------------------------------------------------
\* Invoices in draft, and one manual entry somebody is working on.
Init ==
    /\ entries = <<[status |-> "DRAFT", key |-> NoDocument, reverses |-> 0]>>
    /\ documents = [d \in Documents |-> [status |-> "DRAFT", issued |-> 0]]
    /\ sequences = [kind \in Kinds |-> IF kind = "entry" THEN [last |-> 1, given |-> <<1>>]
                                       ELSE [last |-> 0, given |-> <<>>]]
    /\ period = "OPEN"
    /\ session = [c \in Clients |-> Idle]
    /\ requests = 0
    /\ raced = {}

Open(c) ==
    \/ \E d \in Documents : OpenPost(c, d) \/ OpenCancel(c, d)
    \/ \E n \in 1..Len(entries) : OpenReverse(c, n) \/ OpenConfirm(c, n)
    \/ \E kind \in Kinds : OpenCreate(c, kind)

\* What the thread of an open request does on its own, and where it may have to wait.
Proceed(c) == Settings(c) \/ Check(c) \/ Commit(c)

Next ==
    \/ \E c \in Clients :
          Open(c) \/ Proceed(c) \/ Stock(c) \/ Number(c) \/ Disconnect(c)
    \/ ClosePeriod

\* Threads run on, and a lock is granted to its waiters in turn.
Fairness ==
    \A c \in Clients : WF_vars(Proceed(c)) /\ SF_vars(Stock(c)) /\ SF_vars(Number(c))

Spec == Init /\ [][Next]_vars /\ Fairness

-----------------------------------------------------------------------------
(* Properties                                                              *)

\* However requests interleave, fail or disconnect, every sequence numbers its rows
\* 1, 2, 3, ... in the order of their commits, and its settings row holds the last number.
NumbersGapless ==
    \A kind \in Kinds :
        /\ sequences[kind].last = Len(sequences[kind].given)
        /\ \A k \in 1..Len(sequences[kind].given) : sequences[kind].given[k] = k

\* Status, goods and books of a document agree unless two requests overlapped on it: a
\* posted one left the warehouse once and has one entry, a cancelled one has neither left.
DocumentsAgree ==
    \A d \in Documents : Doc(d) \notin raced =>
        CASE documents[d].status = "DRAFT" -> documents[d].issued = 0 /\ EntriesFor(d) = {}
          [] documents[d].status = "POSTED" ->
                 documents[d].issued = 1 /\ Cardinality(EntriesFor(d)) = 1
          [] documents[d].status = "CANCELLED" ->
                 /\ documents[d].issued = 0
                 /\ \A n \in EntriesFor(d) : entries[n].status = "REVERSED"

\* An entry is undone twice, or stands beside its reversal, only if two requests that had
\* read it overlapped.
UndoneOnce ==
    \A n \in 1..Len(entries) : Ent(n) \notin raced =>
        Cardinality({m \in 1..Len(entries) : entries[m].reverses = n})
            = IF entries[n].status = "REVERSED" THEN 1 ELSE 0

\* Into a closed period an entry is posted only by a request that was open when it closed.
ShutNeedsOverlap ==
    [][period = "CLOSED" =>
          \A n \in 1..Len(entries') :
              /\ entries'[n].status = "POSTED"
              /\ n \in 1..Len(entries) => entries[n].status = "DRAFT"
              => \E c \in Clients : session[c].pc = "commit" /\ session[c].late
                                    /\ session'[c].pc = "idle"]_vars

\* The customer's open invoices exceed the limit only if two postings overlapped.
LimitNeedsOverlap == Customer \notin raced => Cardinality(Posted) <= CreditLimit

\* Every request is answered, whichever locks it waits for.
RequestsAnswered == \A c \in Clients : Active(c) ~> ~Active(c)
=============================================================================
