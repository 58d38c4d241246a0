----------------------------- MODULE Approvals -----------------------------
(***************************************************************************)
(* The approval framework: an operation that meets an exception (a price,  *)
(* a discount, a credit limit, a closed period...) asks for an approval,   *)
(* somebody else decides it, and the operation is tried again.  Sources:   *)
(* backend/app/modules/shared/service.py, the accounting module's own copy *)
(* (modules/accounting/service.py) and the transaction boundary of         *)
(* core/database.py.                                                       *)
(*                                                                         *)
(* Each query of an attempt is a step of its own: other requests may       *)
(* commit between two of them.  A decision reads the approval row, tests   *)
(* it, and writes it back when it commits.                                 *)
(***************************************************************************)
EXTENDS Integers, Sequences, FiniteSets, SequencesExt

CONSTANTS
    Clients,            \* request threads
    Documents,          \* sales and purchasing documents with one guarded operation each
    JournalEntries,     \* the accounting module's
    Users,
    SharedGates,        \* exception types asked for through shared/service.py
    AccountingGates,    \* exception types asked for through accounting/service.py
    KeepsRefusals,      \* the caller commits after ApprovalRequired; get_db does not
    MaxId               \* bound: approval ids drawn from the sequence

ASSUME KeepsRefusalsAssumption == KeepsRefusals \in BOOLEAN
ASSUME MaxIdAssumption == MaxId \in Nat
ASSUME GatesAssumption == IsFiniteSet(SharedGates) /\ IsFiniteSet(AccountingGates)

VARIABLES
    requests,       \* committed ApprovalRequest rows, by id
    lastId,         \* the id sequence; a rollback does not give an id back
    posted,         \* operations whose document has been posted
    session,        \* what every client is doing
    named,          \* history: the ids that 409 answers have named
    granted,        \* history: who ever approved what, [id, by]
    ran,            \* history: each execution, with the exceptions it met
    raced           \* history: operations with overlapping attempts or decisions

vars == <<requests, lastId, posted, session, named, granted, ran, raced>>

Operations == Documents \cup JournalEntries
Gates == SharedGates \cup AccountingGates
Keys == Operations \X Gates
Statuses == {"PENDING", "APPROVED", "REJECTED"}

Idle == [pc |-> "idle"]
Busy(c) == session[c].pc # "idle"
OperationOf(c) == IF session[c].pc = "decide" THEN session[c].row.key[1] ELSE session[c].op
Overlapping(op) == \E d \in Clients : Busy(d) /\ OperationOf(d) = op

Continue(c, next) ==
    /\ session' = [session EXCEPT ![c] = next]
    /\ UNCHANGED <<requests, lastId, posted, named, granted, ran, raced>>

-----------------------------------------------------------------------------
(* The guarded operation                                                   *)

\* A request reaches a guarded operation of a document that is not posted yet.  Which
\* exceptions it meets depends on the day's data: needs, in the order the code tests.
Attempt(c, op, user, needs) ==
    /\ ~Busy(c)
    /\ op \notin posted
    /\ session' = [session EXCEPT ![c] =
            [pc |-> IF needs = <<>> THEN "execute" ELSE "approved?",
             op |-> op, user |-> user, needs |-> needs, gate |-> 1]]
    /\ raced' = IF Overlapping(op) THEN raced \cup {op} ELSE raced
    /\ UNCHANGED <<requests, lastId, posted, named, granted, ran>>

Key(c) == <<session[c].op, session[c].needs[session[c].gate]>>

\* Mutant of Matching: the request type is left out of the filter.
MatchingAnyType(key, status) ==
    {id \in DOMAIN requests : requests[id].key[1] = key[1] /\ requests[id].status = status}

\* _find_approval: the rows of a request type and document in one status.
Matching(key, status) ==
    {id \in DOMAIN requests : requests[id].key = key /\ requests[id].status = status}

\* _require_approval's first query: an APPROVED row lets the operation go on.
AskApproved(c) ==
    LET me == session[c]
        last == me.gate = Len(me.needs)
    IN  /\ me.pc = "approved?"
        /\ \/ /\ Matching(Key(c), "APPROVED") # {}
              /\ Continue(c, [me EXCEPT !.pc = IF last THEN "execute" ELSE "approved?",
                                        !.gate = IF last THEN @ ELSE @ + 1])
           \/ /\ Matching(Key(c), "APPROVED") = {}
              /\ Continue(c, [me EXCEPT !.pc = IF Key(c)[2] \in SharedGates
                                               THEN "rejected?" ELSE "pending?"])

\* Its second: a REJECTED row is final.  accounting/service.py has no such query.
AskRejected(c) ==
    /\ session[c].pc = "rejected?"
    /\ Continue(c, IF Matching(Key(c), "REJECTED") # {} THEN Idle
                   ELSE [session[c] EXCEPT !.pc = "pending?"])

\* The row of a new request.
Asked(c) == [key |-> Key(c), by |-> session[c].user, status |-> "PENDING", decider |-> "nobody"]
WithAsked(c) ==
    [id \in DOMAIN requests \cup {lastId + 1} |->
        IF id \in DOMAIN requests THEN requests[id] ELSE Asked(c)]

\* Mutant of AskPending: an earlier request that is still pending is not looked for.
AskAgain(c) ==
    /\ session[c].pc = "pending?"
    /\ lastId < MaxId
    /\ lastId' = lastId + 1
    /\ requests' = IF KeepsRefusals
                   THEN WithAsked(c)
                   ELSE requests
    /\ named' = named \cup {lastId'}
    /\ session' = [session EXCEPT ![c] = Idle]
    /\ UNCHANGED <<posted, granted, ran, raced>>

\* Its third: ApprovalRequired is raised either way, for a row that is there or for a new
\* one.  What becomes of the new one is up to the caller: get_db rolls it back.
AskPending(c) ==
    /\ session[c].pc = "pending?"
    /\ \/ /\ Matching(Key(c), "PENDING") # {}
          /\ named' = named \cup {CHOOSE id \in Matching(Key(c), "PENDING") :
                                     \A other \in Matching(Key(c), "PENDING") : other <= id}
          /\ UNCHANGED <<requests, lastId>>
       \/ /\ Matching(Key(c), "PENDING") = {}
          /\ lastId < MaxId
          /\ lastId' = lastId + 1
          /\ requests' = IF KeepsRefusals
                         THEN WithAsked(c)
                         ELSE requests
          /\ named' = named \cup {lastId'}
    /\ session' = [session EXCEPT ![c] = Idle]
    /\ UNCHANGED <<posted, granted, ran, raced>>

\* Every exception is approved: the operation runs, and its transaction commits.
Execute(c) ==
    /\ session[c].pc = "execute"
    /\ posted' = posted \cup {session[c].op}
    /\ ran' = ran \cup {[op |-> session[c].op, needs |-> session[c].needs]}
    /\ session' = [session EXCEPT ![c] = Idle]
    /\ UNCHANGED <<requests, lastId, named, granted, raced>>

-----------------------------------------------------------------------------
(* The decision                                                            *)

\* Mutant of StartDecision: a request already decided may be decided again.
StartDecisionTwice(c, id, user, verdict) ==
    /\ ~Busy(c)
    /\ requests[id].by # user
    /\ session' = [session EXCEPT ![c] =
            [pc |-> "decide", id |-> id, row |-> requests[id],
             user |-> user, verdict |-> verdict]]
    /\ raced' = IF Overlapping(requests[id].key[1]) THEN raced \cup {requests[id].key[1]}
                ELSE raced
    /\ UNCHANGED <<requests, lastId, posted, named, granted, ran>>

\* approve_request, reject_request and accounting's decide_approval, up to their writes:
\* only a PENDING request, and never by the user who asked.
StartDecision(c, id, user, verdict) ==
    /\ ~Busy(c)
    /\ requests[id].status = "PENDING"
    /\ requests[id].by # user
    /\ session' = [session EXCEPT ![c] =
            [pc |-> "decide", id |-> id, row |-> requests[id],
             user |-> user, verdict |-> verdict]]
    /\ raced' = IF Overlapping(requests[id].key[1]) THEN raced \cup {requests[id].key[1]}
                ELSE raced
    /\ UNCHANGED <<requests, lastId, posted, named, granted, ran>>

\* The write: status and approved_by, whatever the row holds by now.
Decide(c) ==
    LET me == session[c]
    IN  /\ me.pc = "decide"
        /\ requests' = [requests EXCEPT ![me.id].status = me.verdict,
                                        ![me.id].decider = me.user]
        /\ granted' = IF me.verdict = "APPROVED" THEN granted \cup {[id |-> me.id, by |-> me.user]}
                       ELSE granted
        /\ session' = [session EXCEPT ![c] = Idle]
        /\ UNCHANGED <<lastId, posted, named, ran, raced>>

-----------------------------------------------------------------------------
Init ==
    /\ requests = <<>>
    /\ lastId = 0
    /\ posted = {}
    /\ session = [c \in Clients |-> Idle]
    /\ named = {}
    /\ granted = {}
    /\ ran = {}
    /\ raced = {}

\* What an attempt may meet: exceptions of the operation's module, each at most once.
Meetings(op) ==
    {SetToSeq(s) : s \in SUBSET (IF op \in Documents THEN SharedGates ELSE AccountingGates)}

Next ==
    \/ \E c \in Clients, op \in Operations, user \in Users :
          \E needs \in Meetings(op) : Attempt(c, op, user, needs)
    \/ \E c \in Clients, id \in DOMAIN requests, user \in Users,
          verdict \in {"APPROVED", "REJECTED"} : StartDecision(c, id, user, verdict)
    \/ \E c \in Clients : \/ AskApproved(c)
                          \/ AskRejected(c)
                          \/ AskPending(c)
                          \/ Execute(c)
                          \/ Decide(c)

Spec == Init /\ [][Next]_vars

-----------------------------------------------------------------------------
(* Properties                                                              *)

\* However requests interleave, an operation that ran had, for every exception it met, an
\* approval of that type for that document, granted by someone who had not asked for it.
RanWithApproval ==
    \A run \in ran : \A k \in 1..Len(run.needs) :
        \E g \in granted : /\ requests[g.id].key = <<run.op, run.needs[k]>>
                           /\ requests[g.id].by # g.by

\* A document's exception is asked for once, and a rejection therefore ends the matter,
\* unless requests about the document overlapped (or accounting asks anew after a rejection).
AskedOnce ==
    \A id, other \in DOMAIN requests :
        /\ requests[id].key = requests[other].key
        /\ requests[id].key[2] \in SharedGates
        /\ requests[id].key[1] \notin raced
        => id = other

\* A decision is never taken back, unless requests about the document overlapped (two
\* decisions, or a decision and an attempt).
DecisionStands ==
    [][\A id \in DOMAIN requests :
          requests[id].status # "PENDING" /\ requests[id].key[1] \notin raced'
          => requests'[id] = requests[id]]_vars

\* The id a 409 answer names identifies a request that can be decided.
AnswersNameRequests == named \subseteq DOMAIN requests
=============================================================================
