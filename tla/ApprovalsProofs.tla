-------------------------- MODULE ApprovalsProofs --------------------------
(***************************************************************************)
(* The safety properties of Approvals, for any number of users, documents, *)
(* exceptions and concurrent requests.                                     *)
(*                                                                         *)
(* ApprovalsInv carries the approvals through an attempt: whatever step it *)
(* has reached, each exception it has passed was granted by another user   *)
(* than asked.  AloneInv carries what an attempt's queries did not find,   *)
(* and the status a decision tested: true as long as no other request on   *)
(* the operation overlapped, which raced would remember.                   *)
(***************************************************************************)
EXTENDS Approvals, FiniteSetTheorems, SequenceTheorems, TLAPS

Row == [key : Keys, by : Users, status : Statuses, decider : Users \cup {"nobody"}]

Trying == [pc : {"approved?", "rejected?", "pending?", "execute"}, op : Operations,
           user : Users, needs : Seq(Gates), gate : Nat]
Deciding == [pc : {"decide"}, id : DOMAIN requests, row : Row, user : Users,
             verdict : {"APPROVED", "REJECTED"}]

ApprovalsTypeOK ==
    /\ requests \in [DOMAIN requests -> Row]
    /\ lastId \in Nat
    /\ DOMAIN session = Clients
    /\ \A c \in Clients : session[c] \in Trying \cup Deciding \cup {Idle}
    /\ ran \subseteq [op : Operations, needs : Seq(Gates)]

\* The keys somebody else than the asker approved a request for.
BackedKeys ==
    {requests[g.id].key : g \in {g \in granted : /\ g.id \in DOMAIN requests
                                                /\ requests[g.id].by # g.by}}

\* An approved row is a granted one.
ApprovedIsGranted ==
    \A id \in DOMAIN requests :
        requests[id].status = "APPROVED" => requests[id].key \in BackedKeys

\* A decision under way is not made by the asker.
DecidesForAnother ==
    \A c \in Clients : session[c] \in Deciding => requests[session[c].id].by # session[c].user

\* An attempt has passed the exceptions before its gate, and to execute, all of them.
PassedIsBacked ==
    \A c \in Clients : session[c] \in Trying =>
        /\ session[c].pc # "execute" => session[c].gate \in 1..Len(session[c].needs)
        /\ \A k \in 1..Len(session[c].needs) :
              session[c].pc = "execute" \/ k < session[c].gate
              => <<session[c].op, session[c].needs[k]>> \in BackedKeys

RanIsBacked ==
    \A run \in ran : \A k \in 1..Len(run.needs) : <<run.op, run.needs[k]>> \in BackedKeys

ApprovalsInv ==
    /\ ApprovalsTypeOK
    /\ ApprovedIsGranted
    /\ DecidesForAnother
    /\ PassedIsBacked
    /\ RanIsBacked

-----------------------------------------------------------------------------
(* Lemmas                                                                  *)

\* The community modules' SetToSeq of a finite set is a sequence of its elements.
LEMMA SetToSeqIsSeq ==
    ASSUME NEW S, IsFiniteSet(S)
    PROVE  SetToSeq(S) \in Seq(S)
<1>1. Cardinality(S) \in Nat /\ ExistsBijection(1..Cardinality(S), S)
  BY FS_CardinalityType
<1>2. \E f \in [1..Cardinality(S) -> S] : IsInjective(f)
  BY <1>1 DEF ExistsBijection, Bijection, Injection
<1>3. SetToSeq(S) \in [1..Cardinality(S) -> S]
  BY <1>2 DEF SetToSeq
<1> QED BY <1>1, <1>3, SeqDef

\* What an attempt may meet is a sequence of exceptions.
LEMMA MeetingsAreSeqs ==
    ASSUME NEW op \in Operations, NEW needs \in Meetings(op)
    PROVE  needs \in Seq(Gates)
<1>1. PICK s \in SUBSET (IF op \in Documents THEN SharedGates ELSE AccountingGates) :
          needs = SetToSeq(s)
  BY DEF Meetings
<1>2. s \subseteq Gates
  BY <1>1 DEF Gates
<1>3. IsFiniteSet(s)
  <2>1. CASE op \in Documents
    BY <1>1, <2>1, GatesAssumption, FS_Subset
  <2>2. CASE op \notin Documents
    BY <1>1, <2>2, GatesAssumption, FS_Subset
  <2> QED BY <2>1, <2>2
<1>4. needs \in Seq(s)
  BY <1>1, <1>3, SetToSeqIsSeq
<1> QED BY <1>2, <1>4

\* Rows keep their key and their asker, and nothing granted is forgotten.
Grows ==
    /\ DOMAIN requests \subseteq DOMAIN requests'
    /\ \A id \in DOMAIN requests :
          requests'[id].key = requests[id].key /\ requests'[id].by = requests[id].by
    /\ granted \subseteq granted'

\* What was granted stays granted when a request is added or decided.
LEMMA BackedStays ==
    ASSUME Grows
    PROVE  BackedKeys \subseteq BackedKeys'
  BY DEF Grows, BackedKeys

\* A step that puts an attempt or nothing in the place of the session of c, in a table of
\* requests that grows, has only that attempt to account for.
LEMMA SessionStep ==
    ASSUME ApprovalsInv, Grows, ApprovedIsGranted', requests' \in [DOMAIN requests' -> Row],
           NEW c \in Clients, NEW next \in Trying \cup {Idle},
           session' = [session EXCEPT ![c] = next],
           next \in Trying =>
               /\ next.pc # "execute" => next.gate \in 1..Len(next.needs)
               /\ \A k \in 1..Len(next.needs) : next.pc = "execute" \/ k < next.gate
                      => <<next.op, next.needs[k]>> \in BackedKeys,
           lastId' \in Nat, ran' = ran
    PROVE  ApprovalsInv'
<1>1. \A d \in Clients : session'[d] = IF d = c THEN next ELSE session[d]
  BY DEF ApprovalsInv, ApprovalsTypeOK
<1>2. Deciding \subseteq Deciding'
  BY DEF Deciding, Grows
<1>3. Trying' = Trying
  BY DEF Trying
<1>4. ApprovalsTypeOK'
  BY <1>1, <1>2, <1>3 DEF ApprovalsInv, ApprovalsTypeOK, Idle
<1>5. DecidesForAnother'
  <2> SUFFICES ASSUME NEW d \in Clients, session'[d] \in Deciding'
               PROVE  requests'[session'[d].id].by # session'[d].user
    BY DEF DecidesForAnother
  <2>1. session'[d].pc = "decide"
    BY DEF Deciding
  <2>2. d # c
    BY <1>1, <2>1 DEF Trying, Idle
  <2>3. session'[d] = session[d] /\ session[d] \in Deciding
    BY <1>1, <2>1, <2>2 DEF ApprovalsInv, ApprovalsTypeOK, Trying, Idle
  <2>4. session[d].id \in DOMAIN requests
    BY <2>3 DEF Deciding
  <2> QED BY <2>3, <2>4 DEF ApprovalsInv, DecidesForAnother, Grows
<1>6. PassedIsBacked'
  <2> SUFFICES ASSUME NEW d \in Clients, session'[d] \in Trying
               PROVE  /\ session'[d].pc # "execute"
                            => session'[d].gate \in 1..Len(session'[d].needs)
                      /\ \A k \in 1..Len(session'[d].needs) :
                            session'[d].pc = "execute" \/ k < session'[d].gate
                            => <<session'[d].op, session'[d].needs[k]>> \in BackedKeys'
    BY <1>3 DEF PassedIsBacked
  <2>1. CASE d = c
    BY <1>1, <2>1, BackedStays
  <2>2. CASE d # c
    BY <1>1, <2>2, BackedStays DEF ApprovalsInv, PassedIsBacked
  <2> QED BY <2>1, <2>2
<1>7. RanIsBacked'
  BY BackedStays DEF ApprovalsInv, RanIsBacked
<1> QED BY <1>4, <1>5, <1>6, <1>7 DEF ApprovalsInv

\* A step that leaves requests and granted alone makes nothing shrink.
LEMMA SameRows ==
    ASSUME ApprovalsInv, UNCHANGED <<requests, granted>>
    PROVE  /\ Grows /\ ApprovedIsGranted' /\ requests' \in [DOMAIN requests' -> Row]
  BY DEF ApprovalsInv, ApprovalsTypeOK, ApprovedIsGranted, Grows, BackedKeys

-----------------------------------------------------------------------------
(* One lemma per action                                                    *)

\* An attempt starts with nothing passed.
LEMMA AttemptKeeps ==
    ASSUME ApprovalsInv, NEW c \in Clients, NEW op \in Operations, NEW user \in Users,
           NEW needs \in Meetings(op), Attempt(c, op, user, needs)
    PROVE  ApprovalsInv'
<1> DEFINE next == [pc |-> IF needs = <<>> THEN "execute" ELSE "approved?",
                    op |-> op, user |-> user, needs |-> needs, gate |-> 1]
<1>1. needs \in Seq(Gates)
  BY MeetingsAreSeqs
<1>2. next \in Trying
  BY <1>1 DEF Trying
<1>3. /\ session' = [session EXCEPT ![c] = next]
      /\ UNCHANGED <<requests, granted>> /\ lastId' = lastId /\ ran' = ran
  BY DEF Attempt
<1>4. next.pc # "execute" => 1 \in 1..Len(needs)
  BY <1>1
<1>5. \A k \in 1..Len(needs) : ~(next.pc = "execute" \/ k < 1)
  BY <1>1
<1>6. lastId' \in Nat
  BY <1>3 DEF ApprovalsInv, ApprovalsTypeOK
<1> HIDE DEF next
<1>7. next.gate = 1 /\ next.needs = needs
  BY DEF next
<1> QED BY <1>2, <1>3, <1>4, <1>5, <1>6, <1>7, SameRows, SessionStep

\* An exception is passed on an approved request only.
LEMMA AskApprovedKeeps ==
    ASSUME ApprovalsInv, NEW c \in Clients, AskApproved(c)
    PROVE  ApprovalsInv'
<1> DEFINE me == session[c]
           last == me.gate = Len(me.needs)
<1>1. me \in Trying /\ me.pc = "approved?"
  BY DEF AskApproved, ApprovalsInv, ApprovalsTypeOK, Deciding, Idle
<1>2. /\ me.needs \in Seq(Gates) /\ me.gate \in 1..Len(me.needs) /\ me.gate \in Nat
      /\ \A k \in 1..Len(me.needs) : k < me.gate => <<me.op, me.needs[k]>> \in BackedKeys
  BY <1>1 DEF ApprovalsInv, PassedIsBacked, Trying
<1>3. UNCHANGED <<requests, granted>> /\ lastId' \in Nat /\ ran' = ran
  BY DEF AskApproved, Continue, ApprovalsInv, ApprovalsTypeOK
<1>4. CASE Matching(Key(c), "APPROVED") # {}
  <2> DEFINE next == [me EXCEPT !.pc = IF last THEN "execute" ELSE "approved?",
                                !.gate = IF last THEN @ ELSE @ + 1]
  <2>1. session' = [session EXCEPT ![c] = next]
    BY <1>4 DEF AskApproved, Continue
  <2>2. /\ next.pc = (IF last THEN "execute" ELSE "approved?")
        /\ next.gate = (IF last THEN me.gate ELSE me.gate + 1)
        /\ next.needs = me.needs /\ next.op = me.op
        /\ next \in Trying
    <3>1. me.gate \in Nat /\ (IF last THEN me.gate ELSE me.gate + 1) \in Nat
      BY <1>2
    <3>2. (IF last THEN "execute" ELSE "approved?") \in {"approved?", "execute"}
      OBVIOUS
    <3> HIDE DEF last
    <3> QED BY <1>1, <3>1, <3>2 DEF Trying
  <2>3. <<me.op, me.needs[me.gate]>> \in BackedKeys
    BY <1>4 DEF Matching, Key, ApprovalsInv, ApprovedIsGranted
  <2>4. next.pc # "execute" => next.gate \in 1..Len(next.needs)
    BY <1>2, <2>2
  <2>5. ASSUME NEW k \in 1..Len(next.needs), next.pc = "execute" \/ k < next.gate
        PROVE  <<next.op, next.needs[k]>> \in BackedKeys
    <3>1. k < me.gate \/ k = me.gate
      BY <1>2, <2>2, <2>5
    <3> QED BY <1>2, <2>2, <2>3, <3>1
  <2> HIDE DEF next
  <2> QED BY <1>3, <2>1, <2>2, <2>4, <2>5, SameRows, SessionStep
<1>5. CASE Matching(Key(c), "APPROVED") = {}
  <2> DEFINE next == [me EXCEPT !.pc = IF Key(c)[2] \in SharedGates
                                       THEN "rejected?" ELSE "pending?"]
  <2>1. session' = [session EXCEPT ![c] = next]
    BY <1>5 DEF AskApproved, Continue
  <2>2. /\ next.pc \in {"rejected?", "pending?"}
        /\ next.gate = me.gate /\ next.needs = me.needs /\ next.op = me.op
        /\ next \in Trying
    BY <1>1 DEF Trying
  <2>3. next.pc # "execute"
    BY <2>2
  <2> HIDE DEF next
  <2> QED BY <1>2, <1>3, <2>1, <2>2, <2>3, SameRows, SessionStep
<1> QED BY <1>4, <1>5

\* A rejection ends the attempt, its absence passes nothing.
LEMMA AskRejectedKeeps ==
    ASSUME ApprovalsInv, NEW c \in Clients, AskRejected(c)
    PROVE  ApprovalsInv'
<1> DEFINE me == session[c]
           next == [me EXCEPT !.pc = "pending?"]
<1>1. me \in Trying /\ me.pc = "rejected?"
  BY DEF AskRejected, ApprovalsInv, ApprovalsTypeOK, Deciding, Idle
<1>2. /\ me.gate \in 1..Len(me.needs)
      /\ \A k \in 1..Len(me.needs) : k < me.gate => <<me.op, me.needs[k]>> \in BackedKeys
  BY <1>1 DEF ApprovalsInv, PassedIsBacked
<1>3. UNCHANGED <<requests, granted>> /\ lastId' \in Nat /\ ran' = ran
  BY DEF AskRejected, Continue, ApprovalsInv, ApprovalsTypeOK
<1>4. /\ next.pc = "pending?" /\ next.gate = me.gate
      /\ next.needs = me.needs /\ next.op = me.op /\ next \in Trying
  BY <1>1 DEF Trying
<1>5. \/ session' = [session EXCEPT ![c] = Idle]
      \/ session' = [session EXCEPT ![c] = next]
  BY DEF AskRejected, Continue
<1>6. Idle \notin Trying
  BY DEF Idle, Trying
<1> HIDE DEF next
<1>7. CASE session' = [session EXCEPT ![c] = Idle]
  BY <1>3, <1>6, <1>7, SameRows, SessionStep
<1>8. CASE session' = [session EXCEPT ![c] = next]
  BY <1>2, <1>3, <1>4, <1>8, SameRows, SessionStep
<1> QED BY <1>5, <1>7, <1>8

\* A request is found or made, and the attempt refused.
LEMMA AskPendingKeeps ==
    ASSUME ApprovalsInv, NEW c \in Clients, AskPending(c)
    PROVE  ApprovalsInv'
<1>1. session[c] \in Trying /\ session[c].pc = "pending?"
  BY DEF AskPending, ApprovalsInv, ApprovalsTypeOK, Deciding, Idle
<1>2. Asked(c) \in Row /\ Asked(c).status = "PENDING"
  <2>1. Key(c) \in Keys
    BY <1>1 DEF ApprovalsInv, PassedIsBacked, Trying, Key, Keys
  <2> QED BY <1>1, <2>1 DEF Asked, Row, Statuses, Trying
<1>3. /\ session' = [session EXCEPT ![c] = Idle] /\ ran' = ran /\ granted' = granted
      /\ lastId' \in Nat
      /\ requests' = requests \/ requests' = WithAsked(c)
  BY DEF AskPending, ApprovalsInv, ApprovalsTypeOK
<1>4. Idle \notin Trying
  BY DEF Idle, Trying
<1>5. CASE requests' = requests
  BY <1>3, <1>4, <1>5, SameRows, SessionStep
<1>6. CASE requests' = WithAsked(c)
  <2>1. /\ DOMAIN requests' = DOMAIN requests \cup {lastId + 1}
        /\ \A id \in DOMAIN requests' :
              requests'[id] = IF id \in DOMAIN requests THEN requests[id] ELSE Asked(c)
        /\ requests' = [id \in DOMAIN requests' |-> requests'[id]]
    BY <1>6 DEF WithAsked
  <2>2. requests' \in [DOMAIN requests' -> Row]
    BY <1>2, <2>1 DEF ApprovalsInv, ApprovalsTypeOK
  <2>3. Grows
    BY <1>3, <2>1 DEF Grows
  <2>4. ApprovedIsGranted'
    <3> SUFFICES ASSUME NEW id \in DOMAIN requests', requests'[id].status = "APPROVED"
                 PROVE  requests'[id].key \in BackedKeys'
      BY DEF ApprovedIsGranted
    <3>1. id \in DOMAIN requests /\ requests'[id] = requests[id]
      BY <1>2, <2>1
    <3>2. requests[id].key \in BackedKeys
      BY <3>1 DEF ApprovalsInv, ApprovedIsGranted
    <3> QED BY <2>3, <3>1, <3>2, BackedStays
  <2> QED BY <1>3, <1>4, <2>2, <2>3, <2>4, SessionStep
<1> QED BY <1>3, <1>5, <1>6

\* What runs has passed all its exceptions.
LEMMA ExecuteKeeps ==
    ASSUME ApprovalsInv, NEW c \in Clients, Execute(c)
    PROVE  ApprovalsInv'
<1>1. session[c] \in Trying /\ session[c].pc = "execute"
  BY DEF Execute, ApprovalsInv, ApprovalsTypeOK, Deciding, Idle
<1> DEFINE run == [op |-> session[c].op, needs |-> session[c].needs]
<1>2. run \in [op : Operations, needs : Seq(Gates)]
  BY <1>1 DEF Trying
<1>3. \A k \in 1..Len(run.needs) : <<run.op, run.needs[k]>> \in BackedKeys
  BY <1>1 DEF ApprovalsInv, PassedIsBacked
<1>4. /\ ran' = ran \cup {run} /\ session' = [session EXCEPT ![c] = Idle]
      /\ requests' = requests /\ granted' = granted /\ lastId' = lastId
  BY DEF Execute
<1> HIDE DEF run
<1>5. \A d \in Clients : session'[d] = IF d = c THEN Idle ELSE session[d]
  BY <1>4 DEF ApprovalsInv, ApprovalsTypeOK
<1>6. ApprovalsTypeOK'
  BY <1>2, <1>4, <1>5 DEF ApprovalsInv, ApprovalsTypeOK, Trying, Deciding
<1>7. ApprovedIsGranted'
  BY <1>4 DEF ApprovalsInv, ApprovedIsGranted, BackedKeys
<1>8. DecidesForAnother'
  BY <1>4, <1>5 DEF ApprovalsInv, DecidesForAnother, Deciding, Idle
<1>9. PassedIsBacked'
  <2>1. BackedKeys' = BackedKeys /\ Trying' = Trying /\ Idle \notin Trying
    BY <1>4 DEF BackedKeys, Trying, Idle
  <2> QED BY <1>5, <2>1 DEF ApprovalsInv, PassedIsBacked
<1>10. RanIsBacked'
  BY <1>3, <1>4 DEF ApprovalsInv, RanIsBacked, BackedKeys
<1> QED BY <1>6, <1>7, <1>8, <1>9, <1>10 DEF ApprovalsInv

\* A decision is started by another user than asked.
LEMMA StartDecisionKeeps ==
    ASSUME ApprovalsInv, NEW c \in Clients, NEW id \in DOMAIN requests, NEW user \in Users,
           NEW verdict \in {"APPROVED", "REJECTED"}, StartDecision(c, id, user, verdict)
    PROVE  ApprovalsInv'
<1> DEFINE next == [pc |-> "decide", id |-> id, row |-> requests[id],
                    user |-> user, verdict |-> verdict]
<1>1. /\ session' = [session EXCEPT ![c] = next] /\ requests[id].by # user
      /\ requests' = requests /\ granted' = granted /\ lastId' = lastId /\ ran' = ran
  BY DEF StartDecision
<1>2. next \in Deciding /\ next \notin Trying /\ next.id = id /\ next.user = user
  BY DEF ApprovalsInv, ApprovalsTypeOK, Deciding, Trying
<1> HIDE DEF next
<1>3. \A d \in Clients : session'[d] = IF d = c THEN next ELSE session[d]
  BY <1>1 DEF ApprovalsInv, ApprovalsTypeOK
<1>4. ApprovalsTypeOK'
  BY <1>1, <1>2, <1>3 DEF ApprovalsInv, ApprovalsTypeOK, Trying, Deciding
<1>5. ApprovedIsGranted' /\ RanIsBacked'
  BY <1>1 DEF ApprovalsInv, ApprovedIsGranted, RanIsBacked, BackedKeys
<1>6. DecidesForAnother'
  BY <1>1, <1>2, <1>3 DEF ApprovalsInv, DecidesForAnother, Deciding
<1>7. PassedIsBacked'
  <2>1. BackedKeys' = BackedKeys /\ Trying' = Trying
    BY <1>1 DEF BackedKeys, Trying
  <2> QED BY <1>2, <1>3, <2>1 DEF ApprovalsInv, PassedIsBacked
<1> QED BY <1>4, <1>5, <1>6, <1>7 DEF ApprovalsInv

\* A decision grants what it approves.
LEMMA DecideKeeps ==
    ASSUME ApprovalsInv, NEW c \in Clients, Decide(c)
    PROVE  ApprovalsInv'
<1> DEFINE me == session[c]
<1>1. me \in Deciding
  BY DEF Decide, ApprovalsInv, ApprovalsTypeOK, Trying, Idle
<1>2. /\ me.id \in DOMAIN requests /\ me.user \in Users /\ me.verdict \in {"APPROVED", "REJECTED"}
      /\ requests[me.id] \in Row /\ requests[me.id].by # me.user
  BY <1>1 DEF Deciding, ApprovalsInv, ApprovalsTypeOK, DecidesForAnother
<1>3. /\ requests' = [requests EXCEPT ![me.id] =
                         [requests[me.id] EXCEPT !.status = me.verdict, !.decider = me.user]]
      /\ granted' = IF me.verdict = "APPROVED" THEN granted \cup {[id |-> me.id, by |-> me.user]}
                    ELSE granted
      /\ session' = [session EXCEPT ![c] = Idle] /\ lastId' = lastId /\ ran' = ran
  BY <1>2 DEF Decide, ApprovalsInv, ApprovalsTypeOK, Row
<1>4. /\ DOMAIN requests' = DOMAIN requests
      /\ \A id \in DOMAIN requests \ {me.id} : requests'[id] = requests[id]
      /\ requests'[me.id] \in Row
      /\ requests'[me.id].key = requests[me.id].key /\ requests'[me.id].by = requests[me.id].by
      /\ requests'[me.id].status = me.verdict
  BY <1>2, <1>3 DEF Row, Statuses
<1>5. requests' \in [DOMAIN requests' -> Row]
  BY <1>3, <1>4 DEF ApprovalsInv, ApprovalsTypeOK
<1>6. Grows
  BY <1>3, <1>4 DEF Grows
<1>7. ApprovedIsGranted'
  <2> SUFFICES ASSUME NEW id \in DOMAIN requests', requests'[id].status = "APPROVED"
               PROVE  requests'[id].key \in BackedKeys'
    BY DEF ApprovedIsGranted
  <2>1. CASE id = me.id
    <3>1. [id |-> me.id, by |-> me.user] \in granted'
      BY <1>3, <1>4, <2>1
    <3> QED BY <1>2, <1>4, <2>1, <3>1 DEF BackedKeys
  <2>2. CASE id # me.id
    <3>1. id \in DOMAIN requests /\ requests'[id] = requests[id]
      BY <1>4, <2>2
    <3>2. requests[id].key \in BackedKeys
      BY <3>1 DEF ApprovalsInv, ApprovedIsGranted
    <3> QED BY <1>6, <3>1, <3>2, BackedStays
  <2> QED BY <2>1, <2>2
<1>8. Idle \notin Trying /\ lastId' \in Nat
  BY <1>3 DEF Idle, Trying, ApprovalsInv, ApprovalsTypeOK
<1> QED BY <1>3, <1>5, <1>6, <1>7, <1>8, SessionStep

-----------------------------------------------------------------------------
\* At the start nobody has asked.
LEMMA ApprovalsStart == Init => ApprovalsInv
  BY DEF Init, ApprovalsInv, ApprovalsTypeOK, ApprovedIsGranted, DecidesForAnother,
         PassedIsBacked, RanIsBacked, Idle, Deciding, Trying

\* Every step keeps the invariant.
LEMMA ApprovalsStep ==
    ASSUME ApprovalsInv, [Next]_vars
    PROVE  ApprovalsInv'
<1>1. ASSUME NEW c \in Clients, NEW op \in Operations, NEW user \in Users,
             NEW needs \in Meetings(op), Attempt(c, op, user, needs)
      PROVE  ApprovalsInv'
  BY <1>1, AttemptKeeps
<1>2. ASSUME NEW c \in Clients, NEW id \in DOMAIN requests, NEW user \in Users,
             NEW verdict \in {"APPROVED", "REJECTED"}, StartDecision(c, id, user, verdict)
      PROVE  ApprovalsInv'
  BY <1>2, StartDecisionKeeps
<1>3. ASSUME NEW c \in Clients,
             AskApproved(c) \/ AskRejected(c) \/ AskPending(c) \/ Execute(c) \/ Decide(c)
      PROVE  ApprovalsInv'
  BY <1>3, AskApprovedKeeps, AskRejectedKeeps, AskPendingKeeps, ExecuteKeeps, DecideKeeps
<1>4. CASE UNCHANGED vars
  <2>1. UNCHANGED <<requests, lastId, session, ran, granted>>
    BY <1>4 DEF vars
  <2>2. ApprovalsTypeOK'
    BY <2>1 DEF ApprovalsInv, ApprovalsTypeOK, Deciding
  <2>3. BackedKeys' = BackedKeys
    BY <2>1 DEF BackedKeys
  <2>4. ApprovedIsGranted' /\ PassedIsBacked' /\ RanIsBacked'
    BY <2>1, <2>3 DEF ApprovalsInv, ApprovedIsGranted, PassedIsBacked, RanIsBacked
  <2>5. DecidesForAnother'
    BY <2>1 DEF ApprovalsInv, DecidesForAnother, Deciding
  <2> QED BY <2>2, <2>4, <2>5 DEF ApprovalsInv
<1> QED BY <1>1, <1>2, <1>3, <1>4 DEF Next

\* Whatever ran was approved, for each exception it met, by somebody who had not asked for
\* it, in every interleaving of any number of attempts and decisions.
THEOREM RanWasApproved == Spec => []RanWithApproval
<1>1. ApprovalsInv => RanWithApproval
  BY DEF ApprovalsInv, RanIsBacked, RanWithApproval, BackedKeys
<1> QED BY <1>1, ApprovalsStart, ApprovalsStep, PTL DEF Spec

-----------------------------------------------------------------------------
(* What stands unless requests about a document overlapped.                *)

OperationIn(s) == IF s.pc = "decide" THEN s.row.key[1] ELSE s.op

\* Two requests on one operation at a time are remembered.
OverlapsRemembered ==
    \A c, d \in Clients :
        c # d /\ Busy(c) /\ Busy(d) /\ OperationIn(session[c]) = OperationIn(session[d])
        => OperationIn(session[c]) \in raced

\* A decision's request is still pending; an attempt that asks whether one was rejected
\* found none approved, and one that asks for a pending one found neither.
UpToDate(s, rows, rd) ==
    /\ s.pc = "decide" =>
           /\ s.id \in DOMAIN rows
           /\ rows[s.id].key = s.row.key
           /\ s.row.key[1] \notin rd => rows[s.id].status = "PENDING"
    /\ s.pc \in {"rejected?", "pending?"} /\ s.op \notin rd /\ s.needs[s.gate] \in SharedGates =>
           \A id \in DOMAIN rows : rows[id].key = <<s.op, s.needs[s.gate]>> =>
               /\ rows[id].status # "APPROVED"
               /\ s.pc = "pending?" => rows[id].status # "REJECTED"

AloneInv ==
    /\ OverlapsRemembered
    /\ \A c \in Clients : UpToDate(session[c], requests, raced)
    /\ AskedOnce

\* A step of one session that touches no rows but those of its own operation.
LEMMA AloneStep ==
    ASSUME ApprovalsInv, AloneInv, NEW c \in Clients, NEW next,
           session' = [session EXCEPT ![c] = next], raced \subseteq raced', Grows,
           \A id \in DOMAIN requests' :
               \/ id \in DOMAIN requests /\ requests'[id] = requests[id]
               \/ Busy(c) /\ requests'[id].key[1] = OperationIn(session[c]),
           next.pc # "idle" => \A d \in Clients \ {c} :
               Busy(d) /\ OperationIn(session[d]) = OperationIn(next) => OperationIn(next) \in raced',
           UpToDate(next, requests', raced'),
           AskedOnce'
    PROVE  AloneInv'
<1>1. \A d \in Clients : session'[d] = IF d = c THEN next ELSE session[d]
  BY DEF ApprovalsInv, ApprovalsTypeOK
<1>2. OverlapsRemembered'
  <2> SUFFICES ASSUME NEW d \in Clients, NEW e \in Clients, d # e,
                      session'[d].pc # "idle", session'[e].pc # "idle",
                      OperationIn(session'[d]) = OperationIn(session'[e])
               PROVE  OperationIn(session'[d]) \in raced'
    BY DEF OverlapsRemembered, Busy, OperationIn
  <2>1. CASE d = c
    BY <1>1, <2>1 DEF Busy
  <2>2. CASE e = c
    BY <1>1, <2>2 DEF Busy
  <2>3. CASE d # c /\ e # c
    BY <1>1, <2>3 DEF AloneInv, OverlapsRemembered, Busy
  <2> QED BY <2>1, <2>2, <2>3
<1>3. ASSUME NEW d \in Clients
      PROVE  UpToDate(session'[d], requests', raced')
  <2>1. CASE d = c
    BY <1>1, <2>1
  <2>2. CASE d # c
    <3> DEFINE s == session[d]
    <3>1. session'[d] = s /\ UpToDate(s, requests, raced)
      BY <1>1, <2>2 DEF AloneInv
    <3>2. ASSUME s.pc # "idle", OperationIn(s) \notin raced'
          PROVE  \A id \in DOMAIN requests' :
                    \/ id \in DOMAIN requests /\ requests'[id] = requests[id]
                    \/ requests'[id].key[1] # OperationIn(s)
      BY <2>2, <3>2 DEF AloneInv, OverlapsRemembered, Busy
    <3> HIDE DEF s
    <3>3. CASE s.pc = "decide"
      <4>1. s.id \in DOMAIN requests' /\ requests'[s.id].key = s.row.key
        BY <3>1, <3>3 DEF UpToDate, Grows
      <4>2. s.row.key[1] \notin raced' => requests'[s.id].status = "PENDING"
        BY <3>1, <3>2, <3>3, <4>1 DEF UpToDate, OperationIn
      <4> QED BY <3>1, <3>3, <4>1, <4>2 DEF UpToDate, s
    <3>4. CASE s.pc \in {"rejected?", "pending?"}
      <4> SUFFICES ASSUME s.op \notin raced', s.needs[s.gate] \in SharedGates,
                          NEW id \in DOMAIN requests',
                          requests'[id].key = <<s.op, s.needs[s.gate]>>
                   PROVE  /\ requests'[id].status # "APPROVED"
                          /\ s.pc = "pending?" => requests'[id].status # "REJECTED"
        BY <3>1, <3>4 DEF UpToDate, s
      <4>1. requests'[id].key[1] = s.op /\ OperationIn(s) = s.op
        BY <3>4 DEF OperationIn
      <4>2. id \in DOMAIN requests /\ requests'[id] = requests[id]
        BY <3>2, <3>4, <4>1
      <4> QED BY <3>1, <3>4, <4>2 DEF UpToDate
    <3>5. CASE s.pc \notin {"decide", "rejected?", "pending?"}
      BY <3>1, <3>5 DEF UpToDate, s
    <3> QED BY <3>3, <3>4, <3>5
  <2> QED BY <2>1, <2>2
<1> QED BY <1>2, <1>3 DEF AloneInv

\* Nothing of it depends on who decided, and a step that leaves the rows alone asks nothing.
LEMMA SameRowsAlone ==
    ASSUME ApprovalsInv, AloneInv, UNCHANGED <<requests, granted>>, raced \subseteq raced'
    PROVE  Grows /\ AskedOnce'
  BY DEF AloneInv, AskedOnce, Grows

\* An attempt that starts beside another request on its operation is remembered.
LEMMA AttemptAlone ==
    ASSUME ApprovalsInv, AloneInv, NEW c \in Clients, NEW op \in Operations, NEW user \in Users,
           NEW needs \in Meetings(op), Attempt(c, op, user, needs)
    PROVE  AloneInv'
<1> DEFINE next == [pc |-> IF needs = <<>> THEN "execute" ELSE "approved?",
                    op |-> op, user |-> user, needs |-> needs, gate |-> 1]
<1>1. /\ session' = [session EXCEPT ![c] = next] /\ UNCHANGED <<requests, granted>>
      /\ raced' = IF Overlapping(op) THEN raced \cup {op} ELSE raced
  BY DEF Attempt
<1>2. next.pc \in {"execute", "approved?"} /\ next.op = op
  OBVIOUS
<1> HIDE DEF next
<1>3. OperationIn(next) = op
  BY <1>2 DEF OperationIn
<1>4. \A d \in Clients : Busy(d) /\ OperationIn(session[d]) = op => op \in raced'
  BY <1>1 DEF Overlapping, OperationIn, OperationOf
<1>5. UpToDate(next, requests', raced')
  BY <1>2 DEF UpToDate
<1>6. raced \subseteq raced'
  BY <1>1
<1> QED BY <1>1, <1>3, <1>4, <1>5, <1>6, SameRowsAlone, AloneStep

\* So is a decision that starts beside another request on its operation.
LEMMA StartDecisionAlone ==
    ASSUME ApprovalsInv, AloneInv, NEW c \in Clients, NEW id \in DOMAIN requests,
           NEW user \in Users, NEW verdict \in {"APPROVED", "REJECTED"},
           StartDecision(c, id, user, verdict)
    PROVE  AloneInv'
<1> DEFINE next == [pc |-> "decide", id |-> id, row |-> requests[id],
                    user |-> user, verdict |-> verdict]
           op == requests[id].key[1]
<1>1. /\ session' = [session EXCEPT ![c] = next] /\ UNCHANGED <<requests, granted>>
      /\ requests[id].status = "PENDING"
      /\ raced' = IF Overlapping(op) THEN raced \cup {op} ELSE raced
  BY DEF StartDecision
<1>2. next.pc = "decide" /\ next.id = id /\ next.row = requests[id]
  OBVIOUS
<1> HIDE DEF next
<1>3. OperationIn(next) = op
  BY <1>2 DEF OperationIn
<1>4. \A d \in Clients : Busy(d) /\ OperationIn(session[d]) = op => op \in raced'
  BY <1>1 DEF Overlapping, OperationIn, OperationOf
<1>5. UpToDate(next, requests', raced')
  BY <1>1, <1>2 DEF UpToDate
<1>6. raced \subseteq raced'
  BY <1>1
<1> QED BY <1>1, <1>3, <1>4, <1>5, <1>6, SameRowsAlone, AloneStep

\* A query of an attempt adds what it found not to be there.
LEMMA QueryAlone ==
    ASSUME ApprovalsInv, AloneInv, NEW c \in Clients, AskApproved(c) \/ AskRejected(c)
    PROVE  AloneInv'
<1> DEFINE me == session[c]
<1>1. /\ me \in Trying /\ me.pc \in {"approved?", "rejected?"}
      /\ UpToDate(me, requests, raced)
  BY DEF AskApproved, AskRejected, ApprovalsInv, ApprovalsTypeOK, Deciding, Idle, AloneInv
<1>2. UNCHANGED <<requests, granted, raced>>
  BY DEF AskApproved, AskRejected, Continue
<1>3. ASSUME NEW next, session' = [session EXCEPT ![c] = next],
             \/ next = Idle
             \/ next.pc \in {"approved?", "execute"} /\ next.op = me.op
             \/ /\ next.pc \in {"rejected?", "pending?"} /\ next.op = me.op
                /\ next.needs = me.needs /\ next.gate = me.gate
                /\ me.needs[me.gate] \in SharedGates =>
                      \A id \in DOMAIN requests : requests[id].key = Key(c) =>
                          /\ requests[id].status # "APPROVED"
                          /\ next.pc = "pending?" => requests[id].status # "REJECTED"
      PROVE  AloneInv'
  <2>1. \A d \in Clients \ {c} : next.pc # "idle" =>
            (Busy(d) /\ OperationIn(session[d]) = OperationIn(next) => OperationIn(next) \in raced')
    <3> SUFFICES ASSUME NEW d \in Clients \ {c}, next.pc # "idle", Busy(d),
                        OperationIn(session[d]) = OperationIn(next)
                 PROVE  OperationIn(next) \in raced'
      OBVIOUS
    <3>1. OperationIn(next) = me.op /\ OperationIn(me) = me.op /\ Busy(c)
      BY <1>1, <1>3 DEF OperationIn, Idle, Busy
    <3> QED BY <1>2, <3>1 DEF AloneInv, OverlapsRemembered
  <2>2. UpToDate(next, requests', raced')
    BY <1>2, <1>3 DEF UpToDate, Key, Idle
  <2> QED BY <1>2, <1>3, <2>1, <2>2, SameRowsAlone, AloneStep
<1>4. CASE AskApproved(c) /\ Matching(Key(c), "APPROVED") # {}
  <2> DEFINE last == me.gate = Len(me.needs)
             next == [me EXCEPT !.pc = IF last THEN "execute" ELSE "approved?",
                                !.gate = IF last THEN @ ELSE @ + 1]
  <2>1. session' = [session EXCEPT ![c] = next]
    BY <1>4 DEF AskApproved, Continue
  <2>2. next.pc \in {"approved?", "execute"} /\ next.op = me.op
    BY <1>1 DEF Trying
  <2> HIDE DEF next
  <2> QED BY <1>3, <2>1, <2>2
<1>5. CASE AskApproved(c) /\ Matching(Key(c), "APPROVED") = {}
  <2> DEFINE next == [me EXCEPT !.pc = IF Key(c)[2] \in SharedGates
                                       THEN "rejected?" ELSE "pending?"]
  <2>1. session' = [session EXCEPT ![c] = next]
    BY <1>5 DEF AskApproved, Continue
  <2>2. /\ next.pc = IF me.needs[me.gate] \in SharedGates THEN "rejected?" ELSE "pending?"
        /\ next.op = me.op /\ next.needs = me.needs /\ next.gate = me.gate
    BY <1>1 DEF Trying, Key
  <2>3. \A id \in DOMAIN requests : requests[id].key = Key(c) => requests[id].status # "APPROVED"
    BY <1>5 DEF Matching
  <2> HIDE DEF next, me
  <2> QED BY <1>3, <2>1, <2>2, <2>3
<1>6. CASE AskRejected(c)
  <2> DEFINE next == [me EXCEPT !.pc = "pending?"]
  <2>1. CASE Matching(Key(c), "REJECTED") # {}
    BY <1>3, <1>6, <2>1 DEF AskRejected, Continue
  <2>2. CASE Matching(Key(c), "REJECTED") = {}
    <3>1. session' = [session EXCEPT ![c] = next]
      BY <1>6, <2>2 DEF AskRejected, Continue
    <3>2. /\ next.pc = "pending?" /\ me.pc = "rejected?"
          /\ next.op = me.op /\ next.needs = me.needs /\ next.gate = me.gate
      BY <1>1, <1>6 DEF Trying, AskRejected
    <3> HIDE DEF next
    <3>3. CASE me.op \in raced
      <4>1. UpToDate(next, requests', raced')
        BY <1>2, <3>2, <3>3 DEF UpToDate
      <4>2. OperationIn(next) = me.op /\ me.op \in raced'
        BY <1>2, <3>2, <3>3 DEF OperationIn
      <4> QED BY <1>2, <3>1, <4>1, <4>2, SameRowsAlone, AloneStep
    <3>4. CASE me.op \notin raced
      <4>1. \A id \in DOMAIN requests : requests[id].key = Key(c) => requests[id].status # "REJECTED"
        BY <2>2 DEF Matching
      <4>2. me.needs[me.gate] \in SharedGates =>
               \A id \in DOMAIN requests : requests[id].key = Key(c) => requests[id].status # "APPROVED"
        BY <1>1, <3>2, <3>4 DEF UpToDate, Key
      <4> HIDE DEF me
      <4> QED BY <1>3, <3>1, <3>2, <4>1, <4>2
    <3> QED BY <3>3, <3>4
  <2> QED BY <2>1, <2>2
<1> QED BY <1>4, <1>5, <1>6

\* A request is only added when none of its exception is there.
LEMMA AskPendingAlone ==
    ASSUME ApprovalsInv, AloneInv, NEW c \in Clients, AskPending(c)
    PROVE  AloneInv'
<1> DEFINE me == session[c]
<1>1. me \in Trying /\ me.pc = "pending?" /\ UpToDate(me, requests, raced)
  BY DEF AskPending, ApprovalsInv, ApprovalsTypeOK, Deciding, Idle, AloneInv
<1>2. /\ session' = [session EXCEPT ![c] = Idle] /\ raced' = raced /\ granted' = granted
      /\ \/ requests' = requests
         \/ requests' = WithAsked(c) /\ Matching(Key(c), "PENDING") = {}
  BY DEF AskPending
<1>3. Idle.pc = "idle" /\ UpToDate(Idle, requests', raced')
  BY DEF Idle, UpToDate
<1>4. CASE requests' = requests
  BY <1>2, <1>3, <1>4, SameRowsAlone, AloneStep
<1>5. CASE requests' = WithAsked(c) /\ Matching(Key(c), "PENDING") = {}
  <2>1. /\ DOMAIN requests \subseteq DOMAIN requests'
        /\ \A id \in DOMAIN requests : requests'[id] = requests[id]
        /\ \A id \in DOMAIN requests' : id \notin DOMAIN requests =>
              id = lastId + 1 /\ requests'[id].key = Key(c)
    BY <1>5 DEF WithAsked, Asked
  <2>2. Grows
    BY <1>2, <2>1 DEF Grows
  <2>3. Key(c) = <<me.op, me.needs[me.gate]>> /\ Key(c)[1] = me.op /\ Key(c)[2] = me.needs[me.gate]
    BY DEF Key
  <2>4. Key(c)[2] \in SharedGates /\ me.op \notin raced =>
            \A id \in DOMAIN requests : requests[id].key # Key(c)
    <3> SUFFICES ASSUME Key(c)[2] \in SharedGates, me.op \notin raced, NEW id \in DOMAIN requests,
                        requests[id].key = Key(c)
                 PROVE  FALSE
      OBVIOUS
    <3>1. requests[id].status \notin {"PENDING", "APPROVED", "REJECTED"}
      BY <1>1, <1>5, <2>3 DEF Matching, UpToDate
    <3>2. requests[id] \in Row
      BY DEF ApprovalsInv, ApprovalsTypeOK
    <3> QED BY <3>1, <3>2 DEF Row, Statuses
  <2> HIDE DEF me
  <2>5. AskedOnce'
    <3> SUFFICES ASSUME NEW id \in DOMAIN requests', NEW other \in DOMAIN requests',
                        requests'[id].key = requests'[other].key,
                        requests'[id].key[2] \in SharedGates, requests'[id].key[1] \notin raced'
                 PROVE  id = other
      BY DEF AskedOnce
    <3>1. CASE id \in DOMAIN requests /\ other \in DOMAIN requests
      BY <1>2, <2>1, <3>1 DEF AloneInv, AskedOnce
    <3>2. CASE id \notin DOMAIN requests
      BY <1>2, <2>1, <2>3, <2>4, <3>2
    <3>3. CASE other \notin DOMAIN requests
      BY <1>2, <2>1, <2>3, <2>4, <3>3
    <3> QED BY <3>1, <3>2, <3>3
  <2>6. \A id \in DOMAIN requests' :
            \/ id \in DOMAIN requests /\ requests'[id] = requests[id]
            \/ Busy(c) /\ requests'[id].key[1] = OperationIn(session[c])
    BY <1>1, <2>1, <2>3 DEF Busy, OperationIn, me
  <2> QED BY <1>2, <1>3, <2>2, <2>5, <2>6, AloneStep
<1> QED BY <1>2, <1>4, <1>5

\* What runs changes no request.
LEMMA ExecuteAlone ==
    ASSUME ApprovalsInv, AloneInv, NEW c \in Clients, Execute(c)
    PROVE  AloneInv'
<1>1. Idle.pc = "idle" /\ UpToDate(Idle, requests', raced')
  BY DEF Idle, UpToDate
<1> QED BY <1>1, SameRowsAlone, AloneStep DEF Execute

\* A decision leaves its request's key as it is, and changes no other request.
LEMMA DecideAlone ==
    ASSUME ApprovalsInv, AloneInv, NEW c \in Clients, Decide(c)
    PROVE  /\ AloneInv'
           /\ \A id \in DOMAIN requests :
                 requests'[id] = requests[id]
                 \/ requests[id].key[1] \in raced' \/ requests[id].status = "PENDING"
<1> DEFINE me == session[c]
<1>1. me \in Deciding /\ me.pc = "decide" /\ UpToDate(me, requests, raced)
  BY DEF Decide, ApprovalsInv, ApprovalsTypeOK, Trying, Idle, AloneInv
<1>2. me.id \in DOMAIN requests /\ requests[me.id] \in Row /\ requests[me.id].key = me.row.key
  BY <1>1 DEF Deciding, ApprovalsInv, ApprovalsTypeOK, UpToDate
<1>3. /\ requests' = [requests EXCEPT ![me.id] =
                         [requests[me.id] EXCEPT !.status = me.verdict, !.decider = me.user]]
      /\ session' = [session EXCEPT ![c] = Idle] /\ granted \subseteq granted' /\ raced' = raced
  BY <1>2 DEF Decide, ApprovalsInv, ApprovalsTypeOK, Row
<1>4. /\ DOMAIN requests' = DOMAIN requests
      /\ \A id \in DOMAIN requests \ {me.id} : requests'[id] = requests[id]
      /\ requests'[me.id].key = requests[me.id].key /\ requests'[me.id].by = requests[me.id].by
  BY <1>2, <1>3 DEF Row
<1>5. Grows
  BY <1>3, <1>4 DEF Grows
<1>6. OperationIn(me) = requests'[me.id].key[1] /\ Busy(c)
  BY <1>1, <1>2, <1>4 DEF OperationIn, Busy
<1>7. AskedOnce'
  BY <1>3, <1>4 DEF AloneInv, AskedOnce
<1>8. Idle.pc = "idle" /\ UpToDate(Idle, requests', raced')
  BY DEF Idle, UpToDate
<1>9. AloneInv'
  BY <1>3, <1>4, <1>5, <1>6, <1>7, <1>8, AloneStep
<1>10. requests[me.id].key[1] \in raced' \/ requests[me.id].status = "PENDING"
  BY <1>1, <1>2, <1>3 DEF UpToDate
<1> QED BY <1>4, <1>9, <1>10

-----------------------------------------------------------------------------
\* At the start there is nobody to overlap with.
LEMMA AloneStarts == Init => AloneInv
  BY DEF Init, AloneInv, OverlapsRemembered, Busy, Idle, UpToDate, AskedOnce

\* Every step keeps it, and takes no decision back.
LEMMA AloneSteps ==
    ASSUME ApprovalsInv, AloneInv, [Next]_vars
    PROVE  /\ AloneInv'
           /\ \A id \in DOMAIN requests :
                 requests[id].status # "PENDING" /\ requests[id].key[1] \notin raced'
                 => requests'[id] = requests[id]
<1>1. ASSUME NEW c \in Clients, NEW op \in Operations, NEW user \in Users,
             NEW needs \in Meetings(op), Attempt(c, op, user, needs)
      PROVE  AloneInv' /\ requests' = requests
  BY <1>1, AttemptAlone DEF Attempt
<1>2. ASSUME NEW c \in Clients, NEW id \in DOMAIN requests, NEW user \in Users,
             NEW verdict \in {"APPROVED", "REJECTED"}, StartDecision(c, id, user, verdict)
      PROVE  AloneInv' /\ requests' = requests
  BY <1>2, StartDecisionAlone DEF StartDecision
<1>3. ASSUME NEW c \in Clients, AskApproved(c) \/ AskRejected(c) \/ Execute(c)
      PROVE  AloneInv' /\ requests' = requests
  BY <1>3, QueryAlone, ExecuteAlone DEF AskApproved, AskRejected, Continue, Execute
<1>4. ASSUME NEW c \in Clients, AskPending(c)
      PROVE  AloneInv' /\ \A id \in DOMAIN requests : requests'[id] = requests[id]
  BY <1>4, AskPendingAlone DEF AskPending, WithAsked
<1>5. ASSUME NEW c \in Clients, Decide(c)
      PROVE  /\ AloneInv'
             /\ \A id \in DOMAIN requests :
                   requests'[id] = requests[id]
                   \/ requests[id].key[1] \in raced' \/ requests[id].status = "PENDING"
  BY <1>5, DecideAlone
<1>6. CASE UNCHANGED vars
  <2>1. AloneInv'
    BY <1>6 DEF vars, AloneInv, OverlapsRemembered, Busy, AskedOnce
  <2> QED BY <1>6, <2>1 DEF vars
<1> QED BY <1>1, <1>2, <1>3, <1>4, <1>5, <1>6 DEF Next

\* Both invariants hold throughout.
LEMMA AloneAlways == Spec => [](ApprovalsInv /\ AloneInv)
  BY ApprovalsStart, ApprovalsStep, AloneStarts, AloneSteps, PTL DEF Spec

\* A document's exception is asked for once unless requests about it overlapped, for any
\* number of users, documents and concurrent requests.
THEOREM ExceptionsAskedOnce == Spec => []AskedOnce
<1>1. AloneInv => AskedOnce
  BY DEF AloneInv
<1> QED BY <1>1, AloneAlways, PTL

\* A decision is never taken back unless two decisions on the request overlapped.
THEOREM DecisionsStand == Spec => DecisionStands
<1>1. ASSUME ApprovalsInv, AloneInv, [Next]_vars
      PROVE  [\A id \in DOMAIN requests :
                 requests[id].status # "PENDING" /\ requests[id].key[1] \notin raced'
                 => requests'[id] = requests[id]]_vars
  BY <1>1, AloneSteps
<1> QED BY <1>1, AloneAlways, PTL DEF Spec, DecisionStands
=============================================================================
