----------------------- MODULE PostingSessionsProofs -----------------------
(***************************************************************************)
(* The safety properties of PostingSessions, for any number of documents,  *)
(* sessions and requests.                                                  *)
(*                                                                         *)
(* PostingInv is about numbers: a session's settings object may be older   *)
(* than the row, so the number it draws is at most the next one; the       *)
(* unique index refuses a smaller one, the row lock keeps others away.     *)
(*                                                                         *)
(* OverlapInv is about what requests read and act on later: what an open   *)
(* request has read is still so, or raced names it.  A commit adds to raced*)
(* whatever it changes that somebody else has read, so a property holds of *)
(* everything raced does not name.                                         *)
(***************************************************************************)
EXTENDS PostingSessions, SequenceTheorems, FiniteSetTheorems, TLAPS

Operations ==
    {"post", "cancel", "drop", "reverse", "confirm", "entry", "invoice", "note"}
Places == {"stock", "settings", "check", "number", "commit"}
Rows == {"accounting", "sales"}
Readable == {Doc(d) : d \in Documents} \cup {Ent(n) : n \in Int} \cup {Customer}

OpenSession ==
    [pc : Places, op : Operations, document : Documents \cup {NoDocument}, entry : Int,
     loaded : Nat, number : Nat, reads : SUBSET Readable, late : BOOLEAN]

PostingTypeOK ==
    /\ sequences \in [Kinds -> [last : Nat, given : Seq(Nat)]]
    /\ DOMAIN session = Clients
    /\ \A c \in Clients : session[c] \in OpenSession \cup {Idle}

\* What an open session has loaded and drawn: loaded numbers may be old, and a drawn
\* number is the next one until it is committed.
Consistent(s, numbers) ==
    /\ s.loaded <= numbers[KindOf(s.op)].last
    /\ s.pc = "check" => s.op \in {"post", "confirm", "cancel"}
    /\ s.number # 0 => s.pc = "commit" /\ s.number = numbers[KindOf(s.op)].last + 1

AllConsistent == \A c \in Clients : session[c] \in OpenSession => Consistent(session[c], sequences)

\* A settings row is locked by one session at a time.
OneHolder ==
    \A b, c \in Clients : \A row \in Rows : HoldsRow(b, row) /\ HoldsRow(c, row) => b = c

PostingInv == PostingTypeOK /\ NumbersGapless /\ AllConsistent /\ OneHolder

-----------------------------------------------------------------------------
\* An operation draws from one of the sequences.
LEMMA KindType ==
    ASSUME NEW op \in Operations
    PROVE  KindOf(op) \in Kinds /\ RowOf(KindOf(op)) \in Rows
  BY DEF KindOf, Kinds, RowOf, Rows

\* An idle session is not an open one.
LEMMA IdleIsNotOpen == Idle \notin OpenSession /\ Idle.pc = "idle"
                       /\ \A s \in OpenSession : s.pc # "idle"
  BY DEF Idle, OpenSession, Places

\* A step that puts a session without a number, or none, in the place of that of c.
LEMMA QuietStep ==
    ASSUME PostingInv, NEW c \in Clients, NEW next \in OpenSession \cup {Idle},
           session' = [session EXCEPT ![c] = next], sequences' = sequences,
           next \in OpenSession => Consistent(next, sequences) /\ next.number = 0
    PROVE  PostingInv'
<1>1. \A b \in Clients : session'[b] = IF b = c THEN next ELSE session[b]
  BY DEF PostingInv, PostingTypeOK
<1>2. PostingTypeOK'
  BY <1>1 DEF PostingInv, PostingTypeOK, OpenSession, Readable, Idle
<1>3. NumbersGapless'
  BY DEF PostingInv, NumbersGapless
<1>4. AllConsistent'
  <2>1. OpenSession' = OpenSession
    BY DEF OpenSession, Readable
  <2> QED BY <1>1, <2>1 DEF PostingInv, AllConsistent, Consistent
<1>5. OneHolder'
  BY <1>1, IdleIsNotOpen DEF PostingInv, OneHolder, HoldsRow, Active
<1> QED BY <1>2, <1>3, <1>4, <1>5 DEF PostingInv

\* Opening a request.
LEMMA BeginKeeps ==
    ASSUME PostingInv, NEW c \in Clients, NEW op \in Operations,
           NEW d \in Documents \cup {NoDocument}, NEW n \in Int,
           NEW reads \in SUBSET Readable, Begin(c, op, d, n, reads)
    PROVE  PostingInv'
<1> DEFINE next == Started(op, d, n, reads)
<1>1. next \in OpenSession /\ next.number = 0 /\ next.loaded = 0 /\ next.op = op
      /\ (next.pc = "check" => op \in {"post", "confirm", "cancel"})
  BY DEF Started, Steps, OpenSession, Places, Operations
<1>2. sequences[KindOf(op)].last \in Nat
  BY KindType DEF PostingInv, PostingTypeOK
<1>3. Consistent(next, sequences)
  BY <1>1, <1>2 DEF Consistent
<1>4. session' = [session EXCEPT ![c] = next] /\ sequences' = sequences
  BY DEF Begin
<1> HIDE DEF next
<1> QED BY <1>1, <1>3, <1>4, QuietStep

\* Every way of opening one.
LEMMA OpenKeeps ==
    ASSUME PostingInv, NEW c \in Clients, Open(c)
    PROVE  PostingInv'
<1>1. ASSUME NEW d \in Documents, OpenPost(c, d) \/ OpenCancel(c, d)
      PROVE  PostingInv'
  <2>1. {Doc(d), Customer} \in SUBSET Readable /\ {Doc(d)} \in SUBSET Readable
    BY DEF Readable
  <2> QED BY <1>1, <2>1, BeginKeeps DEF OpenPost, OpenCancel, Operations
<1>2. ASSUME NEW n \in 1..Len(entries), OpenReverse(c, n) \/ OpenConfirm(c, n)
      PROVE  PostingInv'
  <2>1. n \in Int /\ {Ent(n)} \in SUBSET Readable
    BY DEF Readable
  <2> QED BY <1>2, <2>1, BeginKeeps DEF OpenReverse, OpenConfirm, Operations
<1>3. ASSUME NEW kind \in Kinds, OpenCreate(c, kind)
      PROVE  PostingInv'
  BY <1>3, BeginKeeps DEF OpenCreate, Operations, Kinds
<1> QED BY <1>1, <1>2, <1>3 DEF Open

\* A rollback gives up the drawn number and the locks.
LEMMA RollbackKeeps ==
    ASSUME PostingInv, NEW c \in Clients, Rollback(c)
    PROVE  PostingInv'
  BY QuietStep, IdleIsNotOpen DEF Rollback

\* What is known of an open session that has not drawn its number.
LEMMA Undrawn ==
    ASSUME PostingInv, NEW c \in Clients,
           session[c].pc \in {"stock", "settings", "check", "number"}
    PROVE  /\ session[c] \in OpenSession /\ Consistent(session[c], sequences) /\ session[c].number = 0
           /\ KindOf(session[c].op) \in Kinds /\ RowOf(KindOf(session[c].op)) \in Rows
           /\ sequences[KindOf(session[c].op)].last \in Nat
<1>1. session[c] \in OpenSession
  BY IdleIsNotOpen DEF PostingInv, PostingTypeOK
<1>2. Consistent(session[c], sequences) /\ session[c].number = 0
  BY <1>1 DEF PostingInv, AllConsistent, Consistent
<1>3. KindOf(session[c].op) \in Kinds /\ RowOf(KindOf(session[c].op)) \in Rows
  BY <1>1, KindType DEF OpenSession
<1> QED BY <1>1, <1>2, <1>3 DEF PostingInv, PostingTypeOK

\* Locking the stock row touches no settings row.
LEMMA StockKeeps ==
    ASSUME PostingInv, NEW c \in Clients, Stock(c)
    PROVE  PostingInv'
<1> DEFINE next == Goto(session[c], "settings")
<1>1. /\ session[c] \in OpenSession /\ Consistent(session[c], sequences) /\ session[c].number = 0
      /\ session' = [session EXCEPT ![c] = next] /\ sequences' = sequences
  BY Undrawn DEF Stock, Step
<1>2. next \in OpenSession /\ Consistent(next, sequences) /\ next.number = 0
  BY <1>1 DEF Goto, OpenSession, Places, Consistent
<1> HIDE DEF next
<1> QED BY <1>1, <1>2, QuietStep

\* What is loaded is at most the last number.
LEMMA SettingsKeeps ==
    ASSUME PostingInv, NEW c \in Clients, Settings(c)
    PROVE  PostingInv'
<1> DEFINE me == session[c]
           place == IF me.op \in {"post", "cancel"} THEN "check" ELSE "number"
           last == sequences[KindOf(me.op)].last
           next == [Goto(me, place) EXCEPT !.loaded = last]
<1>1. /\ me \in OpenSession /\ Consistent(me, sequences) /\ me.number = 0 /\ last \in Nat
      /\ session' = [session EXCEPT ![c] = next] /\ sequences' = sequences
  BY Undrawn DEF Settings, Step
<1>2. place \in {"check", "number"} /\ (place = "check" => me.op \in {"post", "cancel"})
  OBVIOUS
<1> HIDE DEF place, last
<1>3. /\ next \in OpenSession /\ next.number = 0 /\ next.op = me.op
      /\ next.loaded = last /\ next.pc = place
  BY <1>1, <1>2 DEF Goto, OpenSession, Places
<1>4. Consistent(next, sequences)
  BY <1>1, <1>2, <1>3 DEF Consistent, last
<1> HIDE DEF next
<1> QED BY <1>1, <1>3, <1>4, QuietStep

\* The period test draws no number.
LEMMA CheckKeeps ==
    ASSUME PostingInv, NEW c \in Clients, Check(c)
    PROVE  PostingInv'
<1> DEFINE me == session[c]
<1>1. me \in OpenSession /\ Consistent(me, sequences) /\ me.number = 0 /\ me.pc = "check"
  BY Undrawn DEF Check
<1>2. me.op \in {"post", "confirm", "cancel"}
  BY <1>1 DEF Consistent
<1>3. ASSUME NEW pc \in {"commit", "number"}, Step(c, Goto(me, pc))
      PROVE  PostingInv'
  <2> DEFINE next == Goto(me, pc)
  <2>1. next \in OpenSession /\ Consistent(next, sequences) /\ next.number = 0
    BY <1>1 DEF Goto, OpenSession, Places, Consistent
  <2>2. session' = [session EXCEPT ![c] = next] /\ sequences' = sequences
    BY <1>3 DEF Step
  <2> HIDE DEF next
  <2> QED BY <2>1, <2>2, QuietStep
<1>4. ASSUME NEW n \in EntriesFor(me.document),
             Step(c, [Goto(me, "number") EXCEPT !.entry = n, !.reads = @ \cup {Ent(n)}])
      PROVE  PostingInv'
  <2> DEFINE next == [Goto(me, "number") EXCEPT !.entry = n, !.reads = @ \cup {Ent(n)}]
  <2>1. n \in Int /\ me.reads \cup {Ent(n)} \in SUBSET Readable
    BY <1>1 DEF EntriesFor, Readable, OpenSession
  <2>2. /\ next \in OpenSession /\ next.pc = "number" /\ next.op = me.op
        /\ next.loaded = me.loaded /\ next.number = 0
    BY <1>1, <2>1 DEF Goto, OpenSession, Places
  <2>3. Consistent(next, sequences)
    BY <1>1, <2>2 DEF Consistent
  <2>4. session' = [session EXCEPT ![c] = next] /\ sequences' = sequences
    BY <1>4 DEF Step
  <2> HIDE DEF next
  <2> QED BY <2>2, <2>3, <2>4, QuietStep
<1>5. CASE me.op = "post"
  BY <1>3, <1>5, RollbackKeeps DEF Check
<1>6. CASE me.op = "confirm"
  BY <1>3, <1>6, RollbackKeeps DEF Check
<1>7. CASE me.op = "cancel"
  BY <1>3, <1>4, <1>7, RollbackKeeps DEF Check
<1> QED BY <1>2, <1>5, <1>6, <1>7

\* A number that was not given out yet, drawn from loaded settings, is the next one.
LEMMA DrawnIsNext ==
    ASSUME PostingInv, NEW c \in Clients, session[c].pc = "number",
           LET kind == KindOf(session[c].op)
           IN  ~\E k \in 1..Len(sequences[kind].given) :
                   sequences[kind].given[k] = Drawn(session[c])
    PROVE  Drawn(session[c]) = sequences[KindOf(session[c].op)].last + 1
<1> DEFINE me == session[c]
           kind == KindOf(me.op)
           last == sequences[kind].last
<1>1. me \in OpenSession /\ Consistent(me, sequences) /\ kind \in Kinds /\ last \in Nat
  BY Undrawn
<1>2. /\ last = Len(sequences[kind].given)
      /\ \A k \in 1..last : sequences[kind].given[k] = k
  BY <1>1 DEF PostingInv, NumbersGapless
<1>3. CASE me.op = "note"
  <2>1. kind = "note"
    BY <1>3 DEF KindOf
  <2> QED BY <1>1, <1>3, <2>1 DEF Drawn
<1>4. CASE me.op # "note"
  <2>1. Drawn(me) = 1 + me.loaded /\ me.loaded \in Nat /\ me.loaded <= last
    BY <1>1, <1>4 DEF Drawn, Consistent, OpenSession
  <2>2. Drawn(me) \notin 1..last
    BY <1>2
  <2> QED BY <1>1, <2>1, <2>2
<1> QED BY <1>3, <1>4

\* A number is drawn under the lock and passes the unique index as the next one only.
LEMMA NumberKeeps ==
    ASSUME PostingInv, NEW c \in Clients, Number(c)
    PROVE  PostingInv'
<1> DEFINE me == session[c]
           kind == KindOf(me.op)
           number == sequences[kind].last + 1
           next == [Goto(me, "commit") EXCEPT !.number = number]
<1>1. /\ me \in OpenSession /\ Consistent(me, sequences) /\ me.pc = "number"
      /\ kind \in Kinds /\ RowOf(kind) \in Rows /\ number \in Nat
  BY Undrawn DEF Number
<1>2. CASE Rollback(c)
  BY <1>2, RollbackKeeps
<1>3. CASE ~Rollback(c)
  <2>1. /\ session' = [session EXCEPT ![c] = next] /\ sequences' = sequences
        /\ \A b \in Clients \ {c} : ~HoldsRow(b, RowOf(kind))
    BY <1>3, DrawnIsNext DEF Number, Step
  <2>2. /\ next \in OpenSession /\ next.op = me.op /\ next.loaded = me.loaded
        /\ next.number = number /\ next.pc = "commit"
    BY <1>1 DEF Goto, OpenSession, Places
  <2>3. Consistent(next, sequences)
    BY <1>1, <2>2 DEF Consistent
  <2> HIDE DEF next
  <2>4. \A b \in Clients : session'[b] = IF b = c THEN next ELSE session[b]
    BY <2>1 DEF PostingInv, PostingTypeOK
  <2>5. PostingTypeOK'
    BY <2>1, <2>2, <2>4 DEF PostingInv, PostingTypeOK, OpenSession, Readable, Idle
  <2>6. NumbersGapless'
    BY <2>1 DEF PostingInv, NumbersGapless
  <2>7. AllConsistent'
    <3>1. OpenSession' = OpenSession
      BY DEF OpenSession, Readable
    <3> QED BY <2>1, <2>3, <2>4, <3>1 DEF PostingInv, AllConsistent, Consistent
  <2>8. OneHolder'
    <3> SUFFICES ASSUME NEW b \in Clients, NEW d \in Clients, NEW row \in Rows,
                        HoldsRow(b, row)', HoldsRow(d, row)', b # d
                 PROVE  FALSE
      BY DEF OneHolder
    <3>1. HoldsRow(c, row)' => row = RowOf(kind)
      BY <2>2, <2>4 DEF HoldsRow
    <3>2. \A e \in Clients \ {c} : HoldsRow(e, row)' <=> HoldsRow(e, row)
      BY <2>4 DEF HoldsRow, Active
    <3> QED BY <2>1, <3>1, <3>2 DEF PostingInv, OneHolder
  <2> QED BY <2>5, <2>6, <2>7, <2>8 DEF PostingInv
<1> QED BY <1>2, <1>3

\* The holder of the lock commits the next number.
LEMMA CommitKeeps ==
    ASSUME PostingInv, NEW c \in Clients, Commit(c)
    PROVE  PostingInv'
<1> DEFINE me == session[c]
           kind == KindOf(me.op)
           row == sequences[kind]
           new == [last |-> me.number, given |-> Append(row.given, me.number)]
<1>1. me \in OpenSession /\ Consistent(me, sequences) /\ kind \in Kinds /\ RowOf(kind) \in Rows
  BY IdleIsNotOpen, KindType DEF Commit, PostingInv, PostingTypeOK, AllConsistent, OpenSession
<1>2. /\ session' = [session EXCEPT ![c] = Idle]
      /\ sequences' = IF me.number = 0 THEN sequences ELSE [sequences EXCEPT ![kind] = new]
  BY DEF Commit
<1>3. CASE me.number = 0
  BY <1>2, <1>3, QuietStep, IdleIsNotOpen
<1>4. CASE me.number # 0
  <2>1. /\ row.last \in Nat /\ row.given \in Seq(Nat)
        /\ row.last = Len(row.given) /\ me.number = row.last + 1
        /\ \A k \in 1..Len(row.given) : row.given[k] = k
    BY <1>1, <1>4 DEF PostingInv, PostingTypeOK, NumbersGapless, Consistent
  <2>2. /\ new.last = row.last + 1 /\ new.given \in Seq(Nat)
        /\ Len(new.given) = new.last
        /\ \A k \in 1..Len(new.given) : new.given[k] = k
    BY <2>1
  <2>3. new \in [last : Nat, given : Seq(Nat)]
    BY <2>1, <2>2
  <2> HIDE DEF new
  <2>4. /\ \A k \in Kinds : sequences'[k] = IF k = kind THEN new ELSE sequences[k]
        /\ sequences' \in [Kinds -> [last : Nat, given : Seq(Nat)]]
    BY <1>1, <1>2, <1>4, <2>3 DEF PostingInv, PostingTypeOK
  <2>5. \A b \in Clients : session'[b] = IF b = c THEN Idle ELSE session[b]
    BY <1>2 DEF PostingInv, PostingTypeOK
  <2>6. PostingTypeOK'
    BY <1>2, <2>4, <2>5 DEF PostingInv, PostingTypeOK, OpenSession, Readable, Idle
  <2>7. NumbersGapless'
    BY <2>2, <2>4 DEF PostingInv, NumbersGapless
  <2>8. AllConsistent'
    <3> SUFFICES ASSUME NEW b \in Clients, session'[b] \in OpenSession
                 PROVE  Consistent(session'[b], sequences')
      BY DEF AllConsistent, OpenSession, Readable
    <3>1. b # c /\ session'[b] = session[b] /\ session[b] \in OpenSession
      BY <2>5, IdleIsNotOpen
    <3>2. Consistent(session[b], sequences) /\ KindOf(session[b].op) \in Kinds
          /\ session[b].loaded \in Nat
      BY <3>1, KindType DEF PostingInv, AllConsistent, OpenSession
    <3>3. CASE KindOf(session[b].op) = kind
      <4>1. HoldsRow(c, RowOf(kind))
        BY <1>1, <1>4, IdleIsNotOpen DEF HoldsRow, Active
      <4>2. ~HoldsRow(b, RowOf(kind))
        BY <1>1, <3>1, <4>1 DEF PostingInv, OneHolder
      <4>3. session[b].number = 0
        BY <3>1, <3>3, <4>2, IdleIsNotOpen DEF HoldsRow, Active
      <4> QED BY <2>1, <2>2, <2>4, <3>1, <3>2, <3>3, <4>3 DEF Consistent
    <3>4. CASE KindOf(session[b].op) # kind
      BY <2>4, <3>1, <3>2, <3>4 DEF Consistent
    <3> QED BY <3>3, <3>4
  <2>9. OneHolder'
    BY <2>5, IdleIsNotOpen DEF PostingInv, OneHolder, HoldsRow, Active
  <2> QED BY <2>6, <2>7, <2>8, <2>9 DEF PostingInv
<1> QED BY <1>3, <1>4

\* Closing the period marks the open sessions and nothing else of what matters here.
LEMMA ClosePeriodKeeps ==
    ASSUME PostingInv, ClosePeriod
    PROVE  PostingInv'
<1>1. /\ sequences' = sequences /\ DOMAIN session' = Clients
      /\ \A c \in Clients : session'[c] = IF Active(c) THEN [session[c] EXCEPT !.late = TRUE]
                                          ELSE session[c]
  BY DEF ClosePeriod
<1>2. ASSUME NEW c \in Clients
      PROVE  \/ session[c] = Idle /\ session'[c] = Idle
             \/ /\ session[c] \in OpenSession /\ session'[c] \in OpenSession
                /\ session'[c].pc = session[c].pc /\ session'[c].op = session[c].op
                /\ session'[c].loaded = session[c].loaded
                /\ session'[c].number = session[c].number
  <2>1. CASE session[c] = Idle
    BY <1>1, <2>1, IdleIsNotOpen DEF Active
  <2>2. CASE session[c] \in OpenSession
    <3>1. session'[c] = [session[c] EXCEPT !.late = TRUE]
      BY <1>1, <2>2, IdleIsNotOpen DEF Active
    <3> QED BY <2>2, <3>1 DEF OpenSession
  <2> QED BY <2>1, <2>2 DEF PostingInv, PostingTypeOK
<1>3. PostingTypeOK'
  BY <1>1, <1>2 DEF PostingInv, PostingTypeOK, OpenSession, Readable, Idle
<1>4. NumbersGapless'
  BY <1>1 DEF PostingInv, NumbersGapless
<1>5. AllConsistent'
  <2> SUFFICES ASSUME NEW c \in Clients, session'[c] \in OpenSession
               PROVE  Consistent(session'[c], sequences')
    BY DEF AllConsistent, OpenSession, Readable
  <2> QED BY <1>1, <1>2, IdleIsNotOpen DEF PostingInv, AllConsistent, Consistent
<1>6. OneHolder'
  BY <1>1, <1>2 DEF PostingInv, OneHolder, HoldsRow, Active
<1> QED BY <1>3, <1>4, <1>5, <1>6 DEF PostingInv

-----------------------------------------------------------------------------
\* At the start no number is given out.
LEMMA PostingStarts == Init => PostingInv
<1> SUFFICES ASSUME Init PROVE PostingInv
  OBVIOUS
<1>1. PostingTypeOK
  BY DEF Init, PostingTypeOK, Kinds
<1>2. NumbersGapless
  BY DEF Init, NumbersGapless, Kinds
<1>3. AllConsistent
  BY IdleIsNotOpen DEF Init, AllConsistent
<1>4. OneHolder
  BY IdleIsNotOpen DEF Init, OneHolder, HoldsRow, Active
<1> QED BY <1>1, <1>2, <1>3, <1>4 DEF PostingInv

\* Every step keeps the invariant.
LEMMA PostingStep ==
    ASSUME PostingInv, [Next]_vars
    PROVE  PostingInv'
<1>1. ASSUME NEW c \in Clients, Open(c)
      PROVE  PostingInv'
  BY <1>1, OpenKeeps
<1>2. ASSUME NEW c \in Clients, Proceed(c) \/ Stock(c) \/ Number(c) \/ Disconnect(c)
      PROVE  PostingInv'
  BY <1>2, SettingsKeeps, CheckKeeps, CommitKeeps, StockKeeps, NumberKeeps, RollbackKeeps
     DEF Proceed, Disconnect
<1>3. CASE ClosePeriod
  BY <1>3, ClosePeriodKeeps
<1>4. CASE UNCHANGED vars
  BY <1>4 DEF vars, PostingInv, PostingTypeOK, NumbersGapless, AllConsistent, Consistent,
              OneHolder, HoldsRow, Active, OpenSession, Readable
<1> QED BY <1>1, <1>2, <1>3, <1>4 DEF Next

\* Whatever overlaps, fails or disconnects, numbers are given 1, 2, 3, ... in the order of
\* commits, for any number of documents, sessions and requests.
THEOREM NumbersStayGapless == Spec => []NumbersGapless
<1>1. PostingInv => NumbersGapless
  BY DEF PostingInv
<1> QED BY <1>1, PostingStarts, PostingStep, PTL DEF Spec

-----------------------------------------------------------------------------
(* Nobody waits on everybody: the locks are taken in one order.            *)

\* What a may not do until b ends: write the balance row b has written, or draw from the
\* settings row b has drawn from.
WaitsFor(a, b) ==
    /\ a # b
    /\ \/ session[a].pc = "stock" /\ HoldsStock(b)
       \/ session[a].pc = "number" /\ HoldsRow(b, RowOf(KindOf(session[a].op)))

\* A session that waits for a settings row waits for one whose only step left is its commit.
LEMMA HoldersOfNumbersCommit ==
    ASSUME PostingInv, NEW b \in Clients, NEW row, HoldsRow(b, row)
    PROVE  session[b].pc = "commit"
<1>1. session[b] \in OpenSession
  BY DEF HoldsRow, Active, Idle, PostingInv, PostingTypeOK
<1> QED BY <1>1 DEF HoldsRow, PostingInv, AllConsistent, Consistent

\* Requests on the journal and the invoices never block each other in a ring, however many
\* there are: of two that wait one for the other, the first waits for stock and the second
\* for a number, and the one both wait for in the end waits for nobody.
THEOREM NobodyWaitsInARing ==
    Spec => []\A a, b, c \in Clients :
                 WaitsFor(a, b) /\ WaitsFor(b, c) =>
                     /\ session[a].pc = "stock" /\ session[b].pc = "number"
                     /\ session[c].pc = "commit"
                     /\ \A d \in Clients : ~WaitsFor(c, d)
<1> DEFINE NoRing == \A a, b, c \in Clients :
                         WaitsFor(a, b) /\ WaitsFor(b, c) =>
                             /\ session[a].pc = "stock" /\ session[b].pc = "number"
                             /\ session[c].pc = "commit"
                             /\ \A d \in Clients : ~WaitsFor(c, d)
<1>1. ASSUME PostingInv PROVE NoRing
  <2> SUFFICES ASSUME NEW a \in Clients, NEW b \in Clients, NEW c \in Clients,
                      WaitsFor(a, b), WaitsFor(b, c)
               PROVE  /\ session[a].pc = "stock" /\ session[b].pc = "number"
                      /\ session[c].pc = "commit"
                      /\ \A d \in Clients : ~WaitsFor(c, d)
    OBVIOUS
  <2>1. session[b].pc \in {"stock", "number"}
    BY DEF WaitsFor
  <2>2. session[a].pc = "stock" /\ HoldsStock(b)
    BY <1>1, <2>1, HoldersOfNumbersCommit DEF WaitsFor
  <2>3. session[b].pc = "number" /\ HoldsRow(c, RowOf(KindOf(session[b].op)))
    BY <2>2 DEF WaitsFor, HoldsStock
  <2>4. session[c].pc = "commit"
    BY <1>1, <2>3, HoldersOfNumbersCommit
  <2> QED BY <2>2, <2>3, <2>4 DEF WaitsFor
<1>2. PostingInv => NoRing
  BY <1>1
<1> HIDE DEF NoRing
<1>3. Spec => []NoRing
  BY <1>2, PostingStarts, PostingStep, PTL DEF Spec
<1> QED BY <1>3 DEF NoRing

-----------------------------------------------------------------------------
(* What overlapping requests can spoil: the inductive invariant.           *)

EntryRow == [status : {"DRAFT", "POSTED", "REVERSED"}, key : Documents \cup {NoDocument},
             reverses : Nat]
DocumentRow == [status : {"DRAFT", "POSTED", "CANCELLED"}, issued : Int]

\* Entries reverse earlier ones, and an entry of a document was never a draft.
RowsOK ==
    /\ entries \in Seq(EntryRow)
    /\ documents \in [Documents -> DocumentRow]
    /\ \A n \in 1..Len(entries) :
          /\ entries[n].reverses < n
          /\ entries[n].key # NoDocument => entries[n].status # "DRAFT"

Keyed(es, d) == {n \in 1..Len(es) : es[n].key = d}
PostedOf(ds) == {d \in Documents : ds[d].status = "POSTED"}

\* What an open request has read and keeps in memory, by operation and place.
Shape(s, es) ==
    /\ IF s.op \in {"post", "cancel", "drop"}
       THEN s.document \in Documents /\ Doc(s.document) \in s.reads
       ELSE s.document = NoDocument
    /\ s.op = "post" => Customer \in s.reads
    /\ s.entry \in 0..Len(es)
    /\ s.entry # 0 => Ent(s.entry) \in s.reads /\ s.op \in {"reverse", "confirm", "cancel"}
    /\ s.op \in {"reverse", "confirm"} => s.entry # 0
    /\ s.op = "confirm" => es[s.entry].key = NoDocument
    /\ s.op = "cancel" /\ s.entry # 0 => es[s.entry].key = s.document
    /\ s.pc = "stock" => s.op \in {"post", "cancel"}
    /\ s.pc \in {"settings", "number"} \/ s.number # 0 => s.op \notin {"drop", "confirm"}
    /\ s.op = "cancel" => (s.entry # 0 <=> s.pc = "number" \/ s.number # 0)
    /\ s.op = "reverse" /\ s.pc = "commit" => s.number # 0
    /\ s.op = "post" /\ s.pc = "commit" /\ s.number = 0 => Keyed(es, s.document) # {}

\* What it read is still so, unless a commit changed it meanwhile.
Fresh(s, es, ds, rd) ==
    /\ s.op \in {"post", "drop"} /\ Doc(s.document) \notin rd =>
           ds[s.document].status = "DRAFT"
    /\ s.op = "cancel" /\ Doc(s.document) \notin rd => ds[s.document].status = "POSTED"
    /\ s.op = "post" /\ Customer \notin rd => Cardinality(PostedOf(ds)) < CreditLimit
    /\ s.op = "confirm" /\ Ent(s.entry) \notin rd => es[s.entry].status = "DRAFT"
    /\ s.op \in {"reverse", "cancel"} /\ s.entry # 0 /\ Ent(s.entry) \notin rd =>
           es[s.entry].status = "POSTED"
    /\ s.op = "cancel" /\ s.pc = "commit" /\ s.entry = 0 /\ Doc(s.document) \notin rd =>
           \A n \in Keyed(es, s.document) : es[n].status = "REVERSED"

\* A request opened since the period was closed gets no entry posted.
OnTime(s, p) ==
    p = "CLOSED" /\ ~s.late =>
        /\ s.pc = "number" => s.op # "post"
        /\ s.pc = "commit" =>
               s.op # "confirm" /\ (s.op \in {"post", "cancel", "reverse"} => s.number = 0)

Knows(s, es, ds, rd, p) == Shape(s, es) /\ Fresh(s, es, ds, rd) /\ OnTime(s, p)

OpenKnow ==
    \A c \in Clients : session[c] \in OpenSession =>
        Knows(session[c], entries, documents, raced, period)

\* DocumentsAgree for one document.
Agrees(d, es, ds) ==
    /\ ds[d].status = "DRAFT" => ds[d].issued = 0 /\ Keyed(es, d) = {}
    /\ ds[d].status = "POSTED" => ds[d].issued = 1 /\ \E n \in Nat : Keyed(es, d) = {n}
    /\ ds[d].status = "CANCELLED" =>
           ds[d].issued = 0 /\ \A n \in Keyed(es, d) : es[n].status = "REVERSED"

\* UndoneOnce for one entry.
Undoings(es, n) == {m \in 1..Len(es) : es[m].reverses = n}
Once(n, es) ==
    IF es[n].status = "REVERSED" THEN \E m \in Nat : Undoings(es, n) = {m}
    ELSE Undoings(es, n) = {}

\* LimitNeedsOverlap; only so many documents were ever posted.
WithinLimit(ds, rd) ==
    /\ IsFiniteSet(PostedOf(ds))
    /\ Customer \notin rd => Cardinality(PostedOf(ds)) <= CreditLimit

OverlapInv ==
    /\ RowsOK
    /\ OpenKnow
    /\ \A d \in Documents : Doc(d) \notin raced => Agrees(d, entries, documents)
    /\ \A n \in 1..Len(entries) : Ent(n) \notin raced => Once(n, entries)
    /\ WithinLimit(documents, raced)

\* What it says of the properties.
LEMMA OverlapInvSuffices ==
    ASSUME OverlapInv
    PROVE  DocumentsAgree /\ UndoneOnce /\ LimitNeedsOverlap
<1>1. DocumentsAgree
  <2> SUFFICES ASSUME NEW d \in Documents, Doc(d) \notin raced
               PROVE  CASE documents[d].status = "DRAFT" ->
                               documents[d].issued = 0 /\ EntriesFor(d) = {}
                        [] documents[d].status = "POSTED" ->
                               documents[d].issued = 1 /\ Cardinality(EntriesFor(d)) = 1
                        [] documents[d].status = "CANCELLED" ->
                               /\ documents[d].issued = 0
                               /\ \A n \in EntriesFor(d) : entries[n].status = "REVERSED"
    BY DEF DocumentsAgree
  <2>1. Agrees(d, entries, documents) /\ EntriesFor(d) = Keyed(entries, d)
    BY DEF OverlapInv, EntriesFor, Keyed
  <2>2. documents[d].status \in {"DRAFT", "POSTED", "CANCELLED"}
    BY DEF OverlapInv, RowsOK, DocumentRow
  <2>3. documents[d].status = "POSTED" => Cardinality(EntriesFor(d)) = 1
    BY <2>1, FS_Singleton DEF Agrees
  <2> HIDE DEF DocumentsAgree
  <2>4. CASE documents[d].status = "DRAFT"
    BY <2>1, <2>4 DEF Agrees
  <2>5. CASE documents[d].status = "POSTED"
    BY <2>1, <2>3, <2>5 DEF Agrees
  <2>6. CASE documents[d].status = "CANCELLED"
    BY <2>1, <2>6 DEF Agrees
  <2> QED BY <2>2, <2>4, <2>5, <2>6
<1>2. UndoneOnce
  <2> SUFFICES ASSUME NEW n \in 1..Len(entries), Ent(n) \notin raced
               PROVE  Cardinality(Undoings(entries, n))
                          = IF entries[n].status = "REVERSED" THEN 1 ELSE 0
    BY DEF UndoneOnce, Undoings
  <2>1. Once(n, entries)
    BY DEF OverlapInv
  <2> QED BY <2>1, FS_Singleton, FS_EmptySet DEF Once
<1>3. LimitNeedsOverlap
  BY DEF OverlapInv, WithinLimit, LimitNeedsOverlap, Posted, PostedOf
<1> QED BY <1>1, <1>2, <1>3

\* A step of one session that leaves every row as it is.
LEMMA QuietKeepsKnowledge ==
    ASSUME PostingInv, OverlapInv, NEW c \in Clients, NEW next \in OpenSession \cup {Idle},
           session' = [session EXCEPT ![c] = next],
           entries' = entries, documents' = documents, raced' = raced, period' = period,
           next \in OpenSession => Knows(next, entries, documents, raced, period)
    PROVE  OverlapInv'
<1>1. \A b \in Clients : session'[b] = IF b = c THEN next ELSE session[b]
  BY DEF PostingInv, PostingTypeOK
<1>2. OpenKnow'
  <2>1. OpenSession' = OpenSession
    BY DEF OpenSession, Readable
  <2> QED BY <1>1, <2>1 DEF OverlapInv, OpenKnow
<1>3. RowsOK'
  BY DEF OverlapInv, RowsOK, EntryRow, DocumentRow
<1>4. \A d \in Documents : (Doc(d) \notin raced => Agrees(d, entries, documents))'
  BY DEF OverlapInv, Agrees, Keyed
<1>5. \A n \in 1..Len(entries') : (Ent(n) \notin raced => Once(n, entries))'
  BY DEF OverlapInv, Once, Undoings
<1>6. WithinLimit(documents, raced)'
  BY DEF OverlapInv, WithinLimit
<1> QED BY <1>2, <1>3, <1>4, <1>5, <1>6 DEF OverlapInv

\* What is known of an open session.
LEMMA WhatIsKnown ==
    ASSUME PostingInv, OverlapInv, NEW c \in Clients, session[c].pc # "idle"
    PROVE  /\ session[c] \in OpenSession
           /\ Consistent(session[c], sequences)
           /\ Knows(session[c], entries, documents, raced, period)
<1>1. session[c] \in OpenSession
  BY IdleIsNotOpen DEF PostingInv, PostingTypeOK
<1> QED BY <1>1 DEF PostingInv, AllConsistent, OverlapInv, OpenKnow

\* Opening a request: it is given what it has just read.
LEMMA BeginKnows ==
    ASSUME PostingInv, OverlapInv, NEW c \in Clients, NEW op \in Operations,
           NEW d \in Documents \cup {NoDocument}, NEW n \in Int,
           NEW reads \in SUBSET Readable, Begin(c, op, d, n, reads),
           Knows(Started(op, d, n, reads), entries, documents, raced, period)
    PROVE  OverlapInv'
<1> DEFINE next == Started(op, d, n, reads)
<1>1. next \in OpenSession
  BY DEF Started, Steps, OpenSession, Places, Operations
<1>2. /\ session' = [session EXCEPT ![c] = next]
      /\ entries' = entries /\ documents' = documents /\ raced' = raced /\ period' = period
  BY DEF Begin
<1> HIDE DEF next
<1> QED BY <1>1, <1>2, QuietKeepsKnowledge DEF next

\* post_invoice and cancel_invoice are given the status they tested.
LEMMA OpenDocumentKnows ==
    ASSUME PostingInv, OverlapInv, NEW c \in Clients, NEW d \in Documents,
           OpenPost(c, d) \/ OpenCancel(c, d)
    PROVE  OverlapInv'
<1>1. d # NoDocument /\ d \in Documents \cup {NoDocument} /\ 0 \in Int
  BY NoDocumentAssumption
<1>2. Len(entries) \in Nat
  BY LenProperties DEF OverlapInv, RowsOK
<1>3. {Doc(d), Customer} \in SUBSET Readable /\ {Doc(d)} \in SUBSET Readable
  BY DEF Readable
<1>4. CASE OpenPost(c, d)
  <2> DEFINE next == Started("post", d, 0, {Doc(d), Customer})
  <2>1. /\ next.op = "post" /\ next.pc = "stock" /\ next.document = d /\ next.entry = 0
        /\ next.number = 0 /\ next.reads = {Doc(d), Customer}
    BY DEF Started, Steps
  <2>2. documents[d].status = "DRAFT" /\ Cardinality(PostedOf(documents)) < CreditLimit
    BY <1>4 DEF OpenPost, Posted, PostedOf
  <2>3. Knows(next, entries, documents, raced, period)
    <3> HIDE DEF next
    <3> QED BY <1>2, <2>1, <2>2 DEF Knows, Shape, Fresh, OnTime
  <2> QED BY <1>1, <1>3, <1>4, <2>3, BeginKnows DEF OpenPost, Operations
<1>5. CASE documents[d].status = "POSTED" /\ Begin(c, "cancel", d, 0, {Doc(d)})
  <2> DEFINE next == Started("cancel", d, 0, {Doc(d)})
  <2>1. /\ next.op = "cancel" /\ next.pc = "stock" /\ next.document = d /\ next.entry = 0
        /\ next.number = 0 /\ next.reads = {Doc(d)}
    BY DEF Started, Steps
  <2>2. Knows(next, entries, documents, raced, period)
    <3> HIDE DEF next
    <3> QED BY <1>2, <1>5, <2>1 DEF Knows, Shape, Fresh, OnTime
  <2> QED BY <1>1, <1>3, <1>5, <2>2, BeginKnows DEF Operations
<1>6. CASE documents[d].status = "DRAFT" /\ Begin(c, "drop", d, 0, {Doc(d)})
  <2> DEFINE next == Started("drop", d, 0, {Doc(d)})
  <2>1. /\ next.op = "drop" /\ next.pc = "commit" /\ next.document = d /\ next.entry = 0
        /\ next.number = 0 /\ next.reads = {Doc(d)}
    BY DEF Started, Steps
  <2>2. Knows(next, entries, documents, raced, period)
    <3> HIDE DEF next
    <3> QED BY <1>2, <1>6, <2>1 DEF Knows, Shape, Fresh, OnTime
  <2> QED BY <1>1, <1>3, <1>6, <2>2, BeginKnows DEF Operations
<1> QED BY <1>4, <1>5, <1>6 DEF OpenCancel

\* The reversal or the posting of an entry is given the status it tested.
LEMMA OpenEntryKnows ==
    ASSUME PostingInv, OverlapInv, NEW c \in Clients, NEW n \in 1..Len(entries),
           OpenReverse(c, n) \/ OpenConfirm(c, n)
    PROVE  OverlapInv'
<1>1. n \in Int /\ {Ent(n)} \in SUBSET Readable
  BY DEF Readable
<1>2. Len(entries) \in Nat /\ n \in 0..Len(entries) /\ n # 0
  BY LenProperties DEF OverlapInv, RowsOK
<1>3. CASE OpenReverse(c, n)
  <2> DEFINE next == Started("reverse", NoDocument, n, {Ent(n)})
  <2>1. /\ next.op = "reverse" /\ next.pc = "settings" /\ next.document = NoDocument
        /\ next.entry = n /\ next.number = 0 /\ next.reads = {Ent(n)}
    BY DEF Started, Steps
  <2>2. Knows(next, entries, documents, raced, period)
    <3> HIDE DEF next
    <3> QED BY <1>2, <1>3, <2>1 DEF Knows, Shape, Fresh, OnTime, OpenReverse
  <2> QED BY <1>1, <1>3, <2>2, BeginKnows DEF OpenReverse, Operations
<1>4. CASE OpenConfirm(c, n)
  <2> DEFINE next == Started("confirm", NoDocument, n, {Ent(n)})
  <2>1. /\ next.op = "confirm" /\ next.pc = "check" /\ next.document = NoDocument
        /\ next.entry = n /\ next.number = 0 /\ next.reads = {Ent(n)}
    BY DEF Started, Steps
  <2>2. entries[n].key = NoDocument /\ entries[n].status = "DRAFT"
    BY <1>4 DEF OpenConfirm, OverlapInv, RowsOK
  <2>3. Knows(next, entries, documents, raced, period)
    <3> HIDE DEF next
    <3> QED BY <1>2, <2>1, <2>2 DEF Knows, Shape, Fresh, OnTime
  <2> QED BY <1>1, <1>4, <2>3, BeginKnows DEF OpenConfirm, Operations
<1> QED BY <1>3, <1>4

\* A new draft entry, invoice or credit note rests on nothing that was read.
LEMMA OpenKnows ==
    ASSUME PostingInv, OverlapInv, NEW c \in Clients, Open(c)
    PROVE  OverlapInv'
<1>1. ASSUME NEW kind \in Kinds, OpenCreate(c, kind)
      PROVE  OverlapInv'
  <2> DEFINE next == Started(kind, NoDocument, 0, {})
  <2>1. /\ next.op = kind /\ next.pc \in {"settings", "number"} /\ next.document = NoDocument
        /\ next.entry = 0 /\ next.number = 0
    BY DEF Started, Steps, Kinds
  <2>2. kind \in {"entry", "invoice", "note"} /\ kind \in Operations
    BY DEF Kinds, Operations
  <2>3. Len(entries) \in Nat
    BY LenProperties DEF OverlapInv, RowsOK
  <2>4. Knows(next, entries, documents, raced, period)
    <3> HIDE DEF next
    <3> QED BY <2>1, <2>2, <2>3 DEF Knows, Shape, Fresh, OnTime
  <2> QED BY <1>1, <2>2, <2>4, BeginKnows DEF OpenCreate
<1> QED BY <1>1, OpenDocumentKnows, OpenEntryKnows DEF Open

\* A rollback forgets what was read.
LEMMA RollbackKnows ==
    ASSUME PostingInv, OverlapInv, NEW c \in Clients, Rollback(c)
    PROVE  OverlapInv'
  BY QuietKeepsKnowledge, IdleIsNotOpen DEF Rollback

\* A step to another place, with what is known there.
LEMMA StepKnows ==
    ASSUME PostingInv, OverlapInv, NEW c \in Clients, NEW next \in OpenSession,
           Step(c, next), Knows(next, entries, documents, raced, period)
    PROVE  OverlapInv'
  BY QuietKeepsKnowledge DEF Step

\* Waiting for the stock row, and loading the settings, change nothing that is known.
LEMMA StockKnows ==
    ASSUME PostingInv, OverlapInv, NEW c \in Clients, Stock(c)
    PROVE  OverlapInv'
<1> DEFINE me == session[c]
           next == Goto(me, "settings")
<1>1. /\ me \in OpenSession /\ Consistent(me, sequences) /\ me.pc = "stock"
      /\ Knows(me, entries, documents, raced, period) /\ me.number = 0
  BY WhatIsKnown, Undrawn DEF Stock
<1>2. /\ next \in OpenSession /\ next.pc = "settings" /\ next.op = me.op /\ next.late = me.late
      /\ next.document = me.document /\ next.entry = me.entry /\ next.number = 0
      /\ next.reads = me.reads
  BY <1>1 DEF Goto, OpenSession, Places
<1>3. Step(c, next)
  BY DEF Stock
<1> HIDE DEF me, next
<1>4. Shape(next, entries)
  BY <1>1, <1>2 DEF Knows, Shape
<1>5. Fresh(next, entries, documents, raced)
  BY <1>1, <1>2 DEF Knows, Fresh
<1>6. OnTime(next, period)
  BY <1>2 DEF OnTime
<1> QED BY <1>2, <1>3, <1>4, <1>5, <1>6, StepKnows DEF Knows

\* Loading the settings leads to the search for the document's entry, or to the number.
LEMMA SettingsKnows ==
    ASSUME PostingInv, OverlapInv, NEW c \in Clients, Settings(c)
    PROVE  OverlapInv'
<1> DEFINE me == session[c]
           place == IF me.op \in {"post", "cancel"} THEN "check" ELSE "number"
           last == sequences[KindOf(me.op)].last
           next == [Goto(me, place) EXCEPT !.loaded = last]
<1>1. /\ me \in OpenSession /\ Consistent(me, sequences) /\ me.pc = "settings" /\ last \in Nat
      /\ Knows(me, entries, documents, raced, period) /\ me.number = 0
  BY WhatIsKnown, Undrawn DEF Settings
<1>2. /\ place \in {"check", "number"}
      /\ place = "check" => me.op \in {"post", "cancel"}
      /\ place = "number" => me.op \notin {"post", "cancel"}
  OBVIOUS
<1>3. Step(c, next)
  BY DEF Settings
<1> HIDE DEF place, last
<1>4. /\ next \in OpenSession /\ next.pc = place /\ next.op = me.op /\ next.late = me.late
      /\ next.document = me.document /\ next.entry = me.entry /\ next.number = 0
      /\ next.reads = me.reads
  BY <1>1, <1>2 DEF Goto, OpenSession, Places
<1> HIDE DEF me, next
<1>5. Shape(next, entries)
  BY <1>1, <1>2, <1>4 DEF Knows, Shape
<1>6. Fresh(next, entries, documents, raced)
  BY <1>1, <1>2, <1>4 DEF Knows, Fresh
<1>7. OnTime(next, period)
  BY <1>2, <1>4 DEF OnTime
<1> QED BY <1>3, <1>4, <1>5, <1>6, <1>7, StepKnows DEF Knows

\* What the period test and the search for the document's entry add to what is known.
LEMMA CheckKnows ==
    ASSUME PostingInv, OverlapInv, NEW c \in Clients, Check(c)
    PROVE  OverlapInv'
<1> DEFINE me == session[c]
           key == EntriesFor(me.document)
           undone == {n \in key : entries[n].status = "POSTED"}
<1>1. /\ me \in OpenSession /\ Consistent(me, sequences) /\ me.pc = "check" /\ me.number = 0
      /\ Shape(me, entries) /\ Fresh(me, entries, documents, raced) /\ OnTime(me, period)
  BY WhatIsKnown, Undrawn DEF Check, Knows
<1>2. me.op \in {"post", "confirm", "cancel"}
  BY <1>1 DEF Consistent
<1>3. Len(entries) \in Nat /\ key = Keyed(entries, me.document)
  BY LenProperties DEF OverlapInv, RowsOK, EntriesFor, Keyed
<1>4. ASSUME NEW pc \in {"commit", "number"}, Step(c, Goto(me, pc)),
             \/ me.op = "post" /\ pc = "commit" /\ key # {}
             \/ me.op = "post" /\ pc = "number" /\ period # "CLOSED"
             \/ me.op = "confirm" /\ pc = "commit" /\ period # "CLOSED"
             \/ me.op = "cancel" /\ pc = "commit" /\ undone = {}
      PROVE  OverlapInv'
  <2> DEFINE next == Goto(me, pc)
  <2>1. /\ next \in OpenSession /\ next.pc = pc /\ next.op = me.op /\ next.late = me.late
        /\ next.document = me.document /\ next.entry = me.entry /\ next.number = 0
        /\ next.reads = me.reads
    BY <1>1 DEF Goto, OpenSession, Places
  <2>2. me.op = "cancel" /\ pc = "commit" =>
            \A n \in key : n \in 1..Len(entries) /\ entries[n].status = "REVERSED"
    <3> SUFFICES ASSUME undone = {}, me.op = "cancel", NEW n \in key
                 PROVE  n \in 1..Len(entries) /\ entries[n].status = "REVERSED"
      BY <1>4
    <3>1. n \in 1..Len(entries) /\ entries[n].key # NoDocument
      BY <1>1, <1>3, NoDocumentAssumption DEF Keyed, Shape
    <3>2. entries[n] \in EntryRow /\ entries[n].status # "DRAFT"
      <4>1. entries \in Seq(EntryRow)
        BY DEF OverlapInv, RowsOK
      <4> QED BY <3>1, <4>1, ElementOfSeq DEF OverlapInv, RowsOK
    <3> QED BY <3>1, <3>2 DEF EntryRow
  <2> HIDE DEF next, me, key, undone
  <2>3. Shape(next, entries)
    BY <1>1, <1>3, <1>4, <2>1 DEF Shape
  <2>4. Fresh(next, entries, documents, raced)
    BY <1>1, <1>3, <1>4, <2>1, <2>2 DEF Fresh, Shape
  <2>5. OnTime(next, period)
    BY <1>1, <1>4, <2>1 DEF OnTime
  <2> QED BY <1>4, <2>1, <2>3, <2>4, <2>5, StepKnows DEF Knows, next
<1>5. ASSUME NEW n \in undone, me.op = "cancel",
             Step(c, [Goto(me, "number") EXCEPT !.entry = n, !.reads = @ \cup {Ent(n)}])
      PROVE  OverlapInv'
  <2> DEFINE next == [Goto(me, "number") EXCEPT !.entry = n, !.reads = @ \cup {Ent(n)}]
  <2>1. /\ n \in 1..Len(entries) /\ entries[n].status = "POSTED"
        /\ entries[n].key = me.document
    BY DEF EntriesFor
  <2>2. n \in Int /\ me.reads \cup {Ent(n)} \in SUBSET Readable
    BY <1>1, <2>1 DEF Readable, OpenSession
  <2>3. /\ next \in OpenSession /\ next.pc = "number" /\ next.op = me.op /\ next.late = me.late
        /\ next.document = me.document /\ next.entry = n /\ next.number = 0
        /\ next.reads = me.reads \cup {Ent(n)}
    BY <1>1, <2>2 DEF Goto, OpenSession, Places
  <2> HIDE DEF next, me, undone
  <2>4. n \in 0..Len(entries) /\ n # 0
    BY <1>3, <2>1
  <2>5. Shape(next, entries)
    BY <1>1, <1>5, <2>1, <2>3, <2>4 DEF Shape
  <2>6. Fresh(next, entries, documents, raced)
    BY <1>1, <1>5, <2>1, <2>3, <2>4 DEF Fresh
  <2>7. OnTime(next, period)
    BY <1>5, <2>3 DEF OnTime
  <2> QED BY <1>5, <2>3, <2>5, <2>6, <2>7, StepKnows DEF Knows, next
<1>6. CASE me.op = "post"
  BY <1>4, <1>6, RollbackKnows DEF Check
<1>7. CASE me.op = "confirm"
  BY <1>4, <1>7, RollbackKnows DEF Check
<1>8. CASE me.op = "cancel"
  BY <1>4, <1>5, <1>8, RollbackKnows DEF Check
<1> QED BY <1>2, <1>6, <1>7, <1>8

\* A number that is drawn passed the test of the period.
LEMMA NumberKnows ==
    ASSUME PostingInv, OverlapInv, NEW c \in Clients, Number(c)
    PROVE  OverlapInv'
<1> DEFINE me == session[c]
           next == [Goto(me, "commit") EXCEPT !.number = Drawn(me)]
<1>1. /\ me \in OpenSession /\ Consistent(me, sequences) /\ me.pc = "number" /\ me.number = 0
      /\ Shape(me, entries) /\ Fresh(me, entries, documents, raced) /\ OnTime(me, period)
      /\ sequences[KindOf(me.op)].last \in Nat
  BY WhatIsKnown, Undrawn DEF Number, Knows
<1>2. CASE Rollback(c)
  BY <1>2, RollbackKnows
<1>3. CASE ~Rollback(c)
  <2>1. /\ Step(c, next)
        /\ ~(me.op \in {"reverse", "cancel"} /\ period = "CLOSED")
        /\ Drawn(me) = sequences[KindOf(me.op)].last + 1
    BY <1>3, DrawnIsNext DEF Number
  <2>2. Drawn(me) \in Nat /\ Drawn(me) # 0
    BY <1>1, <2>1
  <2>3. /\ next \in OpenSession /\ next.pc = "commit" /\ next.op = me.op /\ next.late = me.late
        /\ next.document = me.document /\ next.entry = me.entry /\ next.number # 0
        /\ next.reads = me.reads
    BY <1>1, <2>2 DEF Goto, OpenSession, Places
  <2> HIDE DEF me, next
  <2>4. Shape(next, entries)
    BY <1>1, <2>3 DEF Shape
  <2>5. Fresh(next, entries, documents, raced)
    BY <1>1, <2>3 DEF Fresh, Shape
  <2>6. OnTime(next, period)
    BY <1>1, <2>1, <2>3 DEF OnTime, Shape
  <2> QED BY <2>1, <2>3, <2>4, <2>5, <2>6, StepKnows DEF Knows
<1> QED BY <1>2, <1>3

\* A request that is open when the period closes is late from then on.
LEMMA ClosePeriodKnows ==
    ASSUME PostingInv, OverlapInv, ClosePeriod
    PROVE  OverlapInv'
<1>1. /\ entries' = entries /\ documents' = documents /\ raced' = raced
      /\ \A c \in Clients : session'[c] = IF Active(c) THEN [session[c] EXCEPT !.late = TRUE]
                                          ELSE session[c]
  BY DEF ClosePeriod
<1>2. ASSUME NEW c \in Clients, session'[c] \in OpenSession
      PROVE  Knows(session'[c], entries, documents, raced, period')
  <2> DEFINE me == session[c]
             next == session'[c]
  <2>1. me \in OpenSession /\ Knows(me, entries, documents, raced, period)
    <3>1. me \in OpenSession
      BY <1>1, <1>2, IdleIsNotOpen DEF PostingInv, PostingTypeOK, Active
    <3> QED BY <3>1 DEF OverlapInv, OpenKnow
  <2>2. next = [me EXCEPT !.late = TRUE]
    BY <1>1, <2>1, IdleIsNotOpen DEF Active
  <2>3. /\ next.pc = me.pc /\ next.op = me.op /\ next.late = TRUE
        /\ next.document = me.document /\ next.entry = me.entry /\ next.number = me.number
        /\ next.reads = me.reads
    BY <2>1, <2>2 DEF OpenSession
  <2> HIDE DEF me, next
  <2>4. Shape(next, entries)
    BY <2>1, <2>3 DEF Knows, Shape
  <2>5. Fresh(next, entries, documents, raced)
    BY <2>1, <2>3 DEF Knows, Fresh
  <2>6. OnTime(next, period')
    BY <2>3 DEF OnTime
  <2> QED BY <2>4, <2>5, <2>6 DEF Knows, next
<1>3. OpenKnow'
  <2>1. OpenSession' = OpenSession
    BY DEF OpenSession, Readable
  <2> QED BY <1>1, <1>2, <2>1 DEF OpenKnow
<1>4. RowsOK'
  BY <1>1 DEF OverlapInv, RowsOK, EntryRow, DocumentRow
<1> QED BY <1>1, <1>3, <1>4 DEF OverlapInv, Agrees, Keyed, Once, Undoings, WithinLimit

-----------------------------------------------------------------------------
(* The commit of a session, and what it does to what others know.          *)

\* The entries before and after the commit of me: at most one more, at most one changed.
Committed(me, es, next) ==
    /\ next \in Seq(EntryRow)
    /\ Len(next) \in Nat /\ Len(es) \in Nat
    /\ IF me.number # 0 /\ KindOf(me.op) = "entry"
       THEN /\ Len(next) = Len(es) + 1
            /\ next[Len(es) + 1].status = IF me.op = "entry" THEN "DRAFT" ELSE "POSTED"
            /\ next[Len(es) + 1].key = IF me.op = "post" THEN me.document ELSE NoDocument
            /\ next[Len(es) + 1].reverses =
                   IF me.op \in {"reverse", "cancel"} THEN me.entry ELSE 0
       ELSE Len(next) = Len(es)
    /\ \A n \in 1..Len(es) :
          /\ n \in 1..Len(next)
          /\ next[n].key = es[n].key /\ next[n].reverses = es[n].reverses
          /\ next[n].status = IF n # me.entry THEN es[n].status
                              ELSE IF me.op = "confirm" THEN "POSTED" ELSE "REVERSED"

\* The entries after a commit are as Committed says.
LEMMA CommitEntries ==
    ASSUME PostingInv, OverlapInv, NEW c \in Clients, Commit(c)
    PROVE  Committed(session[c], entries, entries')
<1> DEFINE me == session[c]
           row == [status |-> IF me.op = "entry" THEN "DRAFT" ELSE "POSTED",
                   key |-> IF me.op = "post" THEN me.document ELSE NoDocument,
                   reverses |-> IF me.op \in {"reverse", "cancel"} THEN me.entry ELSE 0]
           changed(n) == [entries[n] EXCEPT !.status =
                             IF me.op = "confirm" THEN "POSTED" ELSE "REVERSED"]
           old == [n \in 1..Len(entries) |-> IF n # me.entry THEN entries[n] ELSE changed(n)]
<1>1. me \in OpenSession /\ Shape(me, entries)
  BY WhatIsKnown DEF Commit, Knows
<1>2. entries' = IF me.number # 0 /\ KindOf(me.op) = "entry" THEN Append(old, row) ELSE old
  BY DEF Commit, EntriesAfter
<1>3. /\ entries \in Seq(EntryRow) /\ Len(entries) \in Nat
      /\ \A n \in 1..Len(entries) : entries[n] \in EntryRow /\ entries[n].reverses < n
                                    /\ (entries[n].key # NoDocument => entries[n].status # "DRAFT")
  BY LenProperties, ElementOfSeq DEF OverlapInv, RowsOK
<1>4. row \in EntryRow
  <2>1. me.op = "post" => me.document \in Documents
    BY <1>1 DEF Shape
  <2>2. me.entry \in Nat
    BY <1>1, <1>3 DEF Shape
  <2> QED BY <2>1, <2>2 DEF EntryRow
<1>5. row.status = (IF me.op = "entry" THEN "DRAFT" ELSE "POSTED")
      /\ row.key = (IF me.op = "post" THEN me.document ELSE NoDocument)
      /\ row.reverses = (IF me.op \in {"reverse", "cancel"} THEN me.entry ELSE 0)
  OBVIOUS
<1>6. \A n \in 1..Len(entries) :
          /\ changed(n) \in EntryRow
          /\ changed(n).key = entries[n].key /\ changed(n).reverses = entries[n].reverses
          /\ changed(n).status = IF me.op = "confirm" THEN "POSTED" ELSE "REVERSED"
  BY <1>3 DEF EntryRow
<1> HIDE DEF row, changed
<1>7. \A n \in 1..Len(entries) : old[n] = IF n # me.entry THEN entries[n] ELSE changed(n)
  OBVIOUS
<1>8. old \in Seq(EntryRow) /\ Len(old) = Len(entries)
  BY <1>3, <1>6
<1> HIDE DEF old
<1>9. \A n \in 1..Len(entries) :
          /\ old[n].key = entries[n].key /\ old[n].reverses = entries[n].reverses
          /\ old[n].status = IF n # me.entry THEN entries[n].status
                              ELSE IF me.op = "confirm" THEN "POSTED" ELSE "REVERSED"
  BY <1>6, <1>7
<1>10. CASE me.number # 0 /\ KindOf(me.op) = "entry"
  <2>1. /\ entries' \in Seq(EntryRow) /\ Len(entries') = Len(entries) + 1
        /\ entries'[Len(entries) + 1] = row
        /\ \A n \in 1..Len(entries) : entries'[n] = old[n]
    BY <1>2, <1>3, <1>4, <1>8, <1>10, AppendProperties
  <2>2. \A n \in 1..Len(entries) : n \in 1..Len(entries')
    BY <1>3, <2>1
  <2>3. Len(entries') \in Nat
    BY <1>3, <2>1
  <2> QED BY <1>3, <1>5, <1>9, <1>10, <2>1, <2>2, <2>3 DEF Committed
<1>11. CASE ~(me.number # 0 /\ KindOf(me.op) = "entry")
  <2>1. entries' = old
    BY <1>2, <1>11
  <2> QED BY <1>3, <1>8, <1>9, <1>11, <2>1 DEF Committed
<1> QED BY <1>10, <1>11

\* The documents, and what is remembered of races.
LEMMA CommitDocuments ==
    ASSUME PostingInv, OverlapInv, NEW c \in Clients, Commit(c)
    PROVE  LET me == session[c] IN
           /\ documents' \in [Documents -> DocumentRow]
           /\ \A d \in Documents : d # me.document => documents'[d] = documents[d]
           /\ me.document \in Documents => documents'[me.document] = DocumentAfter(me, documents[me.document])
           /\ me.document \in Documents => me.op \in {"post", "cancel", "drop"}
<1> DEFINE me == session[c]
           d == me.document
<1>1. me \in OpenSession /\ Shape(me, entries)
  BY WhatIsKnown DEF Commit, Knows
<1>2. documents \in [Documents -> DocumentRow]
  BY DEF OverlapInv, RowsOK
<1>3. CASE d = NoDocument
  BY <1>2, <1>3, NoDocumentAssumption DEF Commit
<1>4. CASE d # NoDocument
  <2>1. d \in Documents /\ me.op \in {"post", "cancel", "drop"}
    BY <1>1, <1>4 DEF Shape
  <2>2. documents' = [documents EXCEPT ![d] = DocumentAfter(me, documents[d])]
    BY <1>4 DEF Commit
  <2>3. DocumentAfter(me, documents[d]) \in DocumentRow
    BY <1>2, <2>1 DEF DocumentAfter, DocumentRow
  <2> QED BY <1>2, <2>1, <2>2, <2>3
<1> QED BY <1>3, <1>4

\* What another open session has read of what changes is raced from then on.
LEMMA CommitRaces ==
    ASSUME PostingInv, OverlapInv, NEW c \in Clients, Commit(c)
    PROVE  /\ raced \subseteq raced'
           /\ \A b \in Clients \ {c} : session[b].pc # "idle" =>
                 LET read == session[b].reads IN
                 /\ \A d \in Documents : Doc(d) \in read /\ session[c].document = d => Doc(d) \in raced'
                 /\ \A n \in Nat \ {0} : Ent(n) \in read /\ session[c].entry = n => Ent(n) \in raced'
                 /\ Customer \in read /\ session[c].op = "post" => Customer \in raced'
<1>1. raced' = raced \cup (Changes(session[c]) \cap InUse(c))
  BY DEF Commit
<1>2. ASSUME NEW b \in Clients \ {c}, session[b].pc # "idle", NEW x \in session[b].reads
      PROVE  x \in InUse(c)
  BY <1>2 DEF InUse, Active
<1>3. /\ \A d \in Documents : session[c].document = d => Doc(d) \in Changes(session[c])
      /\ \A n \in Nat \ {0} : session[c].entry = n => Ent(n) \in Changes(session[c])
      /\ session[c].op = "post" => Customer \in Changes(session[c])
  BY NoDocumentAssumption DEF Changes
<1> QED BY <1>1, <1>2, <1>3

\* A document that only lost postings is within the limit as before.
LEMMA FewerPosted ==
    ASSUME OverlapInv, NEW ds, PostedOf(ds) \subseteq PostedOf(documents)
    PROVE  /\ IsFiniteSet(PostedOf(ds))
           /\ Cardinality(PostedOf(ds)) \in Nat /\ Cardinality(PostedOf(documents)) \in Nat
           /\ Cardinality(PostedOf(ds)) <= Cardinality(PostedOf(documents))
  BY FS_Subset, FS_CardinalityType DEF OverlapInv, WithinLimit

\* What another open request knows survives a commit: what the commit changed is raced.
LEMMA OthersKnow ==
    ASSUME PostingInv, OverlapInv, NEW c \in Clients, Commit(c),
           NEW b \in Clients \ {c}, session[b].pc # "idle"
    PROVE  Knows(session[b], entries', documents', raced', period')
<1> DEFINE me == session[c]
           s == session[b]
<1>1. /\ s \in OpenSession /\ Shape(s, entries) /\ Fresh(s, entries, documents, raced)
      /\ OnTime(s, period) /\ me \in OpenSession /\ Shape(me, entries)
  BY WhatIsKnown DEF Commit, Knows
<1>2. Committed(me, entries, entries')
  BY CommitEntries
<1>3. /\ \A d \in Documents : d # me.document => documents'[d] = documents[d]
      /\ me.document \in Documents => documents'[me.document] = DocumentAfter(me, documents[me.document])
      /\ me.document \in Documents => me.op \in {"post", "cancel", "drop"}
  BY CommitDocuments
<1>4. /\ raced \subseteq raced'
      /\ \A d \in Documents : Doc(d) \in s.reads /\ me.document = d => Doc(d) \in raced'
      /\ \A n \in Nat \ {0} : Ent(n) \in s.reads /\ me.entry = n => Ent(n) \in raced'
      /\ Customer \in s.reads /\ me.op = "post" => Customer \in raced'
  BY <1>1, CommitRaces
<1>5. period' = period
  BY DEF Commit
<1> HIDE DEF me, s
<1>6. \A d \in Documents : Keyed(entries, d) \subseteq Keyed(entries', d)
  BY <1>2 DEF Committed, Keyed
<1>7. Shape(s, entries')
  <2>1. s.entry \in 0..Len(entries')
    BY <1>1, <1>2 DEF Shape, Committed
  <2>2. s.entry # 0 => s.entry \in 1..Len(entries) /\ entries'[s.entry].key = entries[s.entry].key
    BY <1>1, <1>2 DEF Shape, Committed
  <2>3. s.op = "post" => s.document \in Documents
    BY <1>1 DEF Shape
  <2> QED BY <1>1, <1>6, <2>1, <2>2, <2>3 DEF Shape
<1>8. ASSUME s.document \in Documents, Doc(s.document) \in s.reads, Doc(s.document) \notin raced'
      PROVE  /\ Doc(s.document) \notin raced /\ documents'[s.document] = documents[s.document]
             /\ Keyed(entries', s.document) = Keyed(entries, s.document)
  <2>1. s.document # me.document /\ Doc(s.document) \notin raced
    BY <1>4, <1>8
  <2>2. \A n \in 1..Len(entries') : n \in 1..Len(entries) \/ entries'[n].key # s.document
    BY <1>2, <1>8, <2>1, NoDocumentAssumption DEF Committed
  <2>3. Keyed(entries', s.document) \subseteq Keyed(entries, s.document)
    BY <1>2, <2>2 DEF Committed, Keyed
  <2> QED BY <1>3, <1>6, <1>8, <2>1, <2>3
<1>9. ASSUME s.entry # 0, Ent(s.entry) \notin raced'
      PROVE  Ent(s.entry) \notin raced /\ entries'[s.entry].status = entries[s.entry].status
  <2>1. s.entry \in 1..Len(entries) /\ s.entry \in Nat \ {0} /\ Ent(s.entry) \in s.reads
    BY <1>1, <1>2, <1>9 DEF Shape, Committed
  <2>2. s.entry # me.entry
    BY <1>4, <1>9, <2>1
  <2> QED BY <1>2, <1>4, <1>9, <2>1, <2>2 DEF Committed
<1>10. ASSUME s.op = "post", Customer \notin raced'
       PROVE  Cardinality(PostedOf(documents')) < CreditLimit
  <2>1. Customer \notin raced /\ me.op # "post"
    BY <1>1, <1>4, <1>10 DEF Shape
  <2>2. PostedOf(documents') \subseteq PostedOf(documents)
    BY <1>3, <2>1 DEF PostedOf, DocumentAfter
  <2>3. Cardinality(PostedOf(documents)) < CreditLimit
    BY <1>1, <1>10, <2>1 DEF Fresh
  <2> QED BY <2>2, <2>3, FewerPosted, PostingBoundsAssumption
<1>11. ASSUME s.op = "cancel", s.pc = "commit", s.entry = 0, Doc(s.document) \notin raced',
              NEW n \in Keyed(entries', s.document)
       PROVE  entries'[n].status = "REVERSED"
  <2>1. s.document \in Documents /\ Doc(s.document) \in s.reads
    BY <1>1, <1>11 DEF Shape
  <2>2. n \in 1..Len(entries) /\ entries[n].key = s.document /\ entries[n].status = "REVERSED"
    BY <1>1, <1>8, <1>11, <2>1 DEF Fresh, Keyed
  <2>3. me.op = "confirm" => n # me.entry
    BY <1>1, <2>1, <2>2, NoDocumentAssumption DEF Shape
  <2> QED BY <1>2, <2>2, <2>3 DEF Committed
<1>12. Fresh(s, entries', documents', raced')
  <2>1. s.op \in {"post", "drop", "cancel"} => s.document \in Documents /\ Doc(s.document) \in s.reads
    BY <1>1 DEF Shape
  <2>2. s.op \in {"reverse", "confirm"} => s.entry # 0
    BY <1>1 DEF Shape
  <2> QED BY <1>1, <1>8, <1>9, <1>10, <1>11, <2>1, <2>2 DEF Fresh
<1> QED BY <1>1, <1>5, <1>7, <1>12 DEF Knows, s

\* The rows after a commit.
LEMMA CommitRows ==
    ASSUME PostingInv, OverlapInv, NEW c \in Clients, Commit(c)
    PROVE  RowsOK'
<1> DEFINE me == session[c]
<1>1. me \in OpenSession /\ Shape(me, entries) /\ Committed(me, entries, entries')
  BY WhatIsKnown, CommitEntries DEF Commit, Knows
<1>2. documents' \in [Documents -> DocumentRow]
  BY CommitDocuments
<1>3. /\ entries \in Seq(EntryRow)
      /\ \A n \in 1..Len(entries) : entries[n].reverses < n
                                    /\ (entries[n].key # NoDocument => entries[n].status # "DRAFT")
  BY DEF OverlapInv, RowsOK
<1> HIDE DEF me
<1>4. ASSUME NEW n \in 1..Len(entries')
      PROVE  /\ entries'[n].reverses < n
             /\ entries'[n].key # NoDocument => entries'[n].status # "DRAFT"
  <2>1. CASE n \in 1..Len(entries)
    <3>1. /\ entries'[n].key = entries[n].key /\ entries'[n].reverses = entries[n].reverses
          /\ entries'[n].status \in {entries[n].status, "POSTED", "REVERSED"}
      BY <1>1, <2>1 DEF Committed
    <3> QED BY <1>3, <2>1, <3>1
  <2>2. CASE n \notin 1..Len(entries)
    <3>1. me.number # 0 /\ KindOf(me.op) = "entry" /\ n = Len(entries) + 1
      BY <1>1, <2>2 DEF Committed
    <3>2. /\ entries'[n].status = IF me.op = "entry" THEN "DRAFT" ELSE "POSTED"
          /\ entries'[n].key = IF me.op = "post" THEN me.document ELSE NoDocument
          /\ entries'[n].reverses = IF me.op \in {"reverse", "cancel"} THEN me.entry ELSE 0
      BY <1>1, <3>1 DEF Committed
    <3>3. me.entry \in 0..Len(entries) /\ Len(entries) \in Nat
      BY <1>1 DEF Shape, Committed
    <3> QED BY <3>1, <3>2, <3>3
  <2> QED BY <2>1, <2>2
<1> QED BY <1>1, <1>2, <1>4 DEF RowsOK, Committed, EntryRow, DocumentRow

\* A document that no two requests overlapped on agrees with its entries after a commit.
LEMMA CommitAgrees ==
    ASSUME PostingInv, OverlapInv, NEW c \in Clients, Commit(c),
           NEW d \in Documents, Doc(d) \notin raced'
    PROVE  Agrees(d, entries', documents')
<1> DEFINE me == session[c]
           add == me.number # 0 /\ KindOf(me.op) = "entry"
<1>1. /\ me \in OpenSession /\ Shape(me, entries) /\ me.pc = "commit"
      /\ Fresh(me, entries, documents, raced) /\ Committed(me, entries, entries')
  BY WhatIsKnown, CommitEntries DEF Commit, Knows
<1>2. /\ d # me.document => documents'[d] = documents[d]
      /\ d = me.document => documents'[d] = DocumentAfter(me, documents[d])
      /\ d = me.document => me.op \in {"post", "cancel", "drop"}
  BY CommitDocuments
<1>3. Doc(d) \notin raced /\ Agrees(d, entries, documents)
  BY CommitRaces DEF OverlapInv
<1>4. /\ Len(entries) \in Nat
      /\ add => Len(entries') = Len(entries) + 1
      /\ ~add => Len(entries') = Len(entries)
      /\ add => entries'[Len(entries) + 1].key = IF me.op = "post" THEN me.document ELSE NoDocument
      /\ \A n \in 1..Len(entries) :
            /\ entries'[n].key = entries[n].key
            /\ entries'[n].status = IF n # me.entry THEN entries[n].status
                                    ELSE IF me.op = "confirm" THEN "POSTED" ELSE "REVERSED"
  BY <1>1 DEF Committed
<1>5. me.op \in {"post", "cancel", "drop"} => KindOf(me.op) = "entry"
  BY DEF KindOf
<1>6. me.op = "post" <=> me.op = "post" /\ me.document \in Documents
  BY <1>1 DEF Shape
<1> HIDE DEF add
\* Only posting the document itself gives it an entry.
<1>7. CASE ~(add /\ me.op = "post" /\ me.document = d)
  <2>1. Keyed(entries', d) = Keyed(entries, d)
    <3>1. \A n \in 1..Len(entries') : n \in 1..Len(entries) \/ entries'[n].key # d
      BY <1>4, <1>7, NoDocumentAssumption
    <3>2. \A n \in 1..Len(entries) : n \in 1..Len(entries')
      BY <1>4
    <3> QED BY <1>4, <3>1, <3>2 DEF Keyed
  <2>2. \A n \in Keyed(entries, d) :
            entries[n].status = "REVERSED" => entries'[n].status = "REVERSED"
    <3> SUFFICES ASSUME NEW n \in Keyed(entries, d), entries[n].status = "REVERSED"
                 PROVE  entries'[n].status = "REVERSED"
      OBVIOUS
    <3>1. n \in 1..Len(entries) /\ entries[n].key # NoDocument
      BY NoDocumentAssumption DEF Keyed
    <3>2. me.op = "confirm" => n # me.entry
      BY <1>1, <3>1 DEF Shape
    <3> QED BY <1>4, <3>1, <3>2
  <2>3. CASE d # me.document
    <3>1. documents'[d] = documents[d]
      BY <1>2, <2>3
    <3> QED BY <1>3, <2>1, <2>2, <3>1 DEF Agrees
  <2>4. CASE d = me.document
    <3>1. CASE me.op = "post"
      \* Nothing was posted because the document had an entry already: then it was no draft.
      <4>1. me.number = 0
        BY <1>5, <1>7, <2>4, <3>1 DEF add
      <4>2. documents[d].status = "DRAFT" /\ Keyed(entries, d) # {}
        BY <1>1, <1>3, <2>4, <3>1, <4>1 DEF Shape, Fresh
      <4> QED BY <1>3, <4>2 DEF Agrees
    <3>2. CASE me.op = "drop"
      <4>1. documents[d].status = "DRAFT"
        BY <1>1, <1>3, <2>4, <3>2 DEF Fresh
      <4>2. documents[d].issued = 0 /\ Keyed(entries, d) = {}
        BY <1>3, <4>1 DEF Agrees
      <4>3. documents'[d] = [status |-> "CANCELLED", issued |-> 0]
        BY <1>2, <2>4, <3>2, <4>2 DEF DocumentAfter
      <4> QED BY <2>1, <4>2, <4>3 DEF Agrees
    <3>3. CASE me.op = "cancel"
      <4>1. documents[d].status = "POSTED"
        BY <1>1, <1>3, <2>4, <3>3 DEF Fresh
      <4>2. documents[d].issued = 1 /\ \E n \in Nat : Keyed(entries, d) = {n}
        BY <1>3, <4>1 DEF Agrees
      <4>3. documents'[d] = [status |-> "CANCELLED", issued |-> 0]
        BY <1>2, <2>4, <3>3, <4>2 DEF DocumentAfter
      <4>4. CASE me.entry = 0
        <5>1. \A n \in Keyed(entries, d) : entries[n].status = "REVERSED"
          BY <1>1, <1>3, <2>4, <3>3, <4>4 DEF Fresh
        <5> QED BY <2>1, <2>2, <4>3, <5>1 DEF Agrees
      <4>5. CASE me.entry # 0
        <5>1. me.entry \in 1..Len(entries) /\ me.entry \in Keyed(entries, d)
          BY <1>1, <1>4, <2>4, <3>3, <4>5 DEF Shape, Keyed
        <5>2. Keyed(entries, d) = {me.entry}
          BY <4>2, <5>1
        <5>3. entries'[me.entry].status = "REVERSED"
          BY <1>4, <3>3, <5>1
        <5> QED BY <2>1, <4>3, <5>2, <5>3 DEF Agrees
      <4> QED BY <4>4, <4>5
    <3> QED BY <1>2, <2>4, <3>1, <3>2, <3>3
  <2> QED BY <2>3, <2>4
<1>8. CASE add /\ me.op = "post" /\ me.document = d
  <2>1. documents[d].status = "DRAFT"
    BY <1>1, <1>3, <1>8 DEF Fresh
  <2>2. documents[d].issued = 0 /\ Keyed(entries, d) = {}
    BY <1>3, <2>1 DEF Agrees
  <2>3. documents'[d] = [status |-> "POSTED", issued |-> 1]
    BY <1>2, <1>8, <2>2 DEF DocumentAfter
  <2>4. \A n \in 1..Len(entries) : entries'[n].key # d
    BY <1>4, <2>2 DEF Keyed
  <2>5. Len(entries) + 1 \in 1..Len(entries') /\ entries'[Len(entries) + 1].key = d
    BY <1>4, <1>8
  <2>6. \A n \in 1..Len(entries') : n \in 1..Len(entries) \/ n = Len(entries) + 1
    BY <1>4, <1>8
  <2>7. Keyed(entries', d) = {Len(entries) + 1}
    BY <2>4, <2>5, <2>6 DEF Keyed
  <2>8. Len(entries) + 1 \in Nat
    BY <1>4
  <2> QED BY <2>3, <2>7, <2>8 DEF Agrees
<1> QED BY <1>7, <1>8

\* An entry that no two requests overlapped on is undone once or not at all after a commit.
LEMMA CommitOnce ==
    ASSUME PostingInv, OverlapInv, NEW c \in Clients, Commit(c),
           NEW n \in 1..Len(entries'), Ent(n) \notin raced'
    PROVE  Once(n, entries')
<1> DEFINE me == session[c]
           add == me.number # 0 /\ KindOf(me.op) = "entry"
           last == Len(entries) + 1
           undo == me.op \in {"reverse", "cancel"} /\ me.entry = n
<1>1. /\ me \in OpenSession /\ Shape(me, entries) /\ me.pc = "commit"
      /\ Fresh(me, entries, documents, raced) /\ Committed(me, entries, entries')
  BY WhatIsKnown, CommitEntries DEF Commit, Knows
<1>2. Ent(n) \notin raced
  BY CommitRaces
<1>3. /\ Len(entries) \in Nat
      /\ add => Len(entries') = last
      /\ ~add => Len(entries') = Len(entries)
      /\ add => entries'[last].reverses = IF me.op \in {"reverse", "cancel"} THEN me.entry ELSE 0
      /\ add => entries'[last].status \in {"DRAFT", "POSTED"}
      /\ \A m \in 1..Len(entries) :
            /\ entries'[m].reverses = entries[m].reverses
            /\ entries'[m].status = IF m # me.entry THEN entries[m].status
                                    ELSE IF me.op = "confirm" THEN "POSTED" ELSE "REVERSED"
  BY <1>1 DEF Committed
<1>4. \A m \in 1..Len(entries) : entries[m].reverses < m /\ entries[m].reverses \in Nat
  <2>1. entries \in Seq(EntryRow)
    BY DEF OverlapInv, RowsOK
  <2>2. \A m \in 1..Len(entries) : entries[m] \in EntryRow
    BY <2>1, ElementOfSeq
  <2> QED BY <2>2 DEF OverlapInv, RowsOK, EntryRow
<1>5. me.entry \in 0..Len(entries) /\ n # 0 /\ n \in Nat
  BY <1>1, <1>3 DEF Shape
<1>6. me.op \in {"reverse", "cancel"} /\ me.entry # 0 => add
  BY <1>1 DEF Shape, KindOf
<1> HIDE DEF me, add
<1>7. CASE undo
  <2>1. add /\ n \in 1..Len(entries) /\ n # last
    BY <1>3, <1>5, <1>6, <1>7
  <2>2. entries[n].status = "POSTED"
    BY <1>1, <1>2, <1>5, <1>7 DEF Fresh
  <2>3. Undoings(entries, n) = {}
    BY <1>2, <2>1, <2>2 DEF OverlapInv, Once
  <2>4. entries'[n].status = "REVERSED"
    BY <1>3, <1>7, <2>1
  <2>5. \A m \in 1..Len(entries) : entries'[m].reverses # n
    BY <1>3, <2>3 DEF Undoings
  <2>6. last \in 1..Len(entries') /\ entries'[last].reverses = n
    BY <1>3, <1>7, <2>1
  <2>7. \A m \in 1..Len(entries') : m \in 1..Len(entries) \/ m = last
    BY <1>3, <2>1
  <2>8. Undoings(entries', n) = {last}
    BY <2>5, <2>6, <2>7 DEF Undoings
  <2>9. last \in Nat
    BY <1>3
  <2> QED BY <2>4, <2>8, <2>9 DEF Once
<1>8. CASE ~undo
  <2>1. add => entries'[last].reverses # n
    BY <1>3, <1>5, <1>8
  <2>2. \A m \in 1..Len(entries') : m \in 1..Len(entries) \/ (add /\ m = last)
    BY <1>3
  <2>3. \A m \in 1..Len(entries) : m \in 1..Len(entries')
    BY <1>3
  <2>4. Undoings(entries', n) = Undoings(entries, n)
    BY <1>3, <2>1, <2>2, <2>3 DEF Undoings
  <2>5. CASE n \in 1..Len(entries)
    <3>1. Once(n, entries)
      BY <1>2, <2>5 DEF OverlapInv
    <3>2. CASE n # me.entry
      <4>1. entries'[n].status = entries[n].status
        BY <1>3, <2>5, <3>2
      <4> QED BY <2>4, <3>1, <4>1 DEF Once
    <3>3. CASE n = me.entry
      <4>1. me.op = "confirm"
        BY <1>1, <1>5, <1>8, <3>3 DEF Shape
      <4>2. entries[n].status = "DRAFT" /\ entries'[n].status = "POSTED"
        BY <1>1, <1>2, <1>3, <2>5, <3>3, <4>1 DEF Fresh
      <4> QED BY <2>4, <3>1, <4>2 DEF Once
    <3> QED BY <3>2, <3>3
  <2>6. CASE n \notin 1..Len(entries)
    <3>1. add /\ n = last
      BY <2>2, <2>6
    <3>2. entries'[n].status # "REVERSED"
      BY <1>3, <3>1
    <3>3. Undoings(entries, n) = {}
      <4> SUFFICES ASSUME NEW m \in 1..Len(entries), entries[m].reverses = n PROVE FALSE
        BY DEF Undoings
      <4> QED BY <1>3, <1>4, <3>1
    <3> QED BY <2>4, <3>2, <3>3 DEF Once
  <2> QED BY <2>5, <2>6
<1> QED BY <1>7, <1>8

\* One more is posted by a request that found room for it.
LEMMA CommitWithinLimit ==
    ASSUME PostingInv, OverlapInv, NEW c \in Clients, Commit(c)
    PROVE  WithinLimit(documents', raced')
<1> DEFINE me == session[c]
<1>1. /\ me \in OpenSession /\ Shape(me, entries) /\ Fresh(me, entries, documents, raced)
  BY WhatIsKnown DEF Commit, Knows
<1>2. /\ \A d \in Documents : d # me.document => documents'[d] = documents[d]
      /\ me.document \in Documents => documents'[me.document] = DocumentAfter(me, documents[me.document])
      /\ me.document \in Documents => me.op \in {"post", "cancel", "drop"}
  BY CommitDocuments
<1>3. raced \subseteq raced'
  BY CommitRaces
<1>4. WithinLimit(documents, raced)
  BY DEF OverlapInv
<1> HIDE DEF me
<1>5. CASE me.op = "post"
  <2>1. PostedOf(documents') \subseteq PostedOf(documents) \cup {me.document}
    BY <1>2 DEF PostedOf
  <2>2. IsFiniteSet(PostedOf(documents)) /\ Cardinality(PostedOf(documents)) \in Nat
    BY <1>4, FS_CardinalityType DEF WithinLimit
  <2>3. /\ IsFiniteSet(PostedOf(documents) \cup {me.document})
        /\ Cardinality(PostedOf(documents) \cup {me.document}) <= Cardinality(PostedOf(documents)) + 1
    BY <2>2, FS_AddElement
  <2>4. /\ IsFiniteSet(PostedOf(documents'))
        /\ Cardinality(PostedOf(documents')) \in Nat
        /\ Cardinality(PostedOf(documents')) <= Cardinality(PostedOf(documents) \cup {me.document})
        /\ Cardinality(PostedOf(documents) \cup {me.document}) \in Nat
    BY <2>1, <2>3, FS_Subset, FS_CardinalityType
  <2>5. Customer \notin raced' => Cardinality(PostedOf(documents)) < CreditLimit
    BY <1>1, <1>3, <1>5 DEF Fresh
  <2> QED BY <2>2, <2>3, <2>4, <2>5, PostingBoundsAssumption DEF WithinLimit
<1>6. CASE me.op # "post"
  <2>1. PostedOf(documents') \subseteq PostedOf(documents)
    BY <1>2, <1>6 DEF PostedOf, DocumentAfter
  <2> QED BY <1>3, <1>4, <2>1, FewerPosted, PostingBoundsAssumption DEF WithinLimit
<1> QED BY <1>5, <1>6

\* A commit keeps the invariant: of others' knowledge, of the rows, and of what is not raced.
LEMMA CommitKnows ==
    ASSUME PostingInv, OverlapInv, NEW c \in Clients, Commit(c)
    PROVE  OverlapInv'
<1>1. OpenKnow'
  <2> SUFFICES ASSUME NEW b \in Clients, session'[b] \in OpenSession
               PROVE  Knows(session'[b], entries', documents', raced', period')
    BY DEF OpenKnow, OpenSession, Readable
  <2>1. b # c /\ session'[b] = session[b] /\ session[b].pc # "idle"
    BY IdleIsNotOpen DEF Commit, PostingInv, PostingTypeOK
  <2> QED BY <2>1, OthersKnow
<1> QED BY <1>1, CommitRows, CommitAgrees, CommitOnce, CommitWithinLimit DEF OverlapInv

\* At the start nobody knows anything, and nothing was posted.
LEMMA OverlapStarts == Init => OverlapInv
<1> SUFFICES ASSUME Init PROVE OverlapInv
  OBVIOUS
<1>1. RowsOK
  <2>1. entries \in Seq(EntryRow) /\ Len(entries) = 1
    BY DEF Init, EntryRow
  <2> QED BY <2>1 DEF Init, RowsOK, DocumentRow
<1>2. OpenKnow
  BY IdleIsNotOpen DEF Init, OpenKnow
<1>3. \A d \in Documents : Agrees(d, entries, documents)
  BY NoDocumentAssumption DEF Init, Agrees, Keyed
<1>4. \A n \in 1..Len(entries) : Once(n, entries)
  BY DEF Init, Once, Undoings
<1>5. WithinLimit(documents, raced)
  <2>1. PostedOf(documents) = {}
    BY DEF Init, PostedOf
  <2> QED BY <2>1, FS_EmptySet, PostingBoundsAssumption DEF WithinLimit
<1> QED BY <1>1, <1>2, <1>3, <1>4, <1>5 DEF OverlapInv

\* Every step keeps what the open requests know.
LEMMA OverlapStep ==
    ASSUME PostingInv, OverlapInv, [Next]_vars
    PROVE  OverlapInv'
<1>1. ASSUME NEW c \in Clients, Open(c)
      PROVE  OverlapInv'
  BY <1>1, OpenKnows
<1>2. ASSUME NEW c \in Clients, Proceed(c) \/ Stock(c) \/ Number(c) \/ Disconnect(c)
      PROVE  OverlapInv'
  BY <1>2, SettingsKnows, CheckKnows, CommitKnows, StockKnows, NumberKnows, RollbackKnows
     DEF Proceed, Disconnect
<1>3. CASE ClosePeriod
  BY <1>3, ClosePeriodKnows
<1>4. CASE UNCHANGED vars
  <2>1. OpenKnow'
    BY <1>4 DEF vars, OverlapInv, OpenKnow, OpenSession, Readable
  <2>2. RowsOK'
    BY <1>4 DEF vars, OverlapInv, RowsOK, EntryRow, DocumentRow
  <2> QED BY <1>4, <2>1, <2>2 DEF vars, OverlapInv, Agrees, Keyed, Once, Undoings, WithinLimit
<1> QED BY <1>1, <1>2, <1>3, <1>4 DEF Next

\* Both invariants hold throughout.
LEMMA OverlapAlways == Spec => [](PostingInv /\ OverlapInv)
  BY PostingStarts, PostingStep, OverlapStarts, OverlapStep, PTL DEF Spec

\* A document's status, goods and books agree unless two requests overlapped on it: for any
\* number of documents, threads and requests.
THEOREM DocumentsStayAgreed == Spec => []DocumentsAgree
  BY OverlapAlways, OverlapInvSuffices, PTL

\* Two reversals of one entry happen only in requests that overlapped on it.
THEOREM EntriesUndoneOnce == Spec => []UndoneOnce
  BY OverlapAlways, OverlapInvSuffices, PTL

\* Without overlapping postings the customer's open invoices stay within the limit.
THEOREM LimitStands == Spec => []LimitNeedsOverlap
  BY OverlapAlways, OverlapInvSuffices, PTL

\* A request writes its entries when it commits.
LEMMA OnlyCommitsWrite ==
    ASSUME PostingInv, OverlapInv, NEW c \in Clients,
           Open(c) \/ Settings(c) \/ Check(c) \/ Stock(c) \/ Number(c) \/ Disconnect(c)
    PROVE  entries' = entries
<1>1. ASSUME NEW op, NEW d, NEW n, NEW reads, Begin(c, op, d, n, reads)
      PROVE  entries' = entries
  BY <1>1 DEF Begin
<1>2. ASSUME NEW next, Step(c, next)
      PROVE  entries' = entries
  BY <1>2 DEF Step
<1>3. Rollback(c) => entries' = entries
  BY DEF Rollback
<1>4. CASE Open(c)
  BY <1>1, <1>4 DEF Open, OpenPost, OpenCancel, OpenReverse, OpenConfirm, OpenCreate
<1>5. CASE Settings(c)
  BY <1>2, <1>5 DEF Settings
<1>6. CASE Check(c)
  <2>1. session[c].op \in {"post", "confirm", "cancel"}
    BY <1>6, WhatIsKnown DEF Check, Consistent
  <2>2. CASE session[c].op = "post"
    BY <1>2, <1>3, <1>6, <2>2 DEF Check
  <2>3. CASE session[c].op = "confirm"
    BY <1>2, <1>3, <1>6, <2>3 DEF Check
  <2>4. CASE session[c].op = "cancel"
    BY <1>2, <1>3, <1>6, <2>4 DEF Check
  <2> QED BY <2>1, <2>2, <2>3, <2>4
<1>7. CASE Stock(c) \/ Number(c)
  BY <1>2, <1>3, <1>7 DEF Stock, Number
<1>8. CASE Disconnect(c)
  BY <1>3, <1>8 DEF Disconnect
<1> QED BY <1>4, <1>5, <1>6, <1>7, <1>8

\* Into a closed period only a request that was open when it closed posts an entry.
THEOREM ShutStands == Spec => ShutNeedsOverlap
<1> DEFINE Late == \A n \in 1..Len(entries') :
              /\ entries'[n].status = "POSTED"
              /\ n \in 1..Len(entries) => entries[n].status = "DRAFT"
              => \E c \in Clients : session[c].pc = "commit" /\ session[c].late
                                    /\ session'[c].pc = "idle"
<1>1. ASSUME PostingInv, OverlapInv, Next, period = "CLOSED"
      PROVE  Late
  <2>1. ASSUME NEW c \in Clients, Commit(c)
        PROVE  Late
    <3> DEFINE me == session[c]
    <3> SUFFICES ASSUME NEW n \in 1..Len(entries'), entries'[n].status = "POSTED",
                        n \in 1..Len(entries) => entries[n].status = "DRAFT"
                 PROVE  me.late
      <4>1. session[c].pc = "commit" /\ session'[c].pc = "idle"
        BY <1>1, <2>1, IdleIsNotOpen DEF Commit, PostingInv, PostingTypeOK
      <4> QED BY <4>1
    <3>1. /\ Committed(me, entries, entries') /\ me.pc = "commit" /\ me \in OpenSession
          /\ Shape(me, entries) /\ OnTime(me, period)
      BY <1>1, <2>1, CommitEntries, WhatIsKnown DEF Commit, Knows
    <3> HIDE DEF me
    <3>2. CASE n \in 1..Len(entries)
      <4>1. n = me.entry /\ me.op = "confirm"
        BY <3>1, <3>2 DEF Committed
      <4> QED BY <1>1, <3>1, <4>1 DEF OnTime, OpenSession
    <3>3. CASE n \notin 1..Len(entries)
      <4>1. me.number # 0 /\ KindOf(me.op) = "entry" /\ n = Len(entries) + 1
        BY <3>1, <3>3 DEF Committed
      <4>2. me.op # "entry"
        BY <3>1, <4>1 DEF Committed
      <4>3. me.op \in {"post", "cancel", "reverse"}
        BY <3>1, <4>1, <4>2 DEF KindOf, Shape, OpenSession, Operations
      <4> QED BY <1>1, <3>1, <4>1, <4>3 DEF OnTime, OpenSession
    <3> QED BY <3>2, <3>3
  <2>2. CASE entries' = entries
    BY <2>2
  <2>3. ASSUME NEW c \in Clients,
               Open(c) \/ Settings(c) \/ Check(c) \/ Stock(c) \/ Number(c) \/ Disconnect(c)
        PROVE  entries' = entries
    BY <1>1, <2>3, OnlyCommitsWrite
  <2>4. ClosePeriod => entries' = entries
    BY DEF ClosePeriod
  <2> HIDE DEF Late
  <2> QED BY <1>1, <2>1, <2>2, <2>3, <2>4 DEF Next, Proceed
<1>2. ASSUME PostingInv, OverlapInv, [Next]_vars
      PROVE  [period = "CLOSED" => Late]_vars
  BY <1>1, <1>2
<1> QED BY <1>2, OverlapAlways, PTL DEF Spec, ShutNeedsOverlap

=============================================================================
