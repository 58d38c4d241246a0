---------------------------- MODULE RecordsProofs ----------------------------
(***************************************************************************)
(* What is proved of the rows that requests share, for any number of rows, *)
(* request threads and requests: a company keeps an administrator (Access) *)
(* and its default price list (PriceLists), restoring a unit undoes its    *)
(* deletion (Organization), the trees stay trees (Hierarchies), returns    *)
(* are off by the rounding of conversions only (Catalog), and a balance    *)
(* row is the sum of its ledger (StockSessions).                           *)
(*                                                                         *)
(* But for the catalog these are statements about overlapping requests     *)
(* with a history variable that records the overlaps that do harm: each    *)
(* invariant says what an open request may rely on although it has read    *)
(* the rows some time ago, as long as none of those overlaps happened.     *)
(***************************************************************************)
EXTENDS Access, PriceLists, Organization, Hierarchies, Catalog, StockSessions,
        RunningTotalsTheorems, FiniteSetTheorems, SequenceTheorems, TLAPS

-----------------------------------------------------------------------------
(* Users and roles: who takes powers away is an administrator still        *)

\* What a request does.
AccountOperations == {"create", "update", "delete", "restore"}

\* An open request as StartRequest leaves it.
Opened(r) ==
    /\ r.op \in AccountOperations
    /\ r.actor \in Users /\ r.target \in Users
    /\ r.seen \in UserRow /\ r.new \in UserRow
    /\ r.new.exists
    /\ r.op \in {"create", "delete"} => r.actor # r.target
    /\ r.op = "restore" => ~TakesAway(r)

AccessTypeOK ==
    /\ user \in [Users -> UserRow]
    /\ DOMAIN request = AccessThreads
    /\ \A t \in AccessThreads : request[t] = NoAccessRequest \/ Opened(request[t])
    /\ steppedDown \in BOOLEAN /\ crossed \in BOOLEAN

\* Who takes powers away is an administrator still.
TakersAreAdministrators ==
    \A t \in AccessThreads :
        request[t] # NoAccessRequest /\ TakesAway(request[t]) =>
            crossed \/ IsAdministrator(user[request[t].actor])

AccessInv == AccessTypeOK /\ TakersAreAdministrators /\ AdministratorRemains

\* A request that takes nothing away leaves every administrator one.
LEMMA HarmlessSave ==
    ASSUME AccessTypeOK, NEW r, Opened(r), ~TakesAway(r), IsAdministrator(user[r.target])
    PROVE  IsAdministrator(Saved(r))
<1>1. user[r.target] \in UserRow /\ r.seen \in UserRow /\ r.new \in UserRow /\ r.new.exists
  BY DEF AccessTypeOK, Opened
<1>2. /\ user[r.target].exists /\ ~user[r.target].deleted
      /\ user[r.target].active /\ user[r.target].superuser
  BY DEF IsAdministrator
<1>3. Saved(r).exists
  BY <1>1, <1>2 DEF Saved, Columns, UserRow
<1>4. ~Saved(r).deleted
  BY <1>1, <1>2 DEF Saved, Columns, UserRow, TakesAway
<1>5. Saved(r).active
  BY <1>1, <1>2 DEF Saved, Columns, UserRow, TakesAway
<1>6. Saved(r).superuser
  BY <1>1, <1>2 DEF Saved, Columns, UserRow, TakesAway
<1> QED BY <1>3, <1>4, <1>5, <1>6 DEF IsAdministrator

\* What a request saves is a row.
LEMMA SavedType ==
    ASSUME AccessTypeOK, NEW r, Opened(r)
    PROVE  Saved(r) \in UserRow
  BY DEF AccessTypeOK, Opened, Saved, UserRow

\* The seed's superuser administers.
LEMMA InitialAccess == AccessInit => AccessInv
<1> SUFFICES ASSUME AccessInit PROVE AccessInv
  OBVIOUS
<1>1. user \in [Users -> UserRow]
  BY DEF AccessInit, UserRow
<1>2. IsAdministrator(user[FirstUser])
  BY FirstUserAssumption DEF AccessInit, IsAdministrator, Columns
<1> QED
  BY <1>1, <1>2, FirstUserAssumption
     DEF AccessInit, AccessInv, AccessTypeOK, TakersAreAdministrators, AdministratorRemains

\* A request that starts leaves the rows alone, and its actor administers.
LEMMA StartKeeps ==
    ASSUME AccessInv, NEW t \in AccessThreads, NEW op \in AccountOperations,
           NEW a \in Users, NEW u \in Users, NEW active \in BOOLEAN, NEW superuser \in BOOLEAN,
           StartRequest(t, op, a, u, active, superuser)
    PROVE  AccessInv'
<1> DEFINE r == [op |-> op, actor |-> a, target |-> u, seen |-> user[u],
                 new |-> Edited(op, user[u], active, superuser)]
<1>1. user[u] \in UserRow /\ user[a] \in UserRow
  BY DEF AccessInv, AccessTypeOK
<1>2. /\ request' = [request EXCEPT ![t] = r]
      /\ user' = user /\ steppedDown' = steppedDown /\ crossed' = crossed
      /\ IsAdministrator(user[a])
      /\ (op = "create") <=> ~user[u].exists
      /\ op = "delete" => u # a
  BY DEF StartRequest, MayStart
<1>3. Opened(r)
  <2>1. r.new \in UserRow /\ r.new.exists
    <3>1. CASE op = "create"
      BY <1>1, <1>2, <3>1 DEF Edited, UserRow, Columns
    <3>2. CASE op = "update"
      BY <1>1, <1>2, <3>2 DEF Edited, UserRow, Columns
    <3>3. CASE op = "delete"
      BY <1>1, <1>2, <3>3 DEF Edited, UserRow, Columns
    <3>4. CASE op = "restore"
      BY <1>1, <1>2, <3>4 DEF Edited, UserRow, Columns
    <3> QED BY <3>1, <3>2, <3>3, <3>4 DEF AccountOperations
  <2>2. op \in {"create", "delete"} => a # u
    BY <1>2 DEF IsAdministrator
  <2>3. op = "restore" => ~TakesAway(r)
    BY <1>1 DEF TakesAway, Edited, UserRow, Columns
  <2> QED BY <1>1, <2>1, <2>2, <2>3 DEF Opened
<1>4. \A s \in AccessThreads : request'[s] = IF s = t THEN r ELSE request[s]
  BY <1>2 DEF AccessInv, AccessTypeOK
<1>5. AccessTypeOK'
  BY <1>2, <1>3, <1>4 DEF AccessInv, AccessTypeOK, Opened, TakesAway
<1>6. TakersAreAdministrators'
  BY <1>2, <1>4 DEF AccessInv, TakersAreAdministrators, TakesAway, IsAdministrator
<1>7. AdministratorRemains'
  BY <1>2 DEF AccessInv, AdministratorRemains, IsAdministrator
<1> QED BY <1>5, <1>6, <1>7 DEF AccessInv

\* A commit takes powers from nobody, from an administrator's target, or from a crossing.
LEMMA CommitKeeps ==
    ASSUME AccessInv, NEW t \in AccessThreads, CommitRequest(t)
    PROVE  AccessInv'
<1> DEFINE r == request[t]
<1>1. /\ r # NoAccessRequest /\ Opened(r)
      /\ user' = [user EXCEPT ![r.target] = Saved(r)]
      /\ request' = [request EXCEPT ![t] = NoAccessRequest]
      /\ steppedDown' = (steppedDown \/ (r.op = "update" /\ r.actor = r.target /\ TakesAway(r)))
      /\ crossed' = (crossed \/
            (TakesAway(r) /\ \E o \in {request[s] : s \in AccessThreads \ {t}} \ {NoAccessRequest} :
                                 TakesAway(o)))
  BY DEF CommitRequest, AccessInv, AccessTypeOK
<1>2. \A s \in AccessThreads : request'[s] = IF s = t THEN NoAccessRequest ELSE request[s]
  BY <1>1 DEF AccessInv, AccessTypeOK
<1>3. \A u \in Users : user'[u] = IF u = r.target THEN Saved(r) ELSE user[u]
  BY <1>1 DEF AccessInv, AccessTypeOK
<1>4. AccessTypeOK'
  <2>1. Saved(r) \in UserRow
    BY <1>1, SavedType DEF AccessInv
  <2>2. user' \in [Users -> UserRow]
    BY <1>1, <2>1 DEF AccessInv, AccessTypeOK
  <2>3. steppedDown' \in BOOLEAN /\ crossed' \in BOOLEAN
    BY <1>1
  <2> QED BY <1>1, <1>2, <2>2, <2>3 DEF AccessInv, AccessTypeOK, Opened, TakesAway
\* What the request leaves untouched, if it takes nothing away.
<1>5. ASSUME ~TakesAway(r), NEW u \in Users, IsAdministrator(user[u])
      PROVE  IsAdministrator(user'[u])
  BY <1>1, <1>3, <1>5, HarmlessSave DEF AccessInv
<1>6. TakersAreAdministrators'
  <2> SUFFICES ASSUME NEW s \in AccessThreads, s # t, request[s] # NoAccessRequest,
                      TakesAway(request[s]), ~crossed'
               PROVE  IsAdministrator(user'[request[s].actor])
    BY <1>2 DEF TakersAreAdministrators, TakesAway, IsAdministrator
  <2>1. ~crossed /\ ~TakesAway(r)
    BY <1>1
  <2>2. request[s].actor \in Users /\ IsAdministrator(user[request[s].actor])
    BY <2>1 DEF AccessInv, AccessTypeOK, TakersAreAdministrators, Opened
  <2> QED BY <1>5, <2>1, <2>2
<1>7. AdministratorRemains'
  <2> SUFFICES ASSUME ~steppedDown', ~crossed'
               PROVE  \E u \in Users : IsAdministrator(user'[u])
    BY DEF AdministratorRemains, IsAdministrator
  <2>1. CASE TakesAway(r)
    <3>1. r.actor \in Users /\ IsAdministrator(user[r.actor])
      BY <1>1, <2>1 DEF AccessInv, TakersAreAdministrators, Opened
    <3>2. r.actor # r.target
      BY <1>1, <2>1 DEF Opened, AccountOperations
    <3> QED BY <1>3, <3>1, <3>2
  <2>2. CASE ~TakesAway(r)
    <3>1. PICK u \in Users : IsAdministrator(user[u])
      BY <1>1 DEF AccessInv, AdministratorRemains
    <3> QED BY <1>5, <2>2, <3>1
  <2> QED BY <2>1, <2>2
<1> QED BY <1>4, <1>6, <1>7 DEF AccessInv

\* A dropped request changes no row.
LEMMA DropKeeps ==
    ASSUME AccessInv, NEW t \in AccessThreads, DropAccessRequest(t)
    PROVE  AccessInv'
<1>1. /\ user' = user /\ steppedDown' = steppedDown /\ crossed' = crossed
      /\ request' = [request EXCEPT ![t] = NoAccessRequest]
  BY DEF DropAccessRequest
<1>2. \A s \in AccessThreads : request'[s] = IF s = t THEN NoAccessRequest ELSE request[s]
  BY <1>1 DEF AccessInv, AccessTypeOK
<1>3. AccessTypeOK'
  BY <1>1, <1>2 DEF AccessInv, AccessTypeOK, Opened, TakesAway
<1>4. TakersAreAdministrators'
  BY <1>1, <1>2 DEF AccessInv, TakersAreAdministrators, TakesAway, IsAdministrator
<1>5. AdministratorRemains'
  BY <1>1 DEF AccessInv, AdministratorRemains, IsAdministrator
<1> QED BY <1>3, <1>4, <1>5 DEF AccessInv

\* Every step keeps the invariant.
LEMMA StepKeepsAccess ==
    ASSUME AccessInv, [AccessNext]_access
    PROVE  AccessInv'
<1>1. ASSUME NEW t \in AccessThreads, NEW op \in {"create", "update"},
             NEW a \in Users, NEW u \in Users, NEW active \in BOOLEAN, NEW superuser \in BOOLEAN,
             StartRequest(t, op, a, u, active, superuser)
      PROVE  AccessInv'
  BY <1>1, StartKeeps DEF AccountOperations
<1>2. ASSUME NEW t \in AccessThreads, NEW op \in {"delete", "restore"},
             NEW a \in Users, NEW u \in Users, StartRequest(t, op, a, u, FALSE, FALSE)
      PROVE  AccessInv'
  BY <1>2, StartKeeps DEF AccountOperations
<1>3. ASSUME NEW t \in AccessThreads, CommitRequest(t) PROVE AccessInv'
  BY <1>3, CommitKeeps
<1>4. ASSUME NEW t \in AccessThreads, DropAccessRequest(t) PROVE AccessInv'
  BY <1>4, DropKeeps
<1>5. CASE UNCHANGED access
  <2>1. UNCHANGED <<user, request, steppedDown, crossed>>
    BY <1>5 DEF access
  <2> QED BY <2>1 DEF AccessInv, AccessTypeOK, TakersAreAdministrators, AdministratorRemains
<1>6. CASE AccessNext
  <2>1. PICK t \in AccessThreads :
            \/ \E op \in {"create", "update"}, a, u \in Users, active, superuser \in BOOLEAN :
                  StartRequest(t, op, a, u, active, superuser)
            \/ \E op \in {"delete", "restore"}, a, u \in Users : StartRequest(t, op, a, u, FALSE, FALSE)
            \/ CommitRequest(t)
            \/ DropAccessRequest(t)
    BY <1>6 DEF AccessNext
  <2>2. CASE \E op \in {"create", "update"}, a, u \in Users, active, superuser \in BOOLEAN :
                  StartRequest(t, op, a, u, active, superuser)
    BY <1>1, <2>2, Zenon
  <2>3. CASE \E op \in {"delete", "restore"}, a, u \in Users : StartRequest(t, op, a, u, FALSE, FALSE)
    BY <1>2, <2>3, Zenon
  <2> QED BY <1>3, <1>4, <2>1, <2>2, <2>3
<1> QED BY <1>5, <1>6

\* Somebody is left to administer the users, for any number of users, threads and requests,
\* unless an administrator gave up the own powers or two requests that take powers away
\* were open together.
THEOREM AdministratorStays == AccessSpec => []AdministratorRemains
<1>1. AccessInv => AdministratorRemains
  BY DEF AccessInv
<1> QED BY <1>1, InitialAccess, StepKeepsAccess, PTL DEF AccessSpec

-----------------------------------------------------------------------------
(* Price lists                                                             *)

\* A row of price_lists.
ListRow == [exists: BOOLEAN, default: BOOLEAN]

\* An open request.
Edit == [pc: {"find", "clear", "write", "commit"}, target: Lists, creates: BOOLEAN,
         held: BOOLEAN, default: BOOLEAN, found: Lists \cup {NoList},
         wrote: UNION {[ls -> BOOLEAN] : ls \in SUBSET Lists}, overtaken: BOOLEAN]

\* It is about to make its list the default.
TakesOver(me) == \E l \in DOMAIN me.wrote : me.wrote[l]

\* What its steps so far have seen to.
EditFine(me) ==
    /\ me.pc = "clear" => me.found \in Lists
    /\ me.pc \in {"find", "clear"} => me.default /\ DOMAIN me.wrote = {}
    /\ ~me.default => DOMAIN me.wrote \subseteq {me.target}
    /\ me.held => ~me.creates
    /\ me.pc # "commit" => ~TakesOver(me)
    /\ me.pc = "write" /\ me.target \in DOMAIN me.wrote => ~me.held
    /\ \A l \in DOMAIN me.wrote : me.wrote[l] => l = me.target /\ me.default
    /\ me.pc = "commit" /\ me.default =>
          IF me.target \in DOMAIN me.wrote THEN me.wrote[me.target] ELSE me.held

\* What it knows of the committed rows.
EditKnows(me, rows) ==
    /\ ~me.creates => rows[me.target].exists
    /\ me.held /\ ~me.overtaken => rows[me.target].default
    /\ TakesOver(me) =>
          \A k \in Lists : rows[k].default /\ k # me.target => k \in DOMAIN me.wrote

\* The committed rows: only lists have the flag, and at most one of them.
RowsFine(rows) ==
    /\ rows \in [Lists -> ListRow]
    /\ \A l \in Lists : rows[l].default => rows[l].exists
    /\ \A k, l \in Lists : rows[k].default /\ rows[l].default => k = l

\* Every open request knows what its steps have seen.
EditsFine ==
    /\ DOMAIN edit = ListThreads
    /\ \A t \in ListThreads :
          edit[t] = NoEdit \/ (edit[t] \in Edit /\ EditFine(edit[t]) /\ EditKnows(edit[t], list))

\* Two requests never take over together.
OneTakesOver ==
    \A t, o \in ListThreads :
        edit[t] # NoEdit /\ edit[o] # NoEdit /\ TakesOver(edit[t]) /\ TakesOver(edit[o]) => t = o

\* The invariant.
ListsInv == RowsFine(list) /\ EditsFine /\ OneTakesOver

\* An open request is no missing one.
LEMMA OpenIsEdit ==
    ASSUME NEW me \in Edit
    PROVE  me # NoEdit
BY DEF Edit, NoEdit

\* What an open request is.
LEMMA OpenFine ==
    ASSUME ListsInv, NEW t \in ListThreads, edit[t].pc # "none"
    PROVE  edit[t] \in Edit /\ EditFine(edit[t]) /\ EditKnows(edit[t], list)
<1>1. edit[t] # NoEdit
  BY DEF NoEdit
<1>2. QED
  BY <1>1 DEF ListsInv, EditsFine

\* A step of one session that commits nothing.
LEMMA ContinueStep ==
    ASSUME ListsInv, NEW t \in ListThreads, NEW next,
           edit' = [edit EXCEPT ![t] = next], list' = list,
           next = NoEdit \/ (next \in Edit /\ EditFine(next) /\ EditKnows(next, list)),
           next # NoEdit /\ TakesOver(next) =>
               \A o \in ListThreads \ {t} : edit[o] = NoEdit \/ ~TakesOver(edit[o])
    PROVE  ListsInv'
<1>1. \A o \in ListThreads : edit'[o] = IF o = t THEN next ELSE edit[o]
  BY DEF ListsInv, EditsFine
<1>2. DOMAIN edit' = ListThreads
  BY DEF ListsInv, EditsFine
<1>3. EditsFine'
  BY <1>1, <1>2 DEF ListsInv, EditsFine
<1>4. OneTakesOver'
  BY <1>1 DEF ListsInv, OneTakesOver
<1>5. RowsFine(list)'
  BY DEF ListsInv
<1>6. QED
  BY <1>3, <1>4, <1>5 DEF ListsInv

\* At first there are neither lists nor requests.
LEMMA ListsStart ==
    ASSUME PriceListsInit
    PROVE  ListsInv
BY DEF PriceListsInit, ListsInv, RowsFine, EditsFine, OneTakesOver, ListRow

\* The handler reads the row it edits.
LEMMA OpenEditInv ==
    ASSUME ListsInv, NEW t \in ListThreads, NEW l \in Lists, NEW default \in BOOLEAN,
           OpenEdit(t, l, default)
    PROVE  ListsInv'
<1> DEFINE next == [pc |-> IF default THEN "find" ELSE "write", target |-> l,
                    creates |-> ~list[l].exists, held |-> list[l].default,
                    default |-> default, found |-> NoList, wrote |-> <<>>, overtaken |-> FALSE]
<1>1. list[l] \in ListRow /\ (list[l].default => list[l].exists)
  BY DEF ListsInv, RowsFine
<1>2. <<>> \in UNION {[ls -> BOOLEAN] : ls \in SUBSET Lists} /\ DOMAIN <<>> = {}
  <2>1. <<>> \in [{} -> BOOLEAN]
    OBVIOUS
  <2>2. {} \in SUBSET Lists
    OBVIOUS
  <2>3. QED
    BY <2>1, <2>2
<1>3. next \in Edit
  BY <1>1, <1>2 DEF Edit, ListRow
<1>4. DOMAIN next.wrote = {} /\ ~TakesOver(next)
  BY <1>2 DEF TakesOver
<1>5. EditFine(next) /\ EditKnows(next, list)
  BY <1>1, <1>4 DEF EditFine, EditKnows
<1>6. QED
  BY <1>3, <1>4, <1>5, ContinueStep DEF OpenEdit

\* The lookup of the current default goes by the committed rows.
LEMMA FindDefaultInv ==
    ASSUME ListsInv, NEW t \in ListThreads, FindDefault(t)
    PROVE  ListsInv'
<1> DEFINE me == edit[t]
<1>1. me \in Edit /\ EditFine(me) /\ EditKnows(me, list) /\ me.pc = "find"
  BY OpenFine DEF FindDefault
<1>2. ASSUME NEW l \in Lists, Continues(t, [me EXCEPT !.pc = "clear", !.found = l])
      PROVE  ListsInv'
  <2> DEFINE next == [me EXCEPT !.pc = "clear", !.found = l]
  <2>1. next \in Edit /\ EditFine(next) /\ EditKnows(next, list) /\ ~TakesOver(next)
    BY <1>1 DEF Edit, EditFine, EditKnows, TakesOver
  <2>2. QED
    BY <1>2, <2>1, ContinueStep DEF Continues
<1>3. ASSUME Continues(t, [me EXCEPT !.pc = "write"])
      PROVE  ListsInv'
  <2> DEFINE next == [me EXCEPT !.pc = "write"]
  <2>1. next \in Edit /\ EditFine(next) /\ EditKnows(next, list) /\ ~TakesOver(next)
    BY <1>1 DEF Edit, EditFine, EditKnows, TakesOver
  <2>2. QED
    BY <1>3, <2>1, ContinueStep DEF Continues
<1>4. QED
  BY <1>2, <1>3 DEF FindDefault

\* What a session's statement adds to what it wrote.
LEMMA WritingType ==
    ASSUME NEW me \in Edit, NEW l \in Lists, NEW value \in BOOLEAN
    PROVE  /\ Writing(me, l, value) \in UNION {[ls -> BOOLEAN] : ls \in SUBSET Lists}
           /\ DOMAIN Writing(me, l, value) = DOMAIN me.wrote \cup {l}
           /\ Writing(me, l, value)[l] = value
           /\ \A k \in DOMAIN me.wrote \ {l} : Writing(me, l, value)[k] = me.wrote[k]
<1>1. PICK ls \in SUBSET Lists : me.wrote \in [ls -> BOOLEAN]
  BY DEF Edit
<1>2. Writing(me, l, value) \in [(ls \cup {l}) -> BOOLEAN]
  BY <1>1 DEF Writing
<1>3. ls \cup {l} \in SUBSET Lists
  BY <1>1
<1>4. QED
  BY <1>1, <1>2, <1>3 DEF Writing

\* The flag of the default it found is cleared in the session.
LEMMA ClearDefaultInv ==
    ASSUME ListsInv, NEW t \in ListThreads, ClearDefault(t)
    PROVE  ListsInv'
<1> DEFINE me == edit[t]
           own == me.found = me.target /\ ~me.creates
<1>1. me \in Edit /\ EditFine(me) /\ EditKnows(me, list) /\ me.pc = "clear" /\ me.found \in Lists
  BY OpenFine DEF ClearDefault, EditFine
<1>2. CASE own /\ ~me.held
  <2> DEFINE next == [me EXCEPT !.pc = "write"]
  <2>1. next \in Edit /\ EditFine(next) /\ EditKnows(next, list) /\ ~TakesOver(next)
    BY <1>1 DEF Edit, EditFine, EditKnows, TakesOver
  <2>2. QED
    BY <1>2, <2>1, ContinueStep DEF Continues, ClearDefault
<1>3. CASE ~(own /\ ~me.held)
  <2> DEFINE w == Writing(me, me.found, FALSE)
             next == [me EXCEPT !.pc = "write", !.held = IF own THEN FALSE ELSE @, !.wrote = w]
  <2>a. FALSE \in BOOLEAN /\ DOMAIN me.wrote = {}
    BY <1>1 DEF EditFine
  <2>b. /\ w \in UNION {[ls -> BOOLEAN] : ls \in SUBSET Lists}
        /\ DOMAIN w = DOMAIN me.wrote \cup {me.found} /\ w[me.found] = FALSE
    <3>1. me \in Edit /\ me.found \in Lists /\ FALSE \in BOOLEAN
      BY <1>1, <2>a
    <3>2. QED
      BY ONLY <3>1, WritingType
  <2>1. /\ w \in UNION {[ls -> BOOLEAN] : ls \in SUBSET Lists}
        /\ DOMAIN w = {me.found} /\ ~w[me.found]
    BY <2>a, <2>b
  <2> HIDE DEF w
  <2>2. next \in Edit
    BY <1>1, <2>1 DEF Edit
  <2>3. /\ next.pc = "write" /\ next.wrote = w /\ next.held = (IF own THEN FALSE ELSE me.held)
        /\ next.target = me.target /\ next.creates = me.creates /\ next.default = me.default
        /\ next.overtaken = me.overtaken
    BY <1>1 DEF Edit
  <2>4. ~TakesOver(next)
    BY <2>1, <2>3 DEF TakesOver
  <2>5. me.default /\ (me.held => ~me.creates) /\ me.held \in BOOLEAN /\ me.creates \in BOOLEAN
    BY <1>1 DEF EditFine, Edit
  <2>6. EditFine(next)
    BY <2>1, <2>3, <2>4, <2>5 DEF EditFine
  <2>7. EditKnows(next, list)
    BY <1>1, <2>3, <2>4 DEF EditKnows
  <2>8. Continues(t, next)
    BY <1>3 DEF ClearDefault, w
  <2>9. QED
    BY <2>2, <2>4, <2>6, <2>7, <2>8, ContinueStep DEF Continues
<1>4. QED
  BY <1>2, <1>3

\* The row of the request itself, and the unique index that admits one flag.
LEMMA WriteListInv ==
    ASSUME ListsInv, NEW t \in ListThreads, WriteList(t)
    PROVE  ListsInv'
<1> DEFINE me == edit[t]
           l == me.target
           others == {k \in Lists \ {l} : Default(k) /\ k \notin DOMAIN me.wrote}
<1>1. me \in Edit /\ EditFine(me) /\ EditKnows(me, list) /\ me.pc = "write" /\ l \in Lists
  BY OpenFine DEF WriteList, Edit
<1>2. ~TakesOver(me)
  BY <1>1 DEF EditFine
<1>3. CASE ~me.creates /\ me.held = me.default
  <2> DEFINE next == [me EXCEPT !.pc = "commit"]
  <2>1. next \in Edit /\ ~TakesOver(next) /\ EditKnows(next, list)
    BY <1>1, <1>2 DEF Edit, EditKnows, TakesOver
  <2>2. EditFine(next)
    BY <1>1, <1>2, <1>3, <2>1 DEF Edit, EditFine, TakesOver
  <2>3. QED
    BY <1>3, <2>1, <2>2, ContinueStep DEF Continues, WriteList
<1>4. CASE ~(~me.creates /\ me.held = me.default)
  <2> DEFINE w == Writing(me, l, me.default)
             next == [me EXCEPT !.pc = "commit", !.wrote = w]
  <2>1. CASE Continues(t, NoEdit)
    BY <2>1, ContinueStep DEF Continues
  <2>2. CASE /\ Continues(t, next)
             /\ ~((me.creates /\ list[l].exists) \/ (me.default /\ others # {}))
             /\ me.default => ~IndexBusyFor(t)
    <3>1. me.default \in BOOLEAN
      BY <1>1 DEF Edit
    <3>a. /\ w \in UNION {[ls -> BOOLEAN] : ls \in SUBSET Lists}
          /\ DOMAIN w = DOMAIN me.wrote \cup {l}
          /\ w[l] = me.default
          /\ \A k \in DOMAIN me.wrote \ {l} : w[k] = me.wrote[k]
      <4>1. me \in Edit /\ l \in Lists
        BY <1>1
      <4>2. \A value \in BOOLEAN :
                /\ Writing(me, l, value) \in UNION {[ls -> BOOLEAN] : ls \in SUBSET Lists}
                /\ DOMAIN Writing(me, l, value) = DOMAIN me.wrote \cup {l}
                /\ Writing(me, l, value)[l] = value
                /\ \A k \in DOMAIN me.wrote \ {l} : Writing(me, l, value)[k] = me.wrote[k]
        BY ONLY <4>1, WritingType
      <4>3. QED
        BY ONLY <3>1, <4>2, Zenon
    <3>2. /\ w \in UNION {[ls -> BOOLEAN] : ls \in SUBSET Lists}
          /\ DOMAIN w = DOMAIN me.wrote \cup {l}
          /\ w[l] = me.default
          /\ \A k \in DOMAIN me.wrote \ {l} : ~w[k]
      BY <1>2, <3>a DEF TakesOver
    <3> HIDE DEF w
    <3>3. next \in Edit
      BY <1>1, <3>2 DEF Edit
    <3>4. /\ next.pc = "commit" /\ next.wrote = w /\ next.held = me.held
          /\ next.target = l /\ next.creates = me.creates /\ next.default = me.default
          /\ next.overtaken = me.overtaken
      BY <1>1 DEF Edit
    <3>5. TakesOver(next) => me.default
      BY <3>2, <3>4 DEF TakesOver
    <3>6. EditFine(next)
      BY <1>1, <3>1, <3>2, <3>4 DEF EditFine
    <3>7. EditKnows(next, list)
      <4>1. me.default => \A k \in Lists : list[k].default /\ k # l => k \in DOMAIN w
        BY <2>2, <3>2 DEF Default, ListsInv, RowsFine
      <4>2. QED
        BY <1>1, <3>4, <3>5, <4>1 DEF EditKnows
    <3>8. me.default => \A o \in ListThreads \ {t} : edit[o] = NoEdit \/ ~TakesOver(edit[o])
      BY <2>2 DEF IndexBusyFor, TakesOver
    <3>9. QED
      BY <2>2, <3>3, <3>5, <3>6, <3>7, <3>8, ContinueStep DEF Continues
  <2>3. QED
    BY <1>4, <2>1, <2>2 DEF WriteList
<1>5. QED
  BY <1>3, <1>4

\* The rows after a commit.
LEMMA CommitRows ==
    ASSUME ListsInv, NEW t \in ListThreads, CommitEdit(t)
    PROVE  /\ edit[t] \in Edit /\ EditFine(edit[t]) /\ EditKnows(edit[t], list)
           /\ \A l \in Lists :
                 /\ list'[l].default =
                       IF l \in DOMAIN edit[t].wrote THEN edit[t].wrote[l] ELSE list[l].default
                 /\ list[l].exists => list'[l].exists
           /\ RowsFine(list')
<1> DEFINE me == edit[t]
<1>1. me \in Edit /\ EditFine(me) /\ EditKnows(me, list) /\ me.pc = "commit"
  BY OpenFine DEF CommitEdit
<1>2. \A l \in DOMAIN me.wrote : l \in Lists /\ me.wrote[l] \in BOOLEAN
  BY <1>1 DEF Edit
<1>3. \A l \in Lists : list[l] \in ListRow
  BY DEF ListsInv, RowsFine
<1>4. \A l \in Lists : list'[l] = IF l \in DOMAIN me.wrote
                                  THEN [exists |-> TRUE, default |-> me.wrote[l]] ELSE list[l]
  BY DEF CommitEdit
<1>5. \A l \in Lists :
          /\ list'[l] \in ListRow
          /\ list'[l].default = IF l \in DOMAIN me.wrote THEN me.wrote[l] ELSE list[l].default
          /\ list'[l].exists = IF l \in DOMAIN me.wrote THEN TRUE ELSE list[l].exists
  <2> SUFFICES ASSUME NEW l \in Lists
               PROVE  /\ list'[l] \in ListRow
                      /\ list'[l].default =
                            IF l \in DOMAIN me.wrote THEN me.wrote[l] ELSE list[l].default
                      /\ list'[l].exists =
                            IF l \in DOMAIN me.wrote THEN TRUE ELSE list[l].exists
    OBVIOUS
  <2>1. CASE l \in DOMAIN me.wrote
    <3>1. list'[l] = [exists |-> TRUE, default |-> me.wrote[l]] /\ me.wrote[l] \in BOOLEAN
      BY <1>2, <1>4, <2>1
    <3>2. list'[l].default = me.wrote[l] /\ list'[l].exists = TRUE
      BY <3>1
    <3>3. QED
      BY <2>1, <3>1, <3>2 DEF ListRow
  <2>2. CASE l \notin DOMAIN me.wrote
    BY <1>3, <1>4, <2>2
  <2>3. QED
    BY <2>1, <2>2
<1>6. list' \in [Lists -> ListRow]
  <2>1. list' = [l \in Lists |-> list'[l]]
    BY DEF CommitEdit
  <2>2. QED
    BY <1>5, <2>1
<1>7. \A l \in Lists : list'[l].default => list'[l].exists
  BY <1>5 DEF ListsInv, RowsFine
<1>8. ASSUME NEW k \in Lists, NEW l \in Lists, list'[k].default, list'[l].default
      PROVE  k = l
  <2>1. CASE TakesOver(me)
    <3>1. ASSUME NEW j \in Lists, list'[j].default PROVE j = me.target
      BY <1>1, <1>5, <2>1, <3>1 DEF EditFine, EditKnows
    <3>2. QED
      BY <1>8, <3>1
  <2>2. CASE ~TakesOver(me)
    <3>1. ASSUME NEW j \in Lists, list'[j].default PROVE list[j].default
      BY <1>5, <2>2, <3>1 DEF TakesOver
    <3>2. QED
      BY <1>8, <3>1 DEF ListsInv, RowsFine
  <2>3. QED
    BY <2>1, <2>2
<1>9. QED
  BY <1>1, <1>5, <1>6, <1>7, <1>8 DEF RowsFine

\* A commit writes the rows of one request and overtakes the others.
LEMMA CommitEditInv ==
    ASSUME ListsInv, NEW t \in ListThreads, CommitEdit(t)
    PROVE  ListsInv'
<1> DEFINE me == edit[t]
           changes == \E l \in DOMAIN me.wrote : me.wrote[l] # list[l].default
<1>1. /\ me \in Edit /\ EditFine(me) /\ EditKnows(me, list)
      /\ RowsFine(list')
      /\ \A l \in Lists :
            /\ list'[l].default = IF l \in DOMAIN me.wrote THEN me.wrote[l] ELSE list[l].default
            /\ list[l].exists => list'[l].exists
  BY CommitRows
<1>2. me # NoEdit
  BY <1>1, OpenIsEdit
<1>3. DOMAIN edit' = ListThreads /\ edit'[t] = NoEdit
  BY DEF CommitEdit
<1>4. ASSUME NEW o \in ListThreads \ {t}, edit'[o] # NoEdit
      PROVE  /\ edit[o] # NoEdit /\ edit'[o] \in Edit
             /\ TakesOver(edit'[o]) = TakesOver(edit[o])
             /\ EditFine(edit'[o]) /\ EditKnows(edit'[o], list')
  <2> DEFINE e == edit[o]
             next == [e EXCEPT !.overtaken = @ \/ changes]
  <2>1. edit'[o] = next /\ e # NoEdit
    BY <1>4 DEF CommitEdit
  <2>2. e \in Edit /\ EditFine(e) /\ EditKnows(e, list)
    BY <2>1 DEF ListsInv, EditsFine
  <2>3. changes \in BOOLEAN
    OBVIOUS
  <2> HIDE DEF changes
  <2>4. next \in Edit
    BY <2>2, <2>3 DEF Edit
  <2>5. /\ next.pc = e.pc /\ next.wrote = e.wrote /\ next.held = e.held /\ next.found = e.found
        /\ next.target = e.target /\ next.creates = e.creates /\ next.default = e.default
        /\ next.overtaken = (e.overtaken \/ changes)
    BY <2>2 DEF Edit
  <2>6. TakesOver(next) = TakesOver(e)
    BY <2>5 DEF TakesOver
  <2>7. EditFine(next)
    BY <2>2, <2>5, <2>6 DEF EditFine
  <2>8. e.target \in Lists
    BY <2>2 DEF Edit
  <2>9. ~next.creates => list'[next.target].exists
    BY <1>1, <2>2, <2>5, <2>8 DEF EditKnows
  <2>10. ASSUME next.held, ~next.overtaken PROVE list'[next.target].default
    <3>1. list[e.target].default /\ ~changes
      BY <2>2, <2>5, <2>10 DEF EditKnows
    <3>2. QED
      BY <1>1, <2>5, <2>8, <3>1 DEF changes
  <2>11. ASSUME TakesOver(next), NEW k \in Lists, list'[k].default, k # next.target
         PROVE  k \in DOMAIN next.wrote
    <3>1. ~TakesOver(me)
      BY <1>2, <2>1, <2>6, <2>11 DEF ListsInv, OneTakesOver
    <3>2. list[k].default
      BY <1>1, <2>11, <3>1 DEF TakesOver
    <3>3. QED
      BY <2>2, <2>5, <2>6, <2>11, <3>2 DEF EditKnows
  <2>12. EditKnows(next, list')
    BY <2>9, <2>10, <2>11 DEF EditKnows
  <2>13. QED
    BY <2>1, <2>4, <2>6, <2>7, <2>12
<1>5. EditsFine'
  BY <1>3, <1>4 DEF EditsFine
<1>6. OneTakesOver'
  <2> SUFFICES ASSUME NEW o \in ListThreads, NEW p \in ListThreads,
                      edit'[o] # NoEdit, edit'[p] # NoEdit,
                      TakesOver(edit'[o]), TakesOver(edit'[p])
               PROVE  o = p
    BY DEF OneTakesOver
  <2>1. o # t /\ p # t
    BY <1>3
  <2>2. edit[o] # NoEdit /\ edit[p] # NoEdit /\ TakesOver(edit[o]) /\ TakesOver(edit[p])
    BY <1>4, <2>1
  <2>3. QED
    BY <2>2 DEF ListsInv, OneTakesOver
<1>7. QED
  BY <1>1, <1>5, <1>6 DEF ListsInv

\* No step of the price lists breaks it.
LEMMA ListsStep ==
    ASSUME ListsInv, [PriceListsNext]_priceLists
    PROVE  ListsInv'
<1>1. CASE UNCHANGED priceLists
  BY <1>1 DEF priceLists, ListsInv, EditsFine, OneTakesOver
<1>2. ASSUME NEW t \in ListThreads, DropEdit(t) PROVE ListsInv'
  BY <1>2, ContinueStep DEF DropEdit, Continues
<1>3. QED
  BY <1>1, <1>2, OpenEditInv, FindDefaultInv, ClearDefaultInv, WriteListInv, CommitEditInv
     DEF PriceListsNext

\* A commit that takes the default away.
LEMMA CommitKeepsDefault ==
    ASSUME ListsInv, NEW t \in ListThreads, CommitEdit(t), NEW b \in Lists, Default(b),
           \A l \in Lists : ~(list'[l].exists /\ list'[l].default)
    PROVE  \/ edit[t].overtaken /\ edit[t].held
           \/ edit[t].target = b /\ ~edit[t].default
<1> DEFINE me == edit[t]
<1>1. /\ me \in Edit /\ EditFine(me) /\ EditKnows(me, list) /\ me.pc = "commit"
      /\ RowsFine(list')
      /\ \A l \in Lists :
            list'[l].default = IF l \in DOMAIN me.wrote THEN me.wrote[l] ELSE list[l].default
  BY CommitRows DEF CommitEdit
<1>2. \A l \in Lists : ~list'[l].default
  BY <1>1 DEF RowsFine
<1>3. list[b].default /\ b \in DOMAIN me.wrote /\ me.target \in Lists
  BY <1>1, <1>2 DEF Default, Edit
<1>4. CASE ~me.default
  BY <1>1, <1>3, <1>4 DEF EditFine
<1>5. CASE me.default
  <2>1. me.target \notin DOMAIN me.wrote /\ me.held
    BY <1>1, <1>2, <1>3, <1>5 DEF EditFine
  <2>2. ~list[me.target].default
    BY <1>1, <1>2, <1>3, <2>1
  <2>3. QED
    BY <1>1, <2>1, <2>2 DEF EditKnows
<1>6. QED
  BY <1>1, <1>4, <1>5

\* What DefaultKept asks of every step.
KeptByStep ==
    LET before == {l \in Lists : Default(l)}
        after == {l \in Lists : list'[l].exists /\ list'[l].default}
        open == {edit[t] : t \in ListThreads} \ {NoEdit}
    IN  /\ Cardinality(after) <= 1
        /\ before # {} /\ after = {} =>
              \E e \in open : \/ e.overtaken /\ e.held
                              \/ e.target \in before /\ ~e.default

\* A step that takes the flag from the default without giving it to another list is an
\* edit of that list or loses a race.
LEMMA StepKeepsDefault ==
    ASSUME ListsInv, [PriceListsNext]_priceLists
    PROVE  KeptByStep
<1> DEFINE before == {l \in Lists : Default(l)}
           after == {l \in Lists : list'[l].exists /\ list'[l].default}
           open == {edit[t] : t \in ListThreads} \ {NoEdit}
<1>1. Cardinality(after) <= 1
  <2>1. \A k, l \in after : k = l
    BY ListsStep DEF ListsInv, RowsFine
  <2>2. CASE after = {}
    BY <2>2, FS_EmptySet
  <2>3. ASSUME NEW l \in after PROVE Cardinality(after) <= 1
    <3>1. after = {l}
      BY <2>1
    <3> HIDE DEF after
    <3>2. Cardinality(after) = 1
      BY <3>1, FS_Singleton, Zenon
    <3>3. QED
      BY <3>2
  <2>4. QED
    BY <2>2, <2>3
<1>2. ASSUME before # {}, after = {}
      PROVE  \E e \in open : \/ e.overtaken /\ e.held
                             \/ e.target \in before /\ ~e.default
  <2>1. PICK b \in Lists : Default(b)
    BY <1>2
  <2>2. list' # list
    BY <1>2, <2>1 DEF Default
  <2>3. PICK t \in ListThreads : CommitEdit(t)
    BY <2>2 DEF PriceListsNext, priceLists, OpenEdit, FindDefault, ClearDefault, WriteList,
                DropEdit, Continues
  <2>4. edit[t] \in open
    BY <2>3, CommitRows, OpenIsEdit
  <2>5. \/ edit[t].overtaken /\ edit[t].held
        \/ edit[t].target = b /\ ~edit[t].default
    BY <1>2, <2>1, <2>3, CommitKeepsDefault
  <2>6. QED
    BY <2>1, <2>4, <2>5
<1>3. QED
  BY <1>1, <1>2 DEF KeptByStep

\* A company that has a default price list keeps one: no request takes the flag from
\* one list without setting it on another, unless it was told to, or worked with an
\* answer that a commit in between had made stale (set_default and update_price_list).
THEOREM DefaultListKept == PriceListsSpec => DefaultKept
<1>1. PriceListsInit => ListsInv
  BY ListsStart
<1>2. ListsInv /\ [PriceListsNext]_priceLists => ListsInv'
  BY ListsStep
<1>3. ListsInv /\ [PriceListsNext]_priceLists => [KeptByStep]_priceLists
  BY StepKeepsDefault
<1>4. [][KeptByStep]_priceLists => DefaultKept
  BY PTL DEF DefaultKept, KeptByStep
<1>5. QED
  BY <1>1, <1>2, <1>3, <1>4, PTL DEF PriceListsSpec

-----------------------------------------------------------------------------
(* Organization                                                            *)

-----------------------------------------------------------------------------
(* Units above and below each other                                        *)

\* u is a child, or a child's child, of x.
IsChild(u, x) == Parent[u] = x
\* u is a child of a child of x.
IsGrandchild(u, x) == Parent[u] \in Units /\ Parent[Parent[u]] = x

\* What a deletion of x, or one of a unit above it, is the cause of.
Above(u) == {x \in Units : x = u \/ IsChild(u, x) \/ IsGrandchild(u, x)}

\* The three levels.
LEMMA Levels ==
    ASSUME NEW u \in Units, NEW p \in Units, IsChild(u, p)
    PROVE  /\ u # p
           /\ \A g \in Units : IsChild(p, g) => u # g /\ p # g /\ Parent[g] = NoUnit
BY ParentAssumption DEF IsChild

\* Nothing is above itself.
LEMMA ChildNotAbove ==
    ASSUME NEW u \in Units, NEW r \in Units, IsChild(u, r)
    PROVE  u \notin Above(r)
<1>1. u # r
  BY Levels
<1>2. ~IsChild(r, u)
  <2>1. IsChild(r, u) => Parent[u] = NoUnit /\ Parent[u] = r
    BY Levels DEF IsChild
  <2>2. QED
    BY <2>1, ParentAssumption
<1>3. ~IsGrandchild(r, u)
  <2> SUFFICES ASSUME Parent[r] \in Units, Parent[Parent[r]] = u PROVE FALSE
    BY DEF IsGrandchild
  <2>1. Parent[u] = NoUnit
    BY Levels DEF IsChild
  <2>2. QED
    BY <2>1, ParentAssumption DEF IsChild
<1>4. QED
  BY <1>1, <1>2, <1>3 DEF Above

\* Only it is above a unit with grandchildren.
LEMMA TopAbove ==
    ASSUME NEW g \in Units, Parent[g] = NoUnit
    PROVE  Above(g) = {g}
BY ParentAssumption DEF Above, IsChild, IsGrandchild

-----------------------------------------------------------------------------
(* What a request does to the rows                                         *)

\* An open request with the rows it has read.
OrgRequest == [op: {"create", "update", "delete", "restore"}, unit: Units, code: Codes,
               seen: [Units -> Row]]

\* Deleted by a deletion further up.
Gone(rec) == rec.state = "deleted" /\ rec.cascade

\* u goes with a deletion of x.
TakenBy(rows, x, u) ==
    \/ u = x
    \/ IsChild(u, x) /\ rows[u].state = "live"
    \/ IsGrandchild(u, x) /\ rows[Parent[u]].state = "live" /\ rows[u].state = "live"

\* u comes back with a restoration of x.
BroughtBy(rows, x, u) ==
    \/ u = x
    \/ IsChild(u, x) /\ Gone(rows[u])
    \/ IsGrandchild(u, x) /\ Gone(rows[Parent[u]]) /\ Gone(rows[u])

\* The walks of the two handlers find exactly those.
LEMMA Walks ==
    ASSUME NEW rows, NEW x \in Units, NEW u \in Units
    PROVE  /\ u \in Taken(rows, x) <=> TakenBy(rows, x, u)
           /\ u \in BroughtBack(rows, x) <=> BroughtBy(rows, x, u)
<1>1. \A v : v \in Children({x}) <=> v \in Units /\ Parent[v] = x
  BY DEF Children
<1>2. u \in Taken(rows, x) <=> TakenBy(rows, x, u)
  <2> DEFINE below == {v \in Children({x}) : rows[v].state = "live"}
  <2>1. u \in Children(below) <=> Parent[u] \in Units /\ Parent[Parent[u]] = x
                                  /\ rows[Parent[u]].state = "live"
    BY <1>1 DEF Children
  <2>2. u \in Taken(rows, x) <=> \/ u = x \/ u \in below
                                 \/ u \in Children(below) /\ rows[u].state = "live"
    BY DEF Taken
  <2>3. QED
    BY <1>1, <2>1, <2>2 DEF TakenBy, IsChild, IsGrandchild
<1>3. u \in BroughtBack(rows, x) <=> BroughtBy(rows, x, u)
  <2> DEFINE below == {v \in Children({x}) : rows[v].state = "deleted" /\ rows[v].cascade}
  <2>1. u \in Children(below) <=> Parent[u] \in Units /\ Parent[Parent[u]] = x
                                  /\ Gone(rows[Parent[u]])
    BY <1>1 DEF Children, Gone
  <2>2. u \in BroughtBack(rows, x) <=> \/ u = x \/ u \in below
                                       \/ u \in Children(below) /\ Gone(rows[u])
    BY DEF BroughtBack, Gone
  <2>3. QED
    BY <1>1, <2>1, <2>2 DEF BroughtBy, Gone, IsChild, IsGrandchild
<1>4. QED
  BY <1>2, <1>3

\* Rows that differ in nothing but the code.
Alike(rec, other) == rec.state = other.state /\ rec.cascade = other.cascade

\* The rows in the session of a request.
LEMMA AfterRows ==
    ASSUME NEW q \in OrgRequest, NEW u \in Units
    PROVE  /\ After(q)[u] \in Row
           /\ q.op = "create" =>
                 IF u = q.unit THEN After(q)[u].state = "live" /\ ~After(q)[u].cascade
                 ELSE Alike(After(q)[u], q.seen[u])
           /\ q.op = "update" => Alike(After(q)[u], q.seen[u])
           /\ q.op = "delete" =>
                 IF TakenBy(q.seen, q.unit, u)
                 THEN After(q)[u].state = "deleted" /\ After(q)[u].cascade = (u # q.unit)
                 ELSE Alike(After(q)[u], q.seen[u])
           /\ q.op = "restore" =>
                 IF BroughtBy(q.seen, q.unit, u)
                 THEN After(q)[u].state = "live" /\ ~After(q)[u].cascade
                 ELSE Alike(After(q)[u], q.seen[u])
<1> DEFINE rows == q.seen
           x == q.unit
<1>1. /\ q.op \in {"create", "update", "delete", "restore"} /\ x \in Units
      /\ q.code \in Codes /\ rows \in [Units -> Row] /\ rows[u] \in Row
  BY DEF OrgRequest
<1>2. /\ rows[u].state \in {"absent", "live", "deleted"} /\ rows[u].cascade \in BOOLEAN
      /\ rows[u].code \in Codes
  BY <1>1 DEF Row
<1>3. CASE q.op = "create"
  <2>1. After(q) = [rows EXCEPT ![x] = [state |-> "live", cascade |-> FALSE, code |-> q.code]]
    BY <1>3 DEF After
  <2>2. [state |-> "live", cascade |-> FALSE, code |-> q.code] \in Row
    BY <1>1 DEF Row
  <2>3. After(q)[u] = IF u = x THEN [state |-> "live", cascade |-> FALSE, code |-> q.code]
                      ELSE rows[u]
    BY <1>1, <2>1
  <2>4. QED
    BY <1>1, <1>3, <2>2, <2>3 DEF Alike
<1>4. CASE q.op = "update"
  <2>1. After(q) = [rows EXCEPT ![x].code = q.code]
    BY <1>4 DEF After
  <2>2. After(q)[u] = IF u = x THEN [rows[u] EXCEPT !.code = q.code] ELSE rows[u]
    BY <1>1, <2>1
  <2>3. [rows[u] EXCEPT !.code = q.code] \in Row /\ Alike([rows[u] EXCEPT !.code = q.code], rows[u])
    BY <1>1 DEF Row, Alike
  <2>4. QED
    BY <1>1, <1>4, <2>2, <2>3 DEF Alike
<1>5. CASE q.op = "delete"
  <2> DEFINE new == [rows[u] EXCEPT !.state = "deleted", !.cascade = u # x]
  <2>1. After(q)[u] = IF u \in Taken(rows, x) THEN new ELSE rows[u]
    BY <1>5 DEF After
  <2>2. new \in Row /\ new.state = "deleted" /\ new.cascade = (u # x)
    BY <1>1 DEF Row
  <2>3. u \in Taken(rows, x) <=> TakenBy(rows, x, u)
    BY <1>1, Walks
  <2> HIDE DEF new
  <2>4. QED
    BY <1>1, <1>5, <2>1, <2>2, <2>3 DEF Alike
<1>6. CASE q.op = "restore"
  <2> DEFINE new == [rows[u] EXCEPT !.state = "live", !.cascade = FALSE]
  <2>1. After(q)[u] = IF u \in BroughtBack(rows, x) THEN new ELSE rows[u]
    BY <1>6 DEF After
  <2>2. new \in Row /\ new.state = "live" /\ ~new.cascade
    BY <1>1 DEF Row
  <2>3. u \in BroughtBack(rows, x) <=> BroughtBy(rows, x, u)
    BY <1>1, Walks
  <2> HIDE DEF new
  <2>4. QED
    BY <1>1, <1>6, <2>1, <2>2, <2>3 DEF Alike
<1>7. QED
  BY <1>1, <1>3, <1>4, <1>5, <1>6

\* The columns of the table after it.
LEMMA WrittenRows ==
    ASSUME NEW q \in OrgRequest, NEW u \in Units, unit \in [Units -> Row]
    PROVE  /\ Flushed(q)[u] \in Row
           /\ Flushed(q)[u].state = IF After(q)[u].state = q.seen[u].state THEN unit[u].state
                                    ELSE After(q)[u].state
           /\ Flushed(q)[u].cascade = IF After(q)[u].cascade = q.seen[u].cascade
                                      THEN unit[u].cascade ELSE After(q)[u].cascade
<1>1. unit[u] \in Row /\ After(q)[u] \in Row
  BY AfterRows
<1> DEFINE new == After(q)
           col(c) == IF new[u][c] = q.seen[u][c] THEN unit[u][c] ELSE new[u][c]
           w == [c \in {"state", "cascade", "code"} |-> col(c)]
<1>2. Flushed(q)[u] = w
  BY DEF Flushed
<1>3. w["state"] = col("state") /\ w["cascade"] = col("cascade") /\ w["code"] = col("code")
  OBVIOUS
<1>4. /\ col("state") \in {"absent", "live", "deleted"} /\ col("cascade") \in BOOLEAN
      /\ col("code") \in Codes
  BY <1>1 DEF Row
<1>5. w \in Row
  BY <1>3, <1>4 DEF Row
<1>6. QED
  BY <1>2, <1>3, <1>5

-----------------------------------------------------------------------------
(* The invariant                                                           *)

\* The request of e is open.
Asking(e) == editing[e] # NoRequest

\* What the handlers asked for before they opened the request.
Admitted(q) ==
    /\ q.op = "create" => q.seen[q.unit].state = "absent"
    /\ q.op = "delete" => q.seen[q.unit].state = "live"
    /\ q.op = "restore" => q.seen[q.unit].state = "deleted"

\* The types, with what the handlers have checked of an open request.
OrgTypeOK ==
    /\ unit \in [Units -> Row]
    /\ DOMAIN editing = Editors
    /\ \A e \in Editors : Asking(e) => editing[e] \in OrgRequest /\ Admitted(editing[e])
    /\ disturbed \subseteq Units

\* Of an undisturbed unit every open request has seen what the table holds.
SeenAsIs ==
    \A e \in Editors : Asking(e) =>
        \A u \in Units \ disturbed : Alike(editing[e].seen[u], unit[u])

\* A unit is gone by cascade exactly if the deletion was one of a unit above it.
CauseFine(rec, u, c) ==
    IF rec.state = "deleted" THEN c \in Above(u) /\ (rec.cascade <=> c # u) ELSE ~rec.cascade
\* ... of every row that no overlapping request has touched.
CausesFine == \A u \in Units \ disturbed : CauseFine(unit[u], u, cause[u])

\* What went by cascade went with the unit above it.
GoneTogether ==
    \A u, w \in Units \ disturbed :
        IsChild(u, w) /\ Gone(unit[u]) => unit[w].state = "deleted" /\ cause[u] = cause[w]

\* Only a deletion of g, under no open request, takes a child p of g by cascade.
Clean(rec) == rec.cascade => rec.state = "deleted"
\* ... of every such row and all below it.
ChildrenClean ==
    \A p \in Units, g \in Units \ disturbed : IsChild(p, g) /\ Parent[g] = NoUnit =>
        /\ Clean(unit[p])
        /\ \A e \in Editors : Asking(e) =>
              Clean(editing[e].seen[p]) /\ (unit[p].cascade => editing[e].seen[p].cascade)

\* While a unit is gone by cascade, the unit between it and the one above that is gone as the
\* cause says, whatever disturbed that one.
Between(rec, c, g) == rec.state = "deleted" /\ (rec.cascade <=> c = g)
\* ... wherever a deletion of a company came down two levels.
BetweenGone ==
    \A u \in Units \ disturbed, p \in Units, g \in Units \ disturbed :
        IsChild(u, p) /\ IsChild(p, g) /\ unit[u].state = "deleted" /\ cause[u] # u =>
            /\ Between(unit[p], cause[u], g)
            /\ \A e \in Editors : Asking(e) => Between(editing[e].seen[p], cause[u], g)

\* The invariant.
OrgInv ==
    OrgTypeOK /\ SeenAsIs /\ CausesFine /\ GoneTogether /\ ChildrenClean /\ BetweenGone

\* At first the established units are live.
LEMMA OrgStarts ==
    ASSUME OrganizationInit
    PROVE  OrgInv
<1>1. PICK code \in Codes :
          unit = [u \in Units |-> [state |-> IF u \in Established THEN "live" ELSE "absent",
                                   cascade |-> FALSE, code |-> code]]
  BY DEF OrganizationInit
<1>2. /\ \A e \in Editors : ~Asking(e)
      /\ DOMAIN editing = Editors /\ disturbed = {}
  BY DEF OrganizationInit, Asking
<1>3. \A u \in Units : unit[u] \in Row /\ unit[u].state # "deleted" /\ ~unit[u].cascade
  BY <1>1 DEF Row
<1>4. unit \in [Units -> Row]
  BY <1>1, <1>3
<1>5. QED
  BY <1>2, <1>3, <1>4 DEF OrgInv, OrgTypeOK, SeenAsIs, CausesFine, CauseFine, GoneTogether, Gone,
     ChildrenClean, Clean, BetweenGone

\* A new request sees the table.
LEMMA OpenRequestInv ==
    ASSUME OrgInv, NEW e \in Editors, NEW op \in {"create", "update", "delete", "restore"},
           NEW u \in Units, NEW c \in Codes, OpenRequest(e, op, u, c)
    PROVE  OrgInv'
<1> DEFINE q == [op |-> op, unit |-> u, code |-> c, seen |-> unit]
<1>1. q \in OrgRequest /\ Admitted(q) /\ q.seen = unit
  BY DEF OrgInv, OrgTypeOK, OrgRequest, Admitted, OpenRequest, Admits
<1>2. /\ DOMAIN editing' = Editors
      /\ \A d \in Editors : editing'[d] = IF d = e THEN q ELSE editing[d]
  BY DEF OpenRequest, OrgInv, OrgTypeOK
<1> HIDE DEF q
<1>3. unit' = unit /\ cause' = cause /\ disturbed' = disturbed
  BY DEF OpenRequest
<1>4. OrgTypeOK'
  BY <1>1, <1>2, <1>3 DEF OrgInv, OrgTypeOK, Asking
<1>5. SeenAsIs'
  BY <1>1, <1>2, <1>3 DEF OrgInv, SeenAsIs, Asking, Alike
<1>6. CausesFine' /\ GoneTogether'
  BY <1>3 DEF OrgInv, CausesFine, GoneTogether
<1>7. ChildrenClean'
  BY <1>1, <1>2, <1>3 DEF OrgInv, ChildrenClean, Asking
<1>8. BetweenGone'
  BY <1>1, <1>2, <1>3 DEF OrgInv, BetweenGone, Asking
<1>9. QED
  BY <1>4, <1>5, <1>6, <1>7, <1>8 DEF OrgInv

\* A request that ends without a commit.
LEMMA DropRequestInv ==
    ASSUME OrgInv, NEW e \in Editors, DropRequest(e)
    PROVE  OrgInv'
<1>1. /\ DOMAIN editing' = Editors
      /\ \A d \in Editors : editing'[d] = IF d = e THEN NoRequest ELSE editing[d]
  BY DEF DropRequest, OrgInv, OrgTypeOK
<1>2. unit' = unit /\ cause' = cause /\ disturbed' = disturbed
  BY DEF DropRequest
<1>3. OrgTypeOK'
  BY <1>1, <1>2 DEF OrgInv, OrgTypeOK, Asking
<1>4. SeenAsIs'
  BY <1>1, <1>2 DEF OrgInv, SeenAsIs, Asking
<1>5. CausesFine' /\ GoneTogether'
  BY <1>2 DEF OrgInv, CausesFine, GoneTogether
<1>6. ChildrenClean'
  BY <1>1, <1>2 DEF OrgInv, ChildrenClean, Asking
<1>7. BetweenGone'
  BY <1>1, <1>2 DEF OrgInv, BetweenGone, Asking
<1>8. QED
  BY <1>3, <1>4, <1>5, <1>6, <1>7 DEF OrgInv

-----------------------------------------------------------------------------
(* The commit                                                              *)

\* What a commit does: to undisturbed units what the session did to them, and nothing to
\* those if another request is open.
LEMMA FinishFacts ==
    ASSUME OrgInv, NEW e \in Editors, FinishRequest(e)
    PROVE  /\ editing[e] \in OrgRequest /\ Admitted(editing[e])
           /\ unit' \in [Units -> Row]
           /\ disturbed \subseteq disturbed' /\ disturbed' \subseteq Units
           /\ DOMAIN editing' = Editors
           /\ \A d \in Editors : editing'[d] = IF d = e THEN NoRequest ELSE editing[d]
           /\ \A u \in Units :
                 /\ unit'[u] = Flushed(editing[e])[u]
                 /\ cause'[u] = IF unit'[u].state = unit[u].state THEN cause[u]
                                ELSE IF unit'[u].state = "deleted" THEN editing[e].unit
                                ELSE NoUnit
           /\ \A u \in Units \ disturbed' :
                 /\ Alike(editing[e].seen[u], unit[u])
                 /\ Alike(unit'[u], After(editing[e])[u])
                 /\ (\E d \in Editors \ {e} : Asking(d)) => unit'[u] = unit[u]
<1> DEFINE q == editing[e]
<1>1. q \in OrgRequest /\ Admitted(q) /\ q.unit \in Units
  BY DEF FinishRequest, OrgInv, OrgTypeOK, Asking, OrgRequest
<1>2. unit' = Flushed(q)
  BY DEF FinishRequest
<1>3. \A u \in Units : Flushed(q)[u] \in Row
  BY <1>1, WrittenRows DEF OrgInv, OrgTypeOK
<1>4. unit' \in [Units -> Row]
  <2>1. Flushed(q) = [u \in Units |-> Flushed(q)[u]]
    BY DEF Flushed
  <2>2. QED
    BY <1>2, <1>3, <2>1
<1>5. disturbed' = IF {d \in Editors \ {e} : editing[d] # NoRequest} = {} THEN disturbed
                   ELSE disturbed \cup {u \in Units : Flushed(q)[u] # unit[u]}
  BY DEF FinishRequest
<1>6. disturbed \subseteq disturbed' /\ disturbed' \subseteq Units
  BY <1>5 DEF OrgInv, OrgTypeOK
<1>7. DOMAIN editing' = Editors
      /\ \A d \in Editors : editing'[d] = IF d = e THEN NoRequest ELSE editing[d]
  BY DEF FinishRequest, OrgInv, OrgTypeOK
<1>8. \A u \in Units : cause'[u] = IF unit'[u].state = unit[u].state THEN cause[u]
                                   ELSE IF unit'[u].state = "deleted" THEN q.unit ELSE NoUnit
  BY DEF FinishRequest
<1>9. ASSUME NEW u \in Units \ disturbed'
      PROVE  /\ Alike(q.seen[u], unit[u])
             /\ Alike(unit'[u], After(q)[u])
             /\ (\E d \in Editors \ {e} : Asking(d)) => unit'[u] = unit[u]
  <2>1. Alike(q.seen[u], unit[u])
    BY <1>6 DEF OrgInv, SeenAsIs, FinishRequest, Asking
  <2>2. Alike(unit'[u], After(q)[u])
    BY <1>1, <1>2, <2>1, WrittenRows DEF OrgInv, OrgTypeOK, Alike
  <2>3. (\E d \in Editors \ {e} : Asking(d)) => unit'[u] = unit[u]
    BY <1>2, <1>5 DEF Asking
  <2>4. QED
    BY <2>1, <2>2, <2>3
<1>10. QED
  BY <1>1, <1>2, <1>4, <1>6, <1>7, <1>8, <1>9

\* What becomes of an undisturbed unit.
LEMMA Outcomes ==
    ASSUME OrgInv, NEW e \in Editors, FinishRequest(e), NEW u \in Units \ disturbed'
    PROVE  LET q == editing[e]
           IN  /\ q.op = "create" =>
                     IF u = q.unit THEN unit'[u].state = "live" /\ ~unit'[u].cascade
                                        /\ unit[u].state = "absent"
                     ELSE Alike(unit'[u], unit[u])
               /\ q.op = "update" => Alike(unit'[u], unit[u])
               /\ q.op = "delete" =>
                     IF TakenBy(q.seen, q.unit, u)
                     THEN /\ unit[u].state = "live" /\ unit'[u].state = "deleted"
                          /\ unit'[u].cascade = (u # q.unit) /\ cause'[u] = q.unit
                     ELSE Alike(unit'[u], unit[u])
               /\ q.op = "restore" =>
                     IF BroughtBy(q.seen, q.unit, u)
                     THEN /\ unit[u].state = "deleted"
                          /\ unit'[u].state = "live" /\ ~unit'[u].cascade
                     ELSE Alike(unit'[u], unit[u])
               /\ Alike(unit'[u], unit[u]) => cause'[u] = cause[u]
<1> DEFINE q == editing[e]
<1>1. /\ q \in OrgRequest /\ Admitted(q)
      /\ Alike(q.seen[u], unit[u]) /\ Alike(unit'[u], After(q)[u])
      /\ cause'[u] = IF unit'[u].state = unit[u].state THEN cause[u]
                     ELSE IF unit'[u].state = "deleted" THEN q.unit ELSE NoUnit
  BY FinishFacts
<1>2. /\ q.op = "create" =>
            IF u = q.unit THEN After(q)[u].state = "live" /\ ~After(q)[u].cascade
            ELSE Alike(After(q)[u], q.seen[u])
      /\ q.op = "update" => Alike(After(q)[u], q.seen[u])
      /\ q.op = "delete" =>
            IF TakenBy(q.seen, q.unit, u)
            THEN After(q)[u].state = "deleted" /\ After(q)[u].cascade = (u # q.unit)
            ELSE Alike(After(q)[u], q.seen[u])
      /\ q.op = "restore" =>
            IF BroughtBy(q.seen, q.unit, u)
            THEN After(q)[u].state = "live" /\ ~After(q)[u].cascade
            ELSE Alike(After(q)[u], q.seen[u])
  BY <1>1, AfterRows
<1>3. q.op = "delete" /\ TakenBy(q.seen, q.unit, u) => q.seen[u].state = "live"
  BY <1>1 DEF TakenBy, Admitted
<1>4. q.op = "restore" /\ BroughtBy(q.seen, q.unit, u) => q.seen[u].state = "deleted"
  BY <1>1 DEF BroughtBy, Gone, Admitted
<1>5. q.op = "create" /\ u = q.unit => q.seen[u].state = "absent"
  BY <1>1 DEF Admitted
<1> HIDE DEF q
<1>6. QED
  BY <1>1, <1>2, <1>3, <1>4, <1>5 DEF Alike, q

\* A commit leaves rows behind.
LEMMA FinishTyped ==
    ASSUME OrgInv, NEW e \in Editors, FinishRequest(e)
    PROVE  OrgTypeOK' /\ SeenAsIs' /\ CausesFine'
<1>1. OrgTypeOK'
  BY FinishFacts DEF OrgInv, OrgTypeOK, Asking
<1>2. SeenAsIs'
  <2> SUFFICES ASSUME NEW d \in Editors, editing'[d] # NoRequest, NEW u \in Units \ disturbed'
               PROVE  Alike(editing'[d].seen[u], unit'[u])
    BY DEF SeenAsIs, Asking
  <2>1. d # e /\ editing'[d] = editing[d] /\ u \in Units \ disturbed
    BY FinishFacts
  <2>2. unit'[u] = unit[u]
    BY <2>1, FinishFacts DEF Asking
  <2>3. QED
    BY <2>1, <2>2 DEF OrgInv, SeenAsIs, Asking
<1>3. CausesFine'
  <2> SUFFICES ASSUME NEW u \in Units \ disturbed'
               PROVE  CauseFine(unit'[u], u, cause'[u])
    BY DEF CausesFine
  <2> DEFINE q == editing[e]
  <2>1. CauseFine(unit[u], u, cause[u]) /\ q.unit \in Units
    BY FinishFacts DEF OrgInv, CausesFine, OrgRequest
  <2>2. CASE Alike(unit'[u], unit[u])
    BY <2>1, <2>2, Outcomes DEF CauseFine, Alike
  <2>3. CASE q.op = "delete" /\ TakenBy(q.seen, q.unit, u)
    <3>1. /\ unit'[u].state = "deleted"
          /\ unit'[u].cascade = (u # q.unit) /\ cause'[u] = q.unit
      BY <2>3, Outcomes
    <3>2. q.unit \in Above(u)
      BY <2>1, <2>3 DEF TakenBy, Above
    <3>3. QED
      BY <3>1, <3>2 DEF CauseFine
  <2>4. CASE unit'[u].state = "live" /\ ~unit'[u].cascade
    BY <2>4 DEF CauseFine
  <2>5. q.op \in {"create", "update", "delete", "restore"}
    BY FinishFacts DEF OrgRequest
  <2>6. QED
    BY <2>2, <2>3, <2>4, <2>5, Outcomes
<1>4. QED
  BY <1>1, <1>2, <1>3

\* A commit keeps together what went together.
LEMMA FinishTogether ==
    ASSUME OrgInv, NEW e \in Editors, FinishRequest(e)
    PROVE  GoneTogether'
<1> SUFFICES ASSUME NEW u \in Units \ disturbed', NEW w \in Units \ disturbed',
                    IsChild(u, w), Gone(unit'[u])
             PROVE  unit'[w].state = "deleted" /\ cause'[u] = cause'[w]
  BY DEF GoneTogether
<1> DEFINE q == editing[e]
           x == q.unit
<1>1. /\ q \in OrgRequest /\ q.op \in {"create", "update", "delete", "restore"} /\ x \in Units
      /\ Alike(q.seen[u], unit[u]) /\ Alike(q.seen[w], unit[w])
      /\ u \in Units \ disturbed /\ w \in Units \ disturbed
  BY FinishFacts DEF OrgRequest
<1>2. Gone(unit[u]) => unit[w].state = "deleted" /\ cause[u] = cause[w]
  BY <1>1 DEF OrgInv, GoneTogether
<1>3. CASE q.op = "delete" /\ TakenBy(q.seen, x, u)
  <2>1. cause'[u] = x /\ x # u
    BY <1>3, Outcomes DEF Gone
  <2>2. IsChild(u, x) => w = x
    BY DEF IsChild
  <2>3. IsGrandchild(u, x) => IsChild(w, x) /\ w = Parent[u]
    BY DEF IsChild, IsGrandchild
  <2>4. TakenBy(q.seen, x, w)
    BY <1>3, <2>1, <2>2, <2>3 DEF TakenBy
  <2>5. QED
    BY <1>3, <2>1, <2>4, Outcomes
<1>4. CASE Alike(unit'[u], unit[u])
  <2>1. Gone(unit[u]) /\ cause'[u] = cause[u]
    BY <1>4, Outcomes DEF Gone, Alike
  <2>2. unit[w].state = "deleted" /\ cause[u] = cause[w]
    BY <1>2, <2>1
  <2>3. CASE Alike(unit'[w], unit[w])
    BY <2>1, <2>2, <2>3, Outcomes DEF Alike
  <2>4. CASE ~Alike(unit'[w], unit[w])
    <3>1. q.op = "restore" /\ BroughtBy(q.seen, x, w)
      BY <1>1, <2>2, <2>4, Outcomes
    <3>2. Gone(q.seen[u])
      BY <1>1, <2>1 DEF Gone, Alike
    <3>3. BroughtBy(q.seen, x, u)
      <4>1. CASE w = x
        BY <3>2, <4>1 DEF BroughtBy
      <4>2. CASE IsChild(w, x) /\ Gone(q.seen[w])
        BY <1>1, <3>2, <4>2 DEF BroughtBy, IsChild, IsGrandchild
      <4>3. CASE IsGrandchild(w, x)
        <5>1. Parent[w] \in Units /\ IsChild(w, Parent[w]) /\ Parent[Parent[w]] = x
          BY <4>3 DEF IsGrandchild, IsChild
        <5>2. Parent[Parent[w]] = NoUnit
          BY <5>1, Levels
        <5>3. QED
          BY <1>1, <5>1, <5>2, ParentAssumption
      <4>4. QED
        BY <3>1, <4>1, <4>2, <4>3 DEF BroughtBy
    <3>4. unit'[u].state = "live"
      BY <3>1, <3>3, Outcomes
    <3>5. QED
      BY <3>4 DEF Gone
  <2>5. QED
    BY <2>3, <2>4
<1>5. CASE unit'[u].state = "live"
  BY <1>5 DEF Gone
<1>6. QED
  BY <1>1, <1>3, <1>4, <1>5, Outcomes

\* A column of a unit between two others.
LEMMA MiddleColumns ==
    ASSUME OrgInv, NEW e \in Editors, FinishRequest(e), NEW p \in Units
    PROVE  LET q == editing[e]
           IN  /\ q.seen[p] \in Row /\ unit[p] \in Row /\ After(q)[p] \in Row
               /\ unit'[p].state = IF After(q)[p].state = q.seen[p].state THEN unit[p].state
                                   ELSE After(q)[p].state
               /\ unit'[p].cascade = IF After(q)[p].cascade = q.seen[p].cascade
                                     THEN unit[p].cascade ELSE After(q)[p].cascade
<1>1. editing[e] \in OrgRequest /\ unit'[p] = Flushed(editing[e])[p]
  BY FinishFacts
<1>2. editing[e].seen[p] \in Row /\ unit[p] \in Row
  BY <1>1 DEF OrgRequest, OrgInv, OrgTypeOK
<1>3. QED
  BY <1>1, <1>2, AfterRows, WrittenRows DEF OrgInv, OrgTypeOK

\* Only the deletion of g takes its child by cascade.
LEMMA ChildTaken ==
    ASSUME NEW rows, NEW x \in Units, NEW p \in Units, NEW g \in Units,
           IsChild(p, g), Parent[g] = NoUnit
    PROVE  /\ TakenBy(rows, x, p) => x = p \/ (x = g /\ rows[p].state = "live")
           /\ BroughtBy(rows, x, p) => x = p \/ (x = g /\ Gone(rows[p]))
BY ParentAssumption DEF TakenBy, BroughtBy, IsChild, IsGrandchild

\* A commit leaves no live row that counts as taken along.
LEMMA FinishClean ==
    ASSUME OrgInv, NEW e \in Editors, FinishRequest(e)
    PROVE  ChildrenClean'
<1> SUFFICES ASSUME NEW p \in Units, NEW g \in Units \ disturbed',
                    IsChild(p, g), Parent[g] = NoUnit
             PROVE  /\ Clean(unit'[p])
                    /\ \A d \in Editors : editing'[d] # NoRequest =>
                          /\ Clean(editing'[d].seen[p])
                          /\ unit'[p].cascade => editing'[d].seen[p].cascade
  BY DEF ChildrenClean, Asking
<1> DEFINE q == editing[e]
           x == q.unit
           new == After(q)[p]
           seen == q.seen[p]
<1>1. /\ q \in OrgRequest /\ Admitted(q) /\ q.op \in {"create", "update", "delete", "restore"}
      /\ x \in Units /\ g \in Units \ disturbed /\ Asking(e)
  BY FinishFacts DEF OrgRequest, FinishRequest, Asking
<1>2. /\ Clean(unit[p]) /\ Clean(seen) /\ (unit[p].cascade => seen.cascade)
      /\ \A d \in Editors : Asking(d) =>
            Clean(editing[d].seen[p]) /\ (unit[p].cascade => editing[d].seen[p].cascade)
  BY <1>1 DEF OrgInv, ChildrenClean
<1>3. /\ seen \in Row /\ unit[p] \in Row /\ new \in Row
      /\ unit'[p].state = IF new.state = seen.state THEN unit[p].state ELSE new.state
      /\ unit'[p].cascade = IF new.cascade = seen.cascade THEN unit[p].cascade ELSE new.cascade
  BY MiddleColumns
<1>4. \/ Alike(new, seen)
      \/ q.op = "delete" /\ TakenBy(q.seen, x, p) /\ new.state = "deleted"
         /\ new.cascade = (p # x) /\ seen.state = "live"
      \/ new.state = "live" /\ ~new.cascade
  BY <1>1, AfterRows DEF TakenBy, Admitted
<1>5. Clean(unit'[p])
  <2>1. CASE Alike(new, seen)
    BY <1>2, <1>3, <2>1 DEF Alike, Clean
  <2>2. CASE new.state = "deleted" /\ seen.state = "live"
    BY <1>3, <2>2 DEF Clean
  <2>3. CASE new.state = "live" /\ ~new.cascade
    BY <1>2, <1>3, <2>3 DEF Clean, Row
  <2>4. QED
    BY <1>4, <2>1, <2>2, <2>3
<1>6. ASSUME NEW d \in Editors, editing'[d] # NoRequest
      PROVE  /\ Clean(editing'[d].seen[p])
             /\ unit'[p].cascade => editing'[d].seen[p].cascade
  <2>1. d # e /\ editing'[d] = editing[d] /\ Asking(d)
    BY <1>6, FinishFacts DEF Asking
  <2>2. Clean(editing'[d].seen[p]) /\ (unit[p].cascade => editing'[d].seen[p].cascade)
    BY <1>2, <2>1
  <2>3. ASSUME unit'[p].cascade, ~unit[p].cascade PROVE FALSE
    <3>1. ~Alike(new, seen) /\ new.cascade
      BY <1>3, <2>3 DEF Alike, Row
    <3>2. q.op = "delete" /\ TakenBy(q.seen, x, p) /\ p # x
      BY <1>4, <3>1
    <3>3. x = g
      BY <1>1, <3>2, ChildTaken
    <3>4. TakenBy(q.seen, x, g)
      BY <3>3 DEF TakenBy
    <3>5. unit[g].state = "live" /\ unit'[g].state = "deleted"
      BY <3>2, <3>4, Outcomes
    <3>6. unit'[g] = unit[g]
      BY <2>1, FinishFacts
    <3>7. QED
      BY <3>5, <3>6
  <2>4. QED
    BY <2>2, <2>3
<1>7. QED
  BY <1>5, <1>6

\* A commit keeps the rows between a deleted company and what went with it.
LEMMA FinishBetween ==
    ASSUME OrgInv, NEW e \in Editors, FinishRequest(e)
    PROVE  BetweenGone'
<1> SUFFICES ASSUME NEW u \in Units \ disturbed', NEW p \in Units, NEW g \in Units \ disturbed',
                    IsChild(u, p), IsChild(p, g),
                    unit'[u].state = "deleted", cause'[u] # u
             PROVE  /\ Between(unit'[p], cause'[u], g)
                    /\ \A d \in Editors : editing'[d] # NoRequest =>
                          Between(editing'[d].seen[p], cause'[u], g)
  BY DEF BetweenGone, Asking
<1> DEFINE q == editing[e]
           x == q.unit
           new == After(q)[p]
           seen == q.seen[p]
<1>1. /\ q \in OrgRequest /\ Admitted(q) /\ q.op \in {"create", "update", "delete", "restore"}
      /\ x \in Units /\ Asking(e) /\ Alike(q.seen[u], unit[u])
      /\ u \in Units \ disturbed /\ g \in Units \ disturbed
  BY FinishFacts DEF OrgRequest, FinishRequest, Asking
<1>2. /\ seen \in Row /\ unit[p] \in Row /\ new \in Row
      /\ unit'[p].state = IF new.state = seen.state THEN unit[p].state ELSE new.state
      /\ unit'[p].cascade = IF new.cascade = seen.cascade THEN unit[p].cascade ELSE new.cascade
  BY MiddleColumns
<1>3. u # p /\ u # g /\ p # g /\ Parent[g] = NoUnit
  BY Levels
<1>4. Clean(seen) /\ (unit[p].cascade => seen.cascade)
  BY <1>1, <1>3 DEF OrgInv, ChildrenClean
<1>5. CASE q.op = "delete" /\ TakenBy(q.seen, x, u)
  <2>1. unit[u].state = "live" /\ cause'[u] = x /\ x # u
    BY <1>5, Outcomes
  <2>2. \A d \in Editors : d = e \/ ~Asking(d)
    BY <2>1, FinishFacts
  <2>3. \A d \in Editors : editing'[d] = NoRequest
    BY <2>2, FinishFacts DEF Asking
  <2>4. (x = p \/ x = g) /\ seen.state = "live"
    BY <1>1, <1>5, <2>1 DEF TakenBy, IsChild, IsGrandchild, Admitted
  <2>5. TakenBy(q.seen, x, p)
    BY <2>4 DEF TakenBy
  <2>6. new.state = "deleted" /\ new.cascade = (p # x)
    BY <1>1, <1>5, <2>5, AfterRows
  <2>7. ~seen.cascade /\ ~unit[p].cascade
    BY <1>4, <2>4 DEF Clean
  <2>8. unit'[p].state = "deleted" /\ (unit'[p].cascade <=> p # x)
    BY <1>2, <2>4, <2>6, <2>7 DEF Row
  <2>9. QED
    BY <1>3, <2>1, <2>3, <2>4, <2>8 DEF Between
<1>6. CASE Alike(unit'[u], unit[u])
  <2>1. unit[u].state = "deleted" /\ cause'[u] = cause[u] /\ cause[u] # u
    BY <1>6, Outcomes DEF Alike
  <2>2. /\ Between(unit[p], cause[u], g)
        /\ \A d \in Editors : Asking(d) => Between(editing[d].seen[p], cause[u], g)
    BY <1>1, <2>1 DEF OrgInv, BetweenGone
  <2>3. Between(seen, cause[u], g)
    BY <1>1, <2>2
  <2>4. Gone(q.seen[u])
    BY <1>1, <2>1 DEF OrgInv, CausesFine, CauseFine, Alike, Gone
  <2>5. Alike(new, seen)
    <3>1. ASSUME q.op = "create" PROVE x # p
      BY <1>1, <2>3, <3>1 DEF Admitted, Between
    <3>2. ASSUME q.op = "delete" PROVE ~TakenBy(q.seen, x, p)
      BY <1>1, <1>3, <2>3, <3>2, ChildTaken DEF Admitted, Between
    <3>3. ASSUME q.op = "restore", BroughtBy(q.seen, x, p) PROVE FALSE
      <4>1. x = p \/ (x = g /\ Gone(seen))
        BY <1>1, <1>3, <3>3, ChildTaken
      <4>2. BroughtBy(q.seen, x, u)
        BY <2>4, <4>1 DEF BroughtBy, IsChild, IsGrandchild
      <4>3. unit'[u].state = "live"
        BY <3>3, <4>2, Outcomes
      <4>4. QED
        BY <4>3
    <3>4. QED
      BY <1>1, <3>1, <3>2, <3>3, AfterRows
  <2>6. Between(unit'[p], cause'[u], g)
    BY <1>2, <2>1, <2>2, <2>5 DEF Alike, Between
  <2>7. \A d \in Editors : editing'[d] # NoRequest => Between(editing'[d].seen[p], cause'[u], g)
    BY <2>1, <2>2, FinishFacts DEF Asking
  <2>8. QED
    BY <2>6, <2>7
<1>7. CASE unit'[u].state = "live"
  BY <1>7
<1>8. QED
  BY <1>1, <1>5, <1>6, <1>7, Outcomes

\* No step of the organization breaks it.
LEMMA OrgStep ==
    ASSUME OrgInv, [OrganizationNext]_organization
    PROVE  OrgInv'
<1>1. CASE UNCHANGED organization
  BY <1>1 DEF organization, OrgInv, OrgTypeOK, SeenAsIs, CausesFine, GoneTogether, ChildrenClean,
              BetweenGone, Asking
<1>2. ASSUME NEW e \in Editors, NEW op \in {"create", "update"}, NEW u \in Units, NEW c \in Codes,
             OpenRequest(e, op, u, c)
      PROVE  OrgInv'
  BY <1>2, OpenRequestInv
<1>3. ASSUME NEW e \in Editors, NEW op \in {"delete", "restore"}, NEW u \in Units,
             OpenRequest(e, op, u, unit[u].code)
      PROVE  OrgInv'
  <2>1. unit[u].code \in Codes
    BY DEF OrgInv, OrgTypeOK, Row
  <2>2. QED
    BY <1>3, <2>1, OpenRequestInv
<1>4. ASSUME NEW e \in Editors, FinishRequest(e) PROVE OrgInv'
  BY <1>4, FinishTyped, FinishTogether, FinishClean, FinishBetween DEF OrgInv
<1>5. QED
  BY <1>1, <1>2, <1>3, <1>4, DropRequestInv DEF OrganizationNext

\* What RestoresWhatItTook asks of a commit.
LEMMA RestoreFinishes ==
    ASSUME OrgInv, NEW e \in Editors, FinishRequest(e), editing[e].op = "restore",
           editing[e].unit \notin disturbed', NEW u \in Units \ disturbed'
    PROVE  LET r == editing[e].unit
               below == Children({r}) \cup Children(Children({r}))
           IN  (unit[u].state = "deleted" /\ unit'[u].state = "live")
               <=> \/ u = r
                   \/ u \in below /\ unit[u].state = "deleted" /\ cause[u] = cause[r]
<1> DEFINE q == editing[e]
           r == q.unit
           below == Children({r}) \cup Children(Children({r}))
<1>1. /\ q \in OrgRequest /\ Admitted(q) /\ r \in Units /\ r \in Units \ disturbed
      /\ u \in Units \ disturbed /\ Asking(e)
      /\ Alike(q.seen[u], unit[u]) /\ Alike(q.seen[r], unit[r])
  BY FinishFacts DEF OrgRequest, FinishRequest, Asking
<1>2. (unit[u].state = "deleted" /\ unit'[u].state = "live") <=> BroughtBy(q.seen, r, u)
  BY Outcomes DEF Alike
<1>3. unit[r].state = "deleted" /\ cause[r] \in Above(r)
  BY <1>1 DEF Admitted, Alike, OrgInv, CausesFine, CauseFine
<1>4. u \in below <=> IsChild(u, r) \/ IsGrandchild(u, r)
  BY <1>1 DEF Children, IsChild, IsGrandchild
<1>5. unit[u].state = "deleted" => (unit[u].cascade <=> cause[u] # u)
  BY <1>1 DEF OrgInv, CausesFine, CauseFine
<1>6. Gone(q.seen[u]) <=> unit[u].state = "deleted" /\ cause[u] # u
  BY <1>1, <1>5 DEF Gone, Alike
<1>7. CASE IsChild(u, r)
  <2>1. u # r /\ u \notin Above(r)
    BY <1>1, <1>7, Levels, ChildNotAbove
  <2>2. ~IsGrandchild(u, r)
    <3>1. Parent[r] # r
      BY <1>1, Levels DEF IsChild
    <3>2. QED
      BY <1>7, <3>1 DEF IsChild, IsGrandchild
  <2>3. BroughtBy(q.seen, r, u) <=> Gone(q.seen[u])
    BY <1>7, <2>1, <2>2 DEF BroughtBy
  <2>4. unit[u].state = "deleted" /\ cause[u] = cause[r] => Gone(q.seen[u])
    BY <1>3, <1>6, <2>1
  <2>5. Gone(q.seen[u]) => cause[u] = cause[r]
    BY <1>1, <1>7 DEF OrgInv, GoneTogether, Gone, Alike
  <2>6. QED
    BY <1>2, <1>4, <1>6, <1>7, <2>1, <2>3, <2>4, <2>5
<1>8. CASE IsGrandchild(u, r)
  <2> DEFINE p == Parent[u]
  <2>1. p \in Units /\ IsChild(u, p) /\ IsChild(p, r)
    BY <1>8 DEF IsChild, IsGrandchild
  <2>2. u # r /\ p # r /\ Parent[r] = NoUnit
    BY <1>1, <2>1, Levels
  <2>3. cause[r] = r
    BY <1>1, <1>3, <2>2, TopAbove
  <2>4. unit[u].state = "deleted" /\ cause[u] # u => Between(q.seen[p], cause[u], r)
    BY <1>1, <2>1 DEF OrgInv, BetweenGone
  <2>5. BroughtBy(q.seen, r, u) <=> Gone(q.seen[p]) /\ Gone(q.seen[u])
    BY <1>8, <2>1, <2>2 DEF BroughtBy, IsChild
  <2> HIDE DEF p
  <2>6. BroughtBy(q.seen, r, u) <=> unit[u].state = "deleted" /\ cause[u] = r
    BY <1>6, <2>2, <2>4, <2>5 DEF Between, Gone
  <2>7. QED
    BY <1>2, <1>4, <1>8, <2>2, <2>3, <2>6
<1>9. CASE ~IsChild(u, r) /\ ~IsGrandchild(u, r)
  BY <1>2, <1>4, <1>9 DEF BroughtBy
<1>10. QED
  BY <1>7, <1>8, <1>9

\* RestoresWhatItTook of one restoration that finishes.
RestoredByStep ==
    \A e \in Editors :
        /\ editing[e] # NoRequest /\ editing'[e] = NoRequest
        /\ editing[e].op = "restore" /\ unit' # unit
        =>
        LET r == editing[e].unit
            below == Children({r}) \cup Children(Children({r}))
        IN  r \notin disturbed' =>
            \A u \in Units \ disturbed' :
                (unit[u].state = "deleted" /\ unit'[u].state = "live")
                <=> \/ u = r
                    \/ u \in below /\ unit[u].state = "deleted" /\ cause[u] = cause[r]

\* Every step has that property.
LEMMA StepRestores ==
    ASSUME OrgInv, [OrganizationNext]_organization
    PROVE  RestoredByStep
<1> SUFFICES ASSUME NEW e \in Editors, editing[e] # NoRequest, editing'[e] = NoRequest,
                    editing[e].op = "restore", unit' # unit, editing[e].unit \notin disturbed',
                    NEW u \in Units \ disturbed'
             PROVE  (unit[u].state = "deleted" /\ unit'[u].state = "live")
                    <=> \/ u = editing[e].unit
                        \/ /\ u \in Children({editing[e].unit})
                                    \cup Children(Children({editing[e].unit}))
                           /\ unit[u].state = "deleted" /\ cause[u] = cause[editing[e].unit]
  BY DEF RestoredByStep
<1>1. PICK d \in Editors : FinishRequest(d)
  BY DEF OrganizationNext, organization, OpenRequest, DropRequest
<1>2. d = e
  BY <1>1, FinishFacts
<1>3. QED
  BY <1>1, <1>2, RestoreFinishes

\* Restoring a unit brings back every unit that its deletion had taken along, for any
\* tree of three levels and any number of requests: as long as no overlapping request
\* touched those rows (delete_company, restore_company and those of branches).
THEOREM RestoringUndoesDeleting == OrganizationSpec => RestoresWhatItTook
<1>1. OrganizationInit => OrgInv
  BY OrgStarts
<1>2. OrgInv /\ [OrganizationNext]_organization => OrgInv'
  BY OrgStep
<1>3. OrgInv /\ [OrganizationNext]_organization => [RestoredByStep]_organization
  BY StepRestores
<1>4. [][RestoredByStep]_organization => RestoresWhatItTook
  BY PTL DEF RestoresWhatItTook, RestoredByStep
<1>5. QED
  BY <1>1, <1>2, <1>3, <1>4, PTL DEF OrganizationSpec

-----------------------------------------------------------------------------
(* Trees                                                                   *)

\* A row of one of the three tables.
NodeRow == [state: {"absent", "live", "deleted"}, parent: Nodes \cup {NoNode}]

\* An open reparenting.
MoveRequest == [pc: {"walk", "write"}, node: Nodes, parent: Nodes \cup {NoNode},
                at: Nodes \cup {NoNode}, visited: SUBSET Nodes]

\* m has a reparenting open.
Moving(m) == move[m] # NoMove

\* A row of the table; a live one.
Has(rows, n) == rows[n].state # "absent"
\* A live one.
Stands(rows, n) == rows[n].state = "live"

\* The types.
TreeTypeOK ==
    /\ tree \in Trees
    /\ node \in [Nodes -> NodeRow]
    /\ DOMAIN move = Movers
    /\ \A m \in Movers : Moving(m) => move[m] \in MoveRequest
    /\ overtaken \in BOOLEAN

\* A parent has a row, if perhaps a deleted one.
ParentsFine(rows) ==
    \A n \in Nodes : Has(rows, n) => rows[n].parent = NoNode \/ Has(rows, rows[n].parent)
\* ... of the committed rows.
ParentsExist == ParentsFine(node)

\* What a walk has read: rows, not that of the node itself; unless a move overtook it, they
\* are a path from the new parent to where it is, and it is done where the path ends, meets
\* itself, or meets a deleted account.
WalkFine(me, rows, kind, over) ==
    /\ kind # "costCenters"
    /\ Has(rows, me.node) /\ me.node \notin me.visited
    /\ me.parent = NoNode \/ Has(rows, me.parent)
    /\ me.at = NoNode \/ Has(rows, me.at)
    /\ me.parent \in me.visited \cup {me.at}
    /\ \A v \in me.visited : Has(rows, v)
    /\ ~over => \A v \in me.visited : rows[v].parent \in me.visited \cup {me.at}
    /\ me.pc = "write" => \/ me.at = NoNode
                          \/ me.at \in me.visited
                          \/ kind = "accounts" /\ ~Stands(rows, me.at)
\* ... of every open reparenting.
WalksFine == \A m \in Movers : Moving(m) => WalkFine(move[m], node, tree, overtaken)

\* The rows that count.
Counted(rows, kind, n) == IF kind = "categories" THEN Has(rows, n) ELSE Stands(rows, n)

\* A set of them that contains the parents of all.
Closed(part, rows, kind) ==
    part # {} /\ \A n \in part : n \in Nodes /\ Counted(rows, kind, n) /\ rows[n].parent \in part

\* Without a move that overtook a walk there is no such set.
TreeStands == overtaken \/ \A part \in SUBSET Nodes : ~Closed(part, node, tree)

\* The invariant.
TreeInv == TreeTypeOK /\ ParentsExist /\ WalksFine /\ TreeStands

\* A tree that stands has no cycle.
LEMMA StandsIsAcyclic ==
    TreeStands => CyclesNeedOverlap
BY DEF TreeStands, Closed, CyclesNeedOverlap, Acyclic, Counted, Exists, Has, Live, Stands

\* At first there are no rows.
LEMMA TreeStarts ==
    ASSUME HierarchyInit
    PROVE  TreeInv
BY DEF HierarchyInit, TreeInv, TreeTypeOK, NodeRow, ParentsExist, ParentsFine, Exists, Has, Live,
       Stands, WalksFine, Moving, TreeStands, Closed, Counted

\* A step that leaves the rows alone and takes one walk on.
LEMMA WalkStep ==
    ASSUME TreeInv, NEW m \in Movers, NEW next, move' = [move EXCEPT ![m] = next],
           next = NoMove \/ (next \in MoveRequest /\ WalkFine(next, node, tree, overtaken)),
           UNCHANGED <<tree, node, overtaken>>
    PROVE  TreeInv'
<1>1. \A o \in Movers : move'[o] = IF o = m THEN next ELSE move[o]
  BY DEF TreeInv, TreeTypeOK
<1>2. \A me : WalkFine(me, node', tree', overtaken') = WalkFine(me, node, tree, overtaken)
  BY DEF WalkFine, Exists, Has, Live, Stands
<1>3. TreeTypeOK'
  BY <1>1 DEF TreeInv, TreeTypeOK, Moving
<1>4. WalksFine'
  <2> SUFFICES ASSUME NEW o \in Movers, move'[o] # NoMove
               PROVE  WalkFine(move'[o], node', tree', overtaken')
    BY DEF WalksFine, Moving
  <2>1. WalkFine(move'[o], node, tree, overtaken)
    BY <1>1 DEF TreeInv, WalksFine, Moving
  <2>2. QED
    BY <1>2, <2>1
<1>5. ParentsExist' /\ TreeStands'
  BY DEF TreeInv, ParentsExist, ParentsFine, Exists, Has, TreeStands, Closed, Counted, Live, Stands
<1>6. QED
  BY <1>3, <1>4, <1>5 DEF TreeInv

\* A walk begins at the new parent.
LEMMA StartMoveInv ==
    ASSUME TreeInv, NEW m \in Movers, NEW n \in Nodes, NEW p \in Nodes \cup {NoNode},
           StartMove(m, n, p)
    PROVE  TreeInv'
<1> DEFINE next == [pc |-> "walk", node |-> n, parent |-> p, at |-> p, visited |-> {}]
<1>1. next \in MoveRequest
  BY DEF MoveRequest
<1>2. Has(node, n) /\ (p = NoNode \/ Has(node, p)) /\ tree # "costCenters"
  BY DEF StartMove, Found, Live, Stands, Exists, Has
<1>3. WalkFine(next, node, tree, overtaken)
  BY <1>2 DEF WalkFine
<1>4. QED
  BY <1>1, <1>3, WalkStep DEF StartMove

\* One turn of the loop of _assert_no_cycle or _assert_no_account_cycle.
LEMMA WalkInv ==
    ASSUME TreeInv, NEW m \in Movers, Walk(m)
    PROVE  TreeInv'
<1> DEFINE me == move[m]
           done == [me EXCEPT !.pc = "write"]
           on == [me EXCEPT !.visited = @ \cup {me.at}, !.at = node[me.at].parent]
<1>1. Moving(m) /\ me \in MoveRequest /\ WalkFine(me, node, tree, overtaken) /\ me.pc = "walk"
  BY DEF Walk, TreeInv, TreeTypeOK, WalksFine, Moving, NoMove
<1>2. /\ done \in MoveRequest
      /\ done.pc = "write" /\ done.node = me.node /\ done.parent = me.parent
      /\ done.at = me.at /\ done.visited = me.visited
  BY <1>1 DEF MoveRequest
<1>3. ASSUME \/ me.at = NoNode \/ me.at \in me.visited
             \/ tree = "accounts" /\ ~Stands(node, me.at)
      PROVE  WalkFine(done, node, tree, overtaken)
  BY <1>1, <1>2, <1>3 DEF WalkFine
<1>4. ASSUME me.at # NoNode, me.at # me.node
      PROVE  on \in MoveRequest /\ WalkFine(on, node, tree, overtaken)
  <2>1. me.at \in Nodes /\ node[me.at] \in NodeRow /\ Has(node, me.at)
    BY <1>1, <1>4 DEF MoveRequest, TreeInv, TreeTypeOK, WalkFine
  <2>2. node[me.at].parent \in Nodes \cup {NoNode}
    BY <2>1 DEF NodeRow
  <2>3. /\ on \in MoveRequest
        /\ on.pc = "walk" /\ on.node = me.node /\ on.parent = me.parent
        /\ on.at = node[me.at].parent /\ on.visited = me.visited \cup {me.at}
    BY <1>1, <2>1, <2>2 DEF MoveRequest
  <2>4. on.at = NoNode \/ Has(node, on.at)
    BY <2>1, <2>3 DEF TreeInv, ParentsExist, ParentsFine
  <2>5. QED
    BY <1>1, <1>4, <2>1, <2>3, <2>4 DEF WalkFine
<1>5. \/ Ends(m, NoMove)
      \/ Ends(m, done) /\ (\/ me.at = NoNode \/ me.at \in me.visited
                           \/ (tree = "accounts" /\ ~Stands(node, me.at)))
      \/ Ends(m, on) /\ me.at # NoNode /\ me.at # me.node
  <2>1. tree = "categories" \/ tree = "accounts"
    BY <1>1 DEF WalkFine, TreeInv, TreeTypeOK, Trees
  <2>2. CASE me.at = NoNode
    BY <2>2 DEF Walk
  <2>3. CASE me.at # NoNode /\ tree = "categories"
    BY <2>3 DEF Walk, CategoryTurn
  <2>4. CASE me.at # NoNode /\ tree = "accounts"
    BY <2>4 DEF Walk, AccountTurn, Live, Stands
  <2>5. QED
    BY <2>1, <2>2, <2>3, <2>4
<1> HIDE DEF me, done, on
<1>6. CASE Ends(m, NoMove)
  BY <1>6, WalkStep DEF Ends
<1>7. ASSUME NEW next \in {done, on}, Ends(m, next),
             next \in MoveRequest, WalkFine(next, node, tree, overtaken)
      PROVE  TreeInv'
  BY <1>7, WalkStep DEF Ends
<1>8. QED
  BY <1>2, <1>3, <1>4, <1>5, <1>6, <1>7

\* A change of rows outside a reparenting, with the walks as they were: no row goes, no
\* parent of a row changes, and no account comes back.
LEMMA ChangeWalks ==
    ASSUME TreeInv, Changed, node' \in [Nodes -> NodeRow],
           \A n \in Nodes : Has(node, n) =>
               /\ node'[n].state # "absent" /\ node'[n].parent = node[n].parent
               /\ tree = "accounts" /\ ~Stands(node, n) => node'[n].state # "live"
    PROVE  TreeTypeOK' /\ WalksFine'
<1>1. TreeTypeOK'
  BY DEF TreeInv, TreeTypeOK, Changed, Moving
<1>2. ASSUME NEW m \in Movers, move'[m] # NoMove PROVE WalkFine(move'[m], node', tree', overtaken')
  <2> DEFINE me == move[m]
  <2>1. /\ move'[m] = me /\ me \in MoveRequest /\ WalkFine(me, node, tree, overtaken)
        /\ tree' = tree /\ overtaken' = overtaken
    BY <1>2 DEF Changed, TreeInv, TreeTypeOK, WalksFine, Moving
  <2>2. /\ me.node \in Nodes /\ me.parent \in Nodes \cup {NoNode} /\ me.at \in Nodes \cup {NoNode}
        /\ \A v \in me.visited : v \in Nodes
    BY <2>1 DEF MoveRequest
  <2>3. \A n \in Nodes : Has(node, n) => Has(node', n) /\ node'[n].parent = node[n].parent
                                      /\ (tree = "accounts" /\ ~Stands(node, n) => ~Stands(node', n))
    BY DEF Exists, Has, Live, Stands
  <2> HIDE DEF me
  <2>4. QED
    BY <2>1, <2>2, <2>3, NoNodeAssumption DEF WalkFine
<1>3. QED
  BY <1>1, <1>2 DEF WalksFine, Moving

\* A new row hangs below an older one.
LEMMA AddedInv ==
    ASSUME TreeInv, NEW n \in Nodes, NEW p \in Nodes \cup {NoNode}, p = NoNode \/ Has(node, p),
           Added(n, p)
    PROVE  TreeInv'
<1>1. /\ node' \in [Nodes -> NodeRow]
      /\ \A k \in Nodes : node'[k] = IF k = n THEN [state |-> "live", parent |-> p] ELSE node[k]
      /\ ~Has(node, n) /\ Changed /\ tree' = tree /\ overtaken' = overtaken
  BY DEF Added, Changed, TreeInv, TreeTypeOK, NodeRow, Exists, Has
<1>2. TreeTypeOK' /\ WalksFine'
  BY <1>1, ChangeWalks DEF Exists, Has, Live, Stands
<1>3. \A k \in Nodes : k # n => /\ Has(node', k) <=> Has(node, k)
                                /\ Stands(node', k) <=> Stands(node, k)
                                /\ node'[k].parent = node[k].parent
  BY <1>1 DEF Exists, Has, Live, Stands
<1>4. Has(node', n) /\ node'[n].parent = p /\ p # n
  BY <1>1, NoNodeAssumption DEF Exists, Has
<1>5. ParentsExist'
  <2> SUFFICES ASSUME NEW k \in Nodes, Has(node', k)
               PROVE  node'[k].parent = NoNode \/ Has(node', node'[k].parent)
    BY DEF ParentsExist, ParentsFine
  <2>1. \A j \in Nodes : Has(node, j) => Has(node', j)
    BY <1>3, <1>4
  <2>2. CASE k = n
    BY <1>4, <2>1, <2>2
  <2>3. CASE k # n
    <3>1. node[k].parent \in Nodes \cup {NoNode}
      BY DEF TreeInv, TreeTypeOK, NodeRow
    <3>2. QED
      BY <1>3, <2>1, <2>3, <3>1 DEF TreeInv, ParentsExist, ParentsFine
  <2>4. QED
    BY <2>2, <2>3
<1>6. TreeStands'
  <2> SUFFICES ASSUME ~overtaken, NEW part \in SUBSET Nodes, Closed(part, node', tree') PROVE FALSE
    BY <1>1 DEF TreeStands
  <2>1. /\ part # {}
        /\ \A k \in part : k \in Nodes /\ Counted(node', tree', k) /\ node'[k].parent \in part
    BY DEF Closed
  <2>2. \A k \in part \ {n} : Counted(node, tree, k) /\ Has(node, k) /\ node[k].parent \in part
    BY <1>1, <1>3, <2>1 DEF Counted, Exists, Has, Live, Stands
  <2>3. \A k \in part \ {n} : node[k].parent # n
    BY <1>1, <2>1, <2>2, NoNodeAssumption DEF TreeInv, ParentsExist, ParentsFine
  <2>4. part \ {n} # {}
    BY <1>4, <2>1
  <2>5. Closed(part \ {n}, node, tree)
    BY <2>1, <2>2, <2>3, <2>4 DEF Closed
  <2>6. QED
    BY <2>5 DEF TreeInv, TreeStands
<1>7. QED
  BY <1>2, <1>5, <1>6 DEF TreeInv

\* Deleting, or restoring a category.
LEMMA StateInv ==
    ASSUME TreeInv, NEW n \in Nodes, NEW state \in {"live", "deleted"},
           Has(node, n), node' = [node EXCEPT ![n].state = state], Changed,
           tree # "categories" => state = "deleted"
    PROVE  TreeInv'
<1>1. /\ node[n] \in NodeRow /\ node' \in [Nodes -> NodeRow]
      /\ tree' = tree /\ overtaken' = overtaken
      /\ \A k \in Nodes : /\ node'[k].parent = node[k].parent
                          /\ node'[k].state = IF k = n THEN state ELSE node[k].state
  BY DEF TreeInv, TreeTypeOK, NodeRow, Changed
<1>2. \A k \in Nodes : /\ Has(node', k) <=> Has(node, k)
                       /\ tree # "categories" /\ Stands(node', k) => Stands(node, k)
  BY <1>1 DEF Exists, Has, Live, Stands
<1>3. TreeTypeOK' /\ WalksFine'
  BY <1>1, ChangeWalks DEF Exists, Has, Live, Stands
<1>4. ParentsExist'
  <2>1. \A k \in Nodes : node[k].parent \in Nodes \cup {NoNode}
    BY DEF TreeInv, TreeTypeOK, NodeRow
  <2>2. \A k \in Nodes : Has(node, k) => node[k].parent = NoNode \/ Has(node, node[k].parent)
    BY DEF TreeInv, ParentsExist, ParentsFine
  <2>3. \A k \in Nodes : node'[k].parent = node[k].parent /\ (Has(node', k) <=> Has(node, k))
    BY <1>1, <1>2
  <2>4. QED
    BY <2>1, <2>2, <2>3 DEF ParentsExist, ParentsFine
<1>5. \A part : Closed(part, node', tree') => Closed(part, node, tree)
  <2> SUFFICES ASSUME NEW part, Closed(part, node', tree') PROVE Closed(part, node, tree)
    OBVIOUS
  <2>1. ASSUME NEW k \in part
        PROVE  k \in Nodes /\ Counted(node, tree, k) /\ node[k].parent \in part
    <3>1. k \in Nodes /\ Counted(node', tree, k) /\ node'[k].parent \in part
      BY <1>1, <2>1 DEF Closed
    <3>2. QED
      BY <1>1, <1>2, <3>1 DEF Counted
  <2>2. QED
    BY <2>1 DEF Closed
<1>6. TreeStands'
  BY <1>1, <1>5 DEF TreeInv, TreeStands
<1>7. QED
  BY <1>3, <1>4, <1>6 DEF TreeInv

\* The rows of a template hang below lines that came before them.
LEMMA ApplyTemplateInv ==
    ASSUME TreeInv, ApplyTemplate
    PROVE  TreeInv'
<1> DEFINE lines == {Template[i].code : i \in 1..Len(Template)}
           earlier(i, code) == \E j \in 1..(i - 1) : Template[j].code = code
           line(n) == CHOOSE k \in 1..Len(Template) : Template[k].code = n
           parentOf(n) == IF earlier(line(n), Template[line(n)].parent)
                          THEN Template[line(n)].parent ELSE NoNode
<1>1. /\ tree = "accounts" /\ Changed /\ tree' = tree /\ overtaken' = overtaken
      /\ \A n \in Nodes : ~Stands(node, n)
      /\ \A n \in lines : ~Has(node, n)
      /\ node' = [n \in Nodes |-> IF n \in lines THEN [state |-> "live", parent |-> parentOf(n)]
                                  ELSE node[n]]
  BY DEF ApplyTemplate, Changed, Exists, Has, Live, Stands
<1>2. /\ Len(Template) \in Nat
      /\ \A i \in 1..Len(Template) : Template[i] \in TemplateLine
      /\ \A i \in 1..Len(Template) :
            Template[i].code \in Nodes /\ Template[i].parent \in Nodes \cup {NoNode}
  <2>1. Template \in Seq(TemplateLine)
    BY TemplateAssumption
  <2> DEFINE last == Len(Template)
  <2>2. last \in Nat /\ Template \in [1..last -> TemplateLine]
    BY <2>1, LenProperties
  <2> HIDE DEF last
  <2>3. \A i \in 1..last : Template[i] \in TemplateLine
    BY <2>2
  <2>4. QED
    BY <2>2, <2>3 DEF TemplateLine, last
<1>3. \A n \in lines : line(n) \in 1..Len(Template) /\ Template[line(n)].code = n
  OBVIOUS
<1>4. \A i \in 1..Len(Template) : line(Template[i].code) = i
  BY <1>3, TemplateAssumption
<1>5. \A n \in lines : n \in Nodes /\ (parentOf(n) = NoNode \/ parentOf(n) \in lines)
  <2> SUFFICES ASSUME NEW n \in lines
               PROVE  n \in Nodes /\ (parentOf(n) = NoNode \/ parentOf(n) \in lines)
    OBVIOUS
  <2>1. line(n) \in 1..Len(Template) /\ Template[line(n)].code = n
    BY <1>3
  <2>2. n \in Nodes
    BY <1>2, <2>1
  <2>3. CASE earlier(line(n), Template[line(n)].parent)
    <3>1. parentOf(n) = Template[line(n)].parent
      BY <2>3
    <3> HIDE DEF line, parentOf
    <3>2. PICK j \in 1..(line(n) - 1) : Template[j].code = Template[line(n)].parent
      BY <2>3
    <3>3. j \in 1..Len(Template)
      BY <1>2, <2>1, <3>2
    <3>4. QED
      BY <2>2, <3>1, <3>2, <3>3
  <2>4. CASE ~earlier(line(n), Template[line(n)].parent)
    BY <2>2, <2>4
  <2>5. QED
    BY <2>3, <2>4
<1>6. \A i \in 1..Len(Template) : \A j \in 1..Len(Template) :
          parentOf(Template[i].code) = Template[j].code => j < i
  <2> SUFFICES ASSUME NEW i \in 1..Len(Template), NEW j \in 1..Len(Template),
                      parentOf(Template[i].code) = Template[j].code
               PROVE  j < i
    OBVIOUS
  <2>1. line(Template[i].code) = i
    BY <1>4
  <2>2. Template[j].code # NoNode
    BY <1>2, NoNodeAssumption
  <2>3. earlier(i, Template[i].parent) /\ Template[i].parent = Template[j].code
    BY <2>1, <2>2
  <2>4. PICK k \in 1..(i - 1) : Template[k].code = Template[j].code
    BY <2>3
  <2>5. k \in 1..Len(Template) /\ k < i
    BY <1>2, <2>4
  <2>6. k = j
    BY <2>4, <2>5, TemplateAssumption
  <2>7. QED
    BY <2>5, <2>6
<1>a. /\ \A i \in 1..Len(Template) : Template[i].code \in lines
      /\ \A n \in lines : \E i \in 1..Len(Template) : Template[i].code = n
  OBVIOUS
<1> HIDE DEF earlier, line, parentOf, lines
<1>7. \A n \in Nodes : node'[n] = IF n \in lines THEN [state |-> "live", parent |-> parentOf(n)]
                                  ELSE node[n]
  BY <1>1
<1>8. node' \in [Nodes -> NodeRow]
  <2>1. \A n \in Nodes : node'[n] \in NodeRow
    <3>1. \A n \in lines : parentOf(n) \in Nodes \cup {NoNode}
      BY <1>5
    <3>2. \A n \in lines : node'[n] \in NodeRow
      <4> SUFFICES ASSUME NEW n \in lines PROVE node'[n] \in NodeRow
        OBVIOUS
      <4>1. node'[n] = [state |-> "live", parent |-> parentOf(n)]
        BY <1>5, <1>7
      <4>2. QED
        BY <3>1, <4>1 DEF NodeRow
    <3>3. QED
      BY <1>7, <3>2 DEF TreeInv, TreeTypeOK
  <2>2. QED
    BY <1>1, <2>1
<1>9. \A n \in Nodes \ lines : /\ Has(node', n) <=> Has(node, n)
                               /\ ~Stands(node', n)
                               /\ node'[n].parent = node[n].parent
  BY <1>1, <1>7 DEF Exists, Has, Live, Stands
<1>10. \A n \in lines : Has(node', n) /\ node'[n].parent = parentOf(n)
  <2> SUFFICES ASSUME NEW n \in lines PROVE Has(node', n) /\ node'[n].parent = parentOf(n)
    OBVIOUS
  <2>1. node'[n] = [state |-> "live", parent |-> parentOf(n)]
    BY <1>5, <1>7
  <2>2. QED
    BY <2>1 DEF Has
<1>11. TreeTypeOK' /\ WalksFine'
  BY <1>1, <1>7, <1>8, <1>9, ChangeWalks DEF Exists, Has, Live, Stands
<1>12. ParentsExist'
  <2> SUFFICES ASSUME NEW n \in Nodes, Has(node', n)
               PROVE  node'[n].parent = NoNode \/ Has(node', node'[n].parent)
    BY DEF ParentsExist, ParentsFine
  <2>1. CASE n \in lines
    BY <1>5, <1>10, <2>1
  <2>2. CASE n \notin lines
    <3>1. node[n].parent \in Nodes \cup {NoNode}
      BY DEF TreeInv, TreeTypeOK, NodeRow
    <3>2. node[n].parent = NoNode \/ Has(node, node[n].parent)
      BY <1>9, <2>2 DEF TreeInv, ParentsExist, ParentsFine
    <3>3. QED
      BY <1>9, <1>10, <2>2, <3>1, <3>2
  <2>3. QED
    BY <2>1, <2>2
<1>13. TreeStands'
  <2> SUFFICES ASSUME NEW part \in SUBSET Nodes, Closed(part, node', tree') PROVE FALSE
    BY DEF TreeStands
  <2>1. part # {} /\ \A n \in part : n \in lines /\ node'[n].parent \in part
    BY <1>1, <1>9 DEF Closed, Counted
  <2> DEFINE T == {i \in 1..Len(Template) : Template[i].code \in part}
  <2>2. T # {} /\ T \subseteq Nat
    <3>1. PICK n \in part : n \in lines
      BY <2>1
    <3>2. PICK i \in 1..Len(Template) : Template[i].code = n
      BY <1>a, <3>1
    <3>3. i \in T
      BY <3>1, <3>2
    <3>4. T \subseteq 1..Len(Template) /\ 1..Len(Template) \subseteq Nat
      BY <1>2
    <3>5. QED
      BY <3>3, <3>4
  <2>3. PICK i \in T : \A j \in T : i <= j
    BY <2>2, LeastNatural
  <2>4. parentOf(Template[i].code) \in part
    BY <1>10, <2>1, <2>3
  <2>5. PICK j \in 1..Len(Template) : Template[j].code = parentOf(Template[i].code)
    BY <1>a, <2>1, <2>4
  <2>6. j \in T /\ j < i
    BY <1>6, <2>3, <2>4, <2>5
  <2>7. QED
    BY <1>2, <2>3, <2>6
<1>14. QED
  BY <1>11, <1>12, <1>13 DEF TreeInv

\* A cycle through the moved node would lie on the path that the walk has read, and
\* that path ends.
LEMMA CommitMoveInv ==
    ASSUME TreeInv, NEW m \in Movers, CommitMove(m)
    PROVE  TreeInv'
<1> DEFINE me == move[m]
<1>1. Moving(m) /\ me \in MoveRequest /\ WalkFine(me, node, tree, overtaken) /\ me.pc = "write"
  BY DEF CommitMove, TreeInv, TreeTypeOK, WalksFine, Moving, NoMove
<1>2. /\ me.node \in Nodes /\ me.parent \in Nodes \cup {NoNode} /\ me.at \in Nodes \cup {NoNode}
      /\ me.visited \in SUBSET Nodes
  BY <1>1 DEF MoveRequest
<1>3. /\ node[me.node] \in NodeRow /\ node' \in [Nodes -> NodeRow] /\ tree' = tree
      /\ \A k \in Nodes : /\ node'[k].state = node[k].state
                          /\ node'[k].parent = IF k = me.node THEN me.parent ELSE node[k].parent
  BY <1>2 DEF TreeInv, TreeTypeOK, NodeRow, CommitMove
<1>4. \A k \in Nodes : (Has(node', k) <=> Has(node, k)) /\ (Stands(node', k) <=> Stands(node, k))
  BY <1>3 DEF Exists, Has, Live, Stands
<1>5. /\ DOMAIN move' = Movers
      /\ \A o \in Movers : move'[o] = IF o = m THEN NoMove ELSE move[o]
      /\ overtaken' \in BOOLEAN /\ (overtaken => overtaken')
      /\ ~overtaken' => \A o \in Movers \ {m} : Moving(o) => me.node \notin move[o].visited
  BY DEF CommitMove, TreeInv, TreeTypeOK, Moving
<1> HIDE DEF me
<1>6. TreeTypeOK'
  BY <1>3, <1>5 DEF TreeInv, TreeTypeOK, Moving
<1>7. ParentsExist'
  <2> SUFFICES ASSUME NEW n \in Nodes, Has(node', n)
               PROVE  node'[n].parent = NoNode \/ Has(node', node'[n].parent)
    BY DEF ParentsExist, ParentsFine
  <2>1. node[n].parent \in Nodes \cup {NoNode} /\ node'[n].parent \in Nodes \cup {NoNode}
    BY <1>3 DEF TreeInv, TreeTypeOK, NodeRow
  <2>2. node'[n].parent = NoNode \/ Has(node, node'[n].parent)
    BY <1>1, <1>3, <1>4 DEF TreeInv, ParentsExist, ParentsFine, WalkFine
  <2>3. QED
    BY <1>4, <2>1, <2>2
<1>8. WalksFine'
  <2> SUFFICES ASSUME NEW o \in Movers, move'[o] # NoMove
               PROVE  WalkFine(move'[o], node', tree', overtaken')
    BY DEF WalksFine, Moving
  <2> DEFINE w == move[o]
  <2>1. o # m /\ move'[o] = w /\ Moving(o)
    BY <1>5 DEF Moving
  <2>2. w \in MoveRequest /\ WalkFine(w, node, tree, overtaken)
    BY <2>1 DEF TreeInv, TreeTypeOK, WalksFine
  <2>3. /\ w.node \in Nodes /\ w.parent \in Nodes \cup {NoNode} /\ w.at \in Nodes \cup {NoNode}
        /\ \A v \in w.visited : v \in Nodes
    BY <2>2 DEF MoveRequest
  <2>4. ~overtaken' => ~overtaken /\ \A v \in w.visited : node'[v].parent = node[v].parent
    BY <1>3, <1>5, <2>1, <2>3
  <2>5. /\ Has(node', w.node) /\ (w.parent = NoNode \/ Has(node', w.parent))
        /\ (w.at = NoNode \/ Has(node', w.at)) /\ \A v \in w.visited : Has(node', v)
    BY <1>4, <2>2, <2>3 DEF WalkFine
  <2>6. w.at \in Nodes => (Stands(node', w.at) <=> Stands(node, w.at))
    BY <1>4
  <2> HIDE DEF w
  <2>7. WalkFine(w, node', tree', overtaken')
    BY <1>3, <2>2, <2>3, <2>4, <2>5, <2>6 DEF WalkFine
  <2>8. QED
    BY <2>1, <2>7
<1>9. TreeStands'
  <2> SUFFICES ASSUME ~overtaken', NEW part \in SUBSET Nodes, Closed(part, node', tree') PROVE FALSE
    BY DEF TreeStands
  <2>1. ~overtaken
    BY <1>5
  <2>2. /\ part # {}
        /\ \A k \in part : k \in Nodes /\ Counted(node, tree, k) /\ node'[k].parent \in part
    BY <1>3, <1>4 DEF Closed, Counted
  <2>3. CASE me.node \notin part
    <3>1. Closed(part, node, tree)
      BY <1>3, <2>2, <2>3 DEF Closed
    <3>2. QED
      BY <2>1, <3>1 DEF TreeInv, TreeStands
  <2>4. CASE me.node \in part
    <3> DEFINE rest == part \cap me.visited
    <3>1. me.parent \in part /\ me.parent \in Nodes /\ me.parent # NoNode
      BY <1>2, <1>3, <2>2, <2>4, NoNodeAssumption
    <3>2. me.at \in part => me.at \in me.visited
      <4>1. me.at \in part => me.at # NoNode /\ ~(tree = "accounts" /\ ~Stands(node, me.at))
        BY <2>2, NoNodeAssumption DEF Counted
      <4>2. QED
        BY <1>1, <4>1 DEF WalkFine
    <3>3. rest # {}
      BY <1>1, <3>1, <3>2 DEF WalkFine
    <3>4. \A k \in rest : k \in Nodes /\ Counted(node, tree, k) /\ node[k].parent \in rest
      <4> SUFFICES ASSUME NEW k \in rest
                   PROVE  k \in Nodes /\ Counted(node, tree, k) /\ node[k].parent \in rest
        OBVIOUS
      <4>1. k \in Nodes /\ Counted(node, tree, k) /\ k # me.node
        BY <1>1, <2>2 DEF WalkFine
      <4>2. node[k].parent \in part
        BY <1>3, <2>2, <4>1
      <4>3. node[k].parent \in me.visited \cup {me.at}
        BY <1>1, <2>1 DEF WalkFine
      <4>4. QED
        BY <3>2, <4>1, <4>2, <4>3
    <3>5. Closed(rest, node, tree)
      BY <3>3, <3>4 DEF Closed
    <3>6. QED
      BY <2>1, <3>5 DEF TreeInv, TreeStands
  <2>5. QED
    BY <2>3, <2>4
<1>10. QED
  BY <1>6, <1>7, <1>8, <1>9 DEF TreeInv

\* No step of the trees breaks it.
LEMMA TreeStep ==
    ASSUME TreeInv, [HierarchyNext]_hierarchy
    PROVE  TreeInv'
<1>1. CASE UNCHANGED hierarchy
  BY <1>1 DEF hierarchy, TreeInv, TreeTypeOK, ParentsExist, ParentsFine, WalksFine, WalkFine,
              TreeStands, Closed, Counted, Exists, Has, Live, Stands, Moving
<1>2. ASSUME NEW n \in Nodes, NEW p \in Nodes \cup {NoNode},
             CreateCategory(n, p) \/ CreateAccount(n, p) \/ CreateCostCenter(n, p)
      PROVE  TreeInv'
  BY <1>2, AddedInv DEF CreateCategory, CreateAccount, CreateCostCenter, Live, Stands, Exists, Has
<1>3. ASSUME NEW n \in Nodes, DeleteCategory(n) \/ DeleteAccount(n) PROVE TreeInv'
  BY <1>3, StateInv DEF DeleteCategory, DeleteAccount, Deleted, Live, Stands, Exists, Has
<1>4. ASSUME NEW n \in Nodes, RestoreCategory(n) PROVE TreeInv'
  BY <1>4, StateInv DEF RestoreCategory, Exists, Has
<1>5. ASSUME NEW m \in Movers, DropMove(m) PROVE TreeInv'
  BY <1>5, WalkStep DEF DropMove, Ends
<1>6. QED
  BY <1>1, <1>2, <1>3, <1>4, <1>5, ApplyTemplateInv, StartMoveInv, WalkInv, CommitMoveInv
     DEF HierarchyNext

\* Categories, accounts and cost centers stay trees, however many nodes there are and
\* whatever is created, deleted, restored, applied or moved, unless a move commits a
\* node that another open walk had already read (_assert_no_cycle,
\* _assert_no_account_cycle).
THEOREM TreesStayTrees == HierarchySpec => []CyclesNeedOverlap
<1>1. HierarchyInit => TreeInv
  BY TreeStarts
<1>2. TreeInv /\ [HierarchyNext]_hierarchy => TreeInv'
  BY TreeStep
<1>3. TreeInv => CyclesNeedOverlap
  BY StandsIsAcyclic DEF TreeInv
<1>4. QED
  BY <1>1, <1>2, <1>3, PTL DEF HierarchySpec

-----------------------------------------------------------------------------
(* Units and conversions                                                   *)

\* Quantities of lines, factors.
Positive == Nat \ {0}

\* A conversion row, as far as the factor goes.
RuleRow == [own: BOOLEAN, from: MeasureUnits, to: MeasureUnits, factor: Positive, live: BOOLEAN]
\* A line of a credit note.
NoteRow == [qty: Positive, base: Nat, overlapped: BOOLEAN]

\* What the notes carry: all of it, what the posted ones carry, and what these brought back.
Wanted(table) == [k \in 1..Len(table) |-> table[k].qty]
\* What the posted ones carry.
Returned(table) == [k \in 1..Len(table) |-> IF table[k].base # 0 THEN table[k].qty ELSE 0]
\* What these brought back.
Back(table) == [k \in 1..Len(table) |-> table[k].base]
\* The posted ones.
Posted(table) == {k \in 1..Len(table) : table[k].base # 0}

\* The types.
CatalogTypeOK ==
    /\ rules \in Seq(RuleRow)
    /\ notes \in Seq(NoteRow)
    /\ delivery.qty \in Nat /\ delivery.base \in Nat
    /\ Delivered => delivery.qty # 0
    /\ repriced \in BOOLEAN

\* Some note was created while another was a draft.
Overlaps(table) == \E k \in 1..Len(table) : table[k].overlapped

\* Unless notes overlapped, they ask for no more than was delivered, drafts included.
WithinDelivery(given, table) == Overlaps(table) \/ Total(Wanted(table), Len(table)) <= given.qty

\* Under one factor, deliveries and returns are off by half a unit each.
Near(given, table, ratio) ==
    /\ ratio[1] \in Positive /\ ratio[2] \in Positive
    /\ 2 * (ratio[1] * given.qty) <= 2 * (ratio[2] * given.base) + ratio[2]
    /\ 2 * (ratio[2] * Total(Back(table), Len(table)))
          <= 2 * (ratio[1] * Total(Returned(table), Len(table)))
             + ratio[2] * Cardinality(Posted(table))

\* The invariant.
CatalogInv ==
    /\ CatalogTypeOK
    /\ WithinDelivery(delivery, notes)
    /\ ~Delivered => notes = <<>>
    /\ Delivered /\ ~repriced => Near(delivery, notes, RatioOfDelivery(rules))

\* quantize is off by half of the divisor at most.
LEMMA QuantizeNear ==
    ASSUME NEW n \in Nat, NEW d \in Positive
    PROVE  /\ Quantize(n, d) \in Nat
           /\ 2 * (d * Quantize(n, d)) <= 2 * n + d
           /\ 2 * n <= 2 * (d * Quantize(n, d)) + d
<1> DEFINE q == n \div d
           r == n % d
<1>1. q \in Nat /\ r \in Nat /\ n = d * q + r /\ r < d
  BY DEF Positive
<1> HIDE DEF q, r
<1>2. d * (q + 1) = d * q + d
  BY <1>1 DEF Positive
<1>3. CASE 2 * r > d \/ (2 * r = d /\ q % 2 = 1)
  <2>1. Quantize(n, d) = q + 1
    BY <1>3 DEF Quantize, q, r
  <2>2. 2 * r >= d
    BY <1>1, <1>3 DEF Positive
  <2>3. d * q \in Int /\ d \in Int
    BY <1>1 DEF Positive
  <2>4. QED
    BY <1>1, <1>2, <2>1, <2>2, <2>3
<1>4. CASE ~(2 * r > d \/ (2 * r = d /\ q % 2 = 1))
  <2>1. Quantize(n, d) = q
    BY <1>4 DEF Quantize, q, r
  <2>2. 2 * r <= d
    BY <1>1, <1>4 DEF Positive
  <2>3. d * q \in Int /\ d \in Int
    BY <1>1 DEF Positive
  <2>4. QED
    BY <1>1, <2>1, <2>2, <2>3
<1>5. QED
  BY <1>3, <1>4

\* A factor found is a positive fraction.
LEMMA RatioPositive ==
    ASSUME NEW table \in Seq(RuleRow), NEW from, NEW to, Ratio(table, from, to) # NoRatio
    PROVE  Ratio(table, from, to)[1] \in Positive /\ Ratio(table, from, to)[2] \in Positive
<1> DEFINE of(rows) == table[CHOOSE i \in rows : TRUE].factor
           found(own) == {Matching(table, own, from, to), Matching(table, own, to, from)}
<1>1. \A i \in 1..Len(table) : table[i].factor \in Positive
  <2> SUFFICES ASSUME NEW i \in 1..Len(table) PROVE table[i].factor \in Positive
    OBVIOUS
  <2>1. table[i] \in RuleRow
    BY ElementOfSeq
  <2>2. QED
    BY <2>1 DEF RuleRow
<1>2. \A own, a, b : Matching(table, own, a, b) \subseteq 1..Len(table)
  BY DEF Matching
<1>3. \A rows : rows # {} /\ rows \subseteq 1..Len(table) => of(rows) \in Positive
  BY <1>1
<1>4. Scale \in Positive /\ 1 \in Positive
  BY ScaleAssumption DEF Positive
<1> HIDE DEF of
<1> DEFINE direct(own) == Matching(table, own, from, to)
           reverse(own) == Matching(table, own, to, from)
           search(own, otherwise) == IF direct(own) # {} THEN <<of(direct(own)), Scale>>
                                     ELSE IF reverse(own) # {} THEN <<Scale, of(reverse(own))>>
                                     ELSE otherwise
           Good(r) == r = NoRatio \/ (r[1] \in Positive /\ r[2] \in Positive)
<1>5. ASSUME NEW own, NEW otherwise, Good(otherwise) PROVE Good(search(own, otherwise))
  <2>1. direct(own) # {} => of(direct(own)) \in Positive
    BY <1>2, <1>3
  <2>2. reverse(own) # {} => of(reverse(own)) \in Positive
    BY <1>2, <1>3
  <2> HIDE DEF direct, reverse
  <2>3. QED
    BY <1>4, <1>5, <2>1, <2>2
<1>6. Ratio(table, from, to) = IF from = to THEN <<1, 1>> ELSE search(TRUE, search(FALSE, NoRatio))
  BY DEF Ratio, of
<1>7. Good(search(TRUE, search(FALSE, NoRatio)))
  <2>1. Good(NoRatio)
    OBVIOUS
  <2> HIDE DEF Good, search
  <2>2. QED
    BY <1>5, <2>1
<1> HIDE DEF search
<1>8. CASE from = to
  BY <1>4, <1>6, <1>8
<1>9. CASE from # to
  BY <1>6, <1>7, <1>9
<1>10. QED
  BY <1>8, <1>9


\* The three sums over notes are natural numbers, and the posted notes carry no more
\* than all.
LEMMA TablesSum ==
    ASSUME NEW table \in Seq(NoteRow)
    PROVE  /\ Len(table) \in Nat
           /\ \A k \in 1..Len(table) : table[k].qty \in Positive /\ table[k].base \in Nat
           /\ Wanted(table) \in [1..Len(table) -> Int]
           /\ Returned(table) \in [1..Len(table) -> Int]
           /\ Back(table) \in [1..Len(table) -> Int]
           /\ Total(Wanted(table), Len(table)) \in Nat
           /\ Total(Returned(table), Len(table)) \in Nat
           /\ Total(Back(table), Len(table)) \in Nat
           /\ Total(Returned(table), Len(table)) <= Total(Wanted(table), Len(table))
           /\ IsFiniteSet(Posted(table)) /\ Cardinality(Posted(table)) \in Nat
<1> DEFINE N == Len(table)
<1>1. N \in Nat /\ \A k \in 1..N : table[k] \in NoteRow
  BY ElementOfSeq, LenProperties
<1>2. \A k \in 1..N : table[k].qty \in Positive /\ table[k].base \in Nat
  BY <1>1 DEF NoteRow
<1> HIDE DEF N
<1> DEFINE W == [k \in 1..N |-> table[k].qty]
           R == [k \in 1..N |-> IF table[k].base # 0 THEN table[k].qty ELSE 0]
           B == [k \in 1..N |-> table[k].base]
<1>3. W \in [1..N -> Nat] /\ R \in [1..N -> Nat] /\ B \in [1..N -> Nat]
  BY <1>2 DEF Positive
<1>4. \A k \in 1..N : R[k] <= W[k]
  BY <1>2 DEF Positive
<1>5. W \in [1..N -> Int] /\ R \in [1..N -> Int] /\ B \in [1..N -> Int]
  BY <1>3
<1>6. /\ \A k \in 1..N : W[k] >= 0
      /\ \A k \in 1..N : R[k] >= 0
      /\ \A k \in 1..N : B[k] >= 0
  BY <1>3
<1> HIDE DEF W, R, B
<1>7. Total(W, N) \in Int /\ Total(W, N) >= 0
  BY <1>1, <1>5, <1>6, TotalType, TotalNatural
<1>8. Total(R, N) \in Int /\ Total(R, N) >= 0
  BY <1>1, <1>5, <1>6, TotalType, TotalNatural
<1>9. Total(B, N) \in Int /\ Total(B, N) >= 0
  BY <1>1, <1>5, <1>6, TotalType, TotalNatural
<1>10. Total(R, N) <= Total(W, N)
  BY <1>1, <1>4, <1>5, TotalMonotone
<1>11. IsFiniteSet(Posted(table)) /\ Cardinality(Posted(table)) \in Nat
  <2>1. IsFiniteSet(1..N)
    BY <1>1, FS_Interval
  <2>2. Posted(table) \subseteq 1..N
    BY DEF Posted, N
  <2>3. QED
    BY <2>1, <2>2, FS_Subset, FS_CardinalityType
<1>12. QED
  BY <1>1, <1>2, <1>5, <1>7, <1>8, <1>9, <1>10, <1>11 DEF W, R, B, N, Wanted, Returned, Back

\* Two bounds of half a unit each for every conversion, divided by the divisor.
LEMMA NearArithmetic ==
    ASSUME NEW n \in Positive, NEW d \in Positive,
           NEW Q \in Nat, NEW B \in Nat, NEW K \in Nat, NEW R \in Nat, NEW C \in Nat,
           R <= Q, 2 * (n * Q) <= 2 * (d * B) + d, 2 * (d * K) <= 2 * (n * R) + d * C
    PROVE  2 * (K - B) <= C + 1
<1>1. n * R <= n * Q
  BY DEF Positive
<1>2. d * K \in Int /\ d * B \in Int /\ n * R \in Int /\ n * Q \in Int /\ d * C \in Int /\ d \in Int
  BY DEF Positive
<1>3. 2 * (d * K) <= 2 * (d * B) + d + d * C
  BY <1>1, <1>2
<1>4. d * (2 * (K - B)) = 2 * (d * K) - 2 * (d * B) /\ d * (C + 1) = d * C + d
  BY DEF Positive
<1>5. d * (2 * (K - B)) <= d * (C + 1)
  BY <1>2, <1>3, <1>4
<1> DEFINE x == 2 * (K - B)
           y == C + 1
<1>6. x \in Int /\ y \in Int /\ d * x <= d * y
  BY <1>5
<1> HIDE DEF x, y
<1>7. x <= y
  <2> SUFFICES ASSUME x >= y + 1 PROVE FALSE
    BY <1>6
  <2>1. d * x >= d * (y + 1)
    BY <1>6 DEF Positive
  <2>2. d * (y + 1) = d * y + d
    BY <1>6 DEF Positive
  <2>3. d * y \in Int /\ d \in Int /\ d > 0 /\ d * x \in Int
    BY <1>6 DEF Positive
  <2>4. QED
    BY <1>6, <2>1, <2>2, <2>3
<1>8. QED
  BY <1>7 DEF x, y

\* Without notes all is zero.
LEMMA NoNotes ==
    ASSUME NEW table, table = <<>>
    PROVE  /\ Total(Wanted(table), Len(table)) = 0
           /\ Total(Returned(table), Len(table)) = 0
           /\ Total(Back(table), Len(table)) = 0
           /\ Cardinality(Posted(table)) = 0
<1>1. Len(table) = 0 /\ 1..Len(table) = {}
  OBVIOUS
<1>2. /\ Wanted(table) \in [1..0 -> Int]
      /\ Returned(table) \in [1..0 -> Int]
      /\ Back(table) \in [1..0 -> Int]
      /\ Posted(table) = {}
  BY <1>1 DEF Wanted, Returned, Back, Posted
<1>3. QED
  BY <1>1, <1>2, TotalEmpty, FS_EmptySet

\* The property: what the deltas of Near add up to.
LEMMA NearIsEnough ==
    ASSUME CatalogInv
    PROVE  ReturnsWithinRounding
<1> DEFINE ratio == RatioOfDelivery(rules)
           K == Total(Back(notes), Len(notes))
           R == Total(Returned(notes), Len(notes))
           W == Total(Wanted(notes), Len(notes))
           C == Cardinality(Posted(notes))
<1> SUFFICES ASSUME Delivered, ~repriced, ~Overlaps(notes)
             PROVE  2 * (K - delivery.base) <= C + 1
  <2>1. DOMAIN notes = 1..Len(notes)
    BY LenProperties DEF CatalogInv, CatalogTypeOK
  <2>2. QED
    BY <2>1 DEF ReturnsWithinRounding, Overlaps, Back, Posted
<1>1. K \in Nat /\ R \in Nat /\ W \in Nat /\ R <= W /\ C \in Nat
  BY TablesSum DEF CatalogInv, CatalogTypeOK
<1>2. W <= delivery.qty /\ delivery.qty \in Nat /\ delivery.base \in Nat
  BY DEF CatalogInv, CatalogTypeOK, WithinDelivery
<1>3. Near(delivery, notes, ratio)
  BY DEF CatalogInv
<1>4. /\ ratio[1] \in Positive /\ ratio[2] \in Positive
      /\ 2 * (ratio[1] * delivery.qty) <= 2 * (ratio[2] * delivery.base) + ratio[2]
      /\ 2 * (ratio[2] * K) <= 2 * (ratio[1] * R) + ratio[2] * C
  BY <1>3 DEF Near
<1> HIDE DEF K, R, W, C, ratio
<1>5. R <= delivery.qty
  BY <1>1, <1>2
<1>6. QED
  BY <1>1, <1>2, <1>4, <1>5, NearArithmetic

\* At first there is no delivery.
LEMMA CatalogStarts ==
    ASSUME CatalogInit
    PROVE  CatalogInv
<1>1. rules = <<>> /\ notes = <<>> /\ delivery = NoDelivery /\ ~repriced /\ repriced \in BOOLEAN
  BY DEF CatalogInit
<1>2. delivery.qty = 0 /\ delivery.base = 0 /\ ~Delivered
  BY <1>1 DEF NoDelivery, Delivered
<1>3. CatalogTypeOK
  BY <1>1, <1>2 DEF CatalogTypeOK
<1>4. Total(Wanted(notes), Len(notes)) = 0
  BY <1>1, NoNotes
<1>5. QED
  BY <1>1, <1>2, <1>3, <1>4 DEF CatalogInv, WithinDelivery

\* Conversions change; if that of the delivery does, the bound is off.
LEMMA ChangeRulesInv ==
    ASSUME CatalogInv, NEW table \in Seq(RuleRow), ChangeRules(table)
    PROVE  CatalogInv'
<1>1. /\ rules' = table /\ delivery' = delivery /\ notes' = notes /\ product' = product
      /\ repriced' = (repriced \/ (Delivered /\ RatioOfDelivery(table) # RatioOfDelivery(rules)))
  BY DEF ChangeRules
<1>2. CatalogTypeOK' /\ (Delivered' <=> Delivered)
  BY <1>1 DEF CatalogInv, CatalogTypeOK, Delivered
<1>3. WithinDelivery(delivery', notes') /\ (~Delivered' => notes' = <<>>)
  BY <1>1, <1>2 DEF CatalogInv
<1>4. Delivered' /\ ~repriced' => Near(delivery', notes', RatioOfDelivery(rules)')
  <2> SUFFICES ASSUME Delivered, ~repriced' PROVE Near(delivery, notes, RatioOfDelivery(rules)')
    BY <1>1, <1>2
  <2>1. RatioOfDelivery(rules)' = RatioOfDelivery(table)
    BY <1>1 DEF RatioOfDelivery
  <2>2. ~repriced /\ RatioOfDelivery(table) = RatioOfDelivery(rules)
    BY <1>1
  <2>3. QED
    BY <2>1, <2>2 DEF CatalogInv
<1>5. QED
  BY <1>2, <1>3, <1>4 DEF CatalogInv

\* The rows after an operation on the conversions.
LEMMA RuleTables ==
    ASSUME NEW table \in Seq(RuleRow)
    PROVE  /\ \A own \in BOOLEAN, from, to \in MeasureUnits, f \in Factors :
                  Append(table, [own |-> own, from |-> from, to |-> to, factor |-> f, live |-> TRUE])
                      \in Seq(RuleRow)
           /\ \A i \in DOMAIN table, f \in Factors : [table EXCEPT ![i].factor = f] \in Seq(RuleRow)
           /\ \A i \in DOMAIN table, live \in BOOLEAN : [table EXCEPT ![i].live = live] \in Seq(RuleRow)
<1>1. Factors \subseteq Positive
  BY FactorsAssumption DEF Positive
<1>2. \A own \in BOOLEAN, from, to \in MeasureUnits, f \in Factors :
          [own |-> own, from |-> from, to |-> to, factor |-> f, live |-> TRUE] \in RuleRow
  BY <1>1 DEF RuleRow
<1>3. \A i \in DOMAIN table : table[i] \in RuleRow
  BY ElementOfSeq, LenProperties
<1>4. \A i \in DOMAIN table, rule \in RuleRow : [table EXCEPT ![i] = rule] \in Seq(RuleRow)
  BY ExceptSeq
<1>5. \A i \in DOMAIN table, f \in Factors : [table[i] EXCEPT !.factor = f] \in RuleRow
  BY <1>1, <1>3 DEF RuleRow
<1>6. \A i \in DOMAIN table, live \in BOOLEAN : [table[i] EXCEPT !.live = live] \in RuleRow
  BY <1>3 DEF RuleRow
<1>7. QED
  BY <1>2, <1>4, <1>5, <1>6, AppendProperties

\* The base unit stays once there are movements.
LEMMA UpdateProductInv ==
    ASSUME CatalogInv, NEW base, NEW other, UpdateProduct(base, other)
    PROVE  CatalogInv'
<1>1. /\ rules' = rules /\ delivery' = delivery /\ notes' = notes /\ repriced' = repriced
      /\ product'.base = base /\ (Delivered => base = product.base)
  BY DEF UpdateProduct
<1>2. CatalogTypeOK' /\ (Delivered' <=> Delivered)
  BY <1>1 DEF CatalogInv, CatalogTypeOK, Delivered
<1>3. Delivered => RatioOfDelivery(rules)' = RatioOfDelivery(rules)
  BY <1>1 DEF RatioOfDelivery
<1>4. QED
  BY <1>1, <1>2, <1>3 DEF CatalogInv

\* The delivery is rounded once.
LEMMA DeliverInv ==
    ASSUME CatalogInv, NEW from \in MeasureUnits, NEW qty \in LineQuantities, Deliver(from, qty)
    PROVE  CatalogInv'
<1> DEFINE ratio == Ratio(rules, from, product.base)
           base == ToBase(qty, ratio)
<1>1. /\ ~Delivered /\ ratio # NoRatio /\ base > 0
      /\ delivery' = [unit |-> from, qty |-> qty, base |-> base]
      /\ rules' = rules /\ notes' = notes /\ product' = product /\ repriced' = repriced
  BY DEF Deliver
<1>2. ratio[1] \in Positive /\ ratio[2] \in Positive
  BY <1>1, RatioPositive DEF CatalogInv, CatalogTypeOK
<1>3. qty \in Positive
  BY FactorsAssumption DEF Positive
<1>4. RatioOfDelivery(rules)' = ratio
  BY <1>1 DEF RatioOfDelivery
<1> HIDE DEF ratio
<1>5. qty * ratio[1] \in Nat /\ ratio[1] * qty = qty * ratio[1]
  BY <1>2, <1>3 DEF Positive
<1>6. base \in Nat /\ 2 * (ratio[1] * qty) <= 2 * (ratio[2] * base) + ratio[2]
  BY <1>2, <1>5, QuantizeNear DEF ToBase
<1> HIDE DEF base
<1>7. notes = <<>> /\ notes' = <<>>
  BY <1>1 DEF CatalogInv
<1>8. CatalogTypeOK'
  BY <1>1, <1>3, <1>6 DEF CatalogInv, CatalogTypeOK, Positive
<1>9. Delivered'
  BY <1>1, <1>3 DEF Delivered, NoDelivery, Positive
<1>10. /\ Total(Wanted(notes'), Len(notes')) = 0
       /\ Total(Returned(notes'), Len(notes')) = 0
       /\ Total(Back(notes'), Len(notes')) = 0
       /\ Cardinality(Posted(notes')) = 0
  BY <1>7, NoNotes
<1>11. WithinDelivery(delivery', notes')
  BY <1>1, <1>3, <1>10 DEF WithinDelivery, Positive
<1>12. Near(delivery', notes', ratio)
  <2>1. ratio[1] * 0 = 0 /\ ratio[2] * 0 = 0
    BY <1>2 DEF Positive
  <2>2. QED
    BY <1>1, <1>2, <1>6, <1>10, <2>1 DEF Near
<1>13. QED
  BY <1>4, <1>8, <1>9, <1>11, <1>12 DEF CatalogInv

\* A draft brings nothing back.
LEMMA WriteNoteInv ==
    ASSUME CatalogInv, NEW qty \in LineQuantities, WriteNote(qty)
    PROVE  CatalogInv'
<1> DEFINE o == \E k \in 1..Len(notes) : notes[k].base = 0
           note == [qty |-> qty, base |-> 0, overlapped |-> o]
           N == Len(notes)
<1>1. /\ Delivered /\ notes' = Append(notes, note)
      /\ Total(Returned(notes), N) + qty <= delivery.qty
      /\ rules' = rules /\ delivery' = delivery /\ product' = product /\ repriced' = repriced
  BY DEF WriteNote, TotalReturnedOf, Returned
<1> HIDE DEF o
<1>2. notes \in Seq(NoteRow) /\ N \in Nat /\ qty \in Positive /\ note \in NoteRow
  <2>1. o \in BOOLEAN
    BY DEF o
  <2>2. QED
    BY <2>1, FactorsAssumption DEF CatalogInv, CatalogTypeOK, Positive, NoteRow
<1>3. /\ notes' \in Seq(NoteRow) /\ Len(notes') = N + 1
      /\ \A k \in 1..N : notes'[k] = notes[k]
      /\ notes'[N + 1] = note
  BY <1>1, <1>2, AppendProperties
<1>4. CatalogTypeOK' /\ Delivered'
  BY <1>1, <1>3 DEF CatalogInv, CatalogTypeOK, Delivered
<1>5. RatioOfDelivery(rules)' = RatioOfDelivery(rules)
  BY <1>1 DEF RatioOfDelivery
<1>6. /\ Wanted(notes) \in [1..N -> Int] /\ Returned(notes) \in [1..N -> Int]
      /\ Back(notes) \in [1..N -> Int]
      /\ Wanted(notes') \in [1..(N + 1) -> Int] /\ Returned(notes') \in [1..(N + 1) -> Int]
      /\ Back(notes') \in [1..(N + 1) -> Int]
  BY <1>2, <1>3, TablesSum
<1>7. /\ \A k \in 1..N : /\ Wanted(notes')[k] = Wanted(notes)[k]
                         /\ Returned(notes')[k] = Returned(notes)[k]
                         /\ Back(notes')[k] = Back(notes)[k]
      /\ Wanted(notes')[N + 1] = qty /\ Returned(notes')[N + 1] = 0 /\ Back(notes')[N + 1] = 0
  BY <1>2, <1>3 DEF Wanted, Returned, Back
<1>8. Posted(notes') = Posted(notes)
  BY <1>2, <1>3 DEF Posted
<1> HIDE DEF N
<1>9. Total(Wanted(notes'), N + 1) = Total(Wanted(notes), N) + qty
  BY <1>2, <1>6, <1>7, TotalStep
<1>10. Total(Returned(notes'), N + 1) = Total(Returned(notes), N) + 0
  <2>1. \A k \in 1..N : Returned(notes)[k] = Returned(notes')[k]
    BY <1>7
  <2>2. Total(Returned(notes'), N + 1) = Total(Returned(notes), N) + Returned(notes')[N + 1]
    BY <1>2, <1>6, <2>1, TotalStep
  <2>3. QED
    BY <1>7, <2>2
<1>11. Total(Back(notes'), N + 1) = Total(Back(notes), N) + 0
  <2>1. \A k \in 1..N : Back(notes)[k] = Back(notes')[k]
    BY <1>7
  <2>2. Total(Back(notes'), N + 1) = Total(Back(notes), N) + Back(notes')[N + 1]
    BY <1>2, <1>6, <2>1, TotalStep
  <2>3. QED
    BY <1>7, <2>2
<1>12. Total(Returned(notes), N) \in Nat /\ Total(Back(notes), N) \in Nat
  BY <1>2, TablesSum DEF N
<1>13. WithinDelivery(delivery', notes')
  <2> SUFFICES ASSUME ~Overlaps(notes')
               PROVE  Total(Wanted(notes'), Len(notes')) <= delivery.qty
    BY <1>1 DEF WithinDelivery
  <2>1. N + 1 \in 1..Len(notes') /\ note.overlapped = o
    BY <1>2, <1>3
  <2>2. ~o
    BY <1>3, <2>1 DEF Overlaps
  <2>3. \A k \in 1..N : notes[k].base # 0
    BY <2>2 DEF o, N
  <2>4. Wanted(notes) = Returned(notes)
    BY <2>3 DEF Wanted, Returned, N
  <2>5. QED
    BY <1>1, <1>3, <1>9, <2>4
<1>14. ~repriced' => Near(delivery', notes', RatioOfDelivery(rules)')
  <2> SUFFICES ASSUME ~repriced PROVE Near(delivery, notes', RatioOfDelivery(rules))
    BY <1>1, <1>5
  <2>1. Near(delivery, notes, RatioOfDelivery(rules))
    BY <1>1 DEF CatalogInv
  <2>2. /\ Total(Returned(notes'), Len(notes')) = Total(Returned(notes), Len(notes))
        /\ Total(Back(notes'), Len(notes')) = Total(Back(notes), Len(notes))
    BY <1>3, <1>10, <1>11, <1>12 DEF N
  <2>3. QED
    BY <1>8, <2>1, <2>2 DEF Near
<1>15. QED
  BY <1>4, <1>13, <1>14 DEF CatalogInv

\* One more conversion adds half a unit.
LEMMA PostArithmetic ==
    ASSUME NEW n \in Positive, NEW d \in Positive,
           NEW q \in Nat, NEW b \in Nat, NEW K \in Nat, NEW R \in Nat, NEW C \in Nat,
           2 * (d * K) <= 2 * (n * R) + d * C, 2 * (d * b) <= 2 * (n * q) + d
    PROVE  2 * (d * (K + b)) <= 2 * (n * (R + q)) + d * (C + 1)
<1>1. d * (K + b) = d * K + d * b /\ n * (R + q) = n * R + n * q /\ d * (C + 1) = d * C + d
  BY DEF Positive
<1>2. /\ d * K \in Int /\ d * b \in Int /\ n * R \in Int /\ n * q \in Int /\ d * C \in Int
      /\ d \in Int
  BY DEF Positive
<1>3. QED
  BY <1>1, <1>2

\* A posted note is rounded on its own.
LEMMA PostNoteInv ==
    ASSUME CatalogInv, NEW k \in DOMAIN notes, PostNote(k)
    PROVE  CatalogInv'
<1> DEFINE ratio == RatioOfDelivery(rules)
           N == Len(notes)
           q == notes[k].qty
           b == ToBase(q, ratio)
           note == [notes[k] EXCEPT !.base = b]
<1>1. /\ notes[k].base = 0 /\ ratio # NoRatio /\ b > 0
      /\ notes' = [notes EXCEPT ![k] = note]
      /\ rules' = rules /\ delivery' = delivery /\ product' = product /\ repriced' = repriced
  BY DEF PostNote
<1>2. notes \in Seq(NoteRow) /\ N \in Nat /\ k \in 1..N /\ notes[k] \in NoteRow /\ q \in Positive
  <2>1. notes \in Seq(NoteRow)
    BY DEF CatalogInv, CatalogTypeOK
  <2>2. N \in Nat /\ k \in 1..N
    BY <2>1, LenProperties
  <2>3. notes[k] \in NoteRow
    BY <2>1, <2>2, ElementOfSeq
  <2>4. QED
    BY <2>1, <2>2, <2>3 DEF NoteRow
<1>3. ratio[1] \in Positive /\ ratio[2] \in Positive
  BY <1>1, RatioPositive DEF CatalogInv, CatalogTypeOK, RatioOfDelivery
<1>4. RatioOfDelivery(rules)' = ratio
  BY <1>1 DEF RatioOfDelivery
<1> HIDE DEF ratio
<1>5. q * ratio[1] \in Nat /\ ratio[1] * q = q * ratio[1]
  BY <1>2, <1>3 DEF Positive
<1>6. b \in Nat /\ b # 0 /\ 2 * (ratio[2] * b) <= 2 * (ratio[1] * q) + ratio[2]
  BY <1>1, <1>2, <1>3, <1>5, QuantizeNear DEF ToBase
<1> HIDE DEF b
<1>7. note \in NoteRow /\ note.qty = q /\ note.base = b
  BY <1>2, <1>6 DEF NoteRow
<1> HIDE DEF note, q
<1>8. /\ notes' \in Seq(NoteRow) /\ Len(notes') = N
      /\ \A j \in 1..N : notes'[j] = IF j = k THEN note ELSE notes[j]
  BY <1>1, <1>2, <1>7, ExceptSeq
<1>9. Delivered /\ Delivered'
  <2>1. notes # <<>>
    BY <1>2
  <2>2. QED
    BY <1>1, <2>1 DEF CatalogInv, Delivered
<1>10. CatalogTypeOK'
  BY <1>1, <1>8, <1>9 DEF CatalogInv, CatalogTypeOK, Delivered
<1>11. Wanted(notes') = Wanted(notes)
  BY <1>2, <1>7, <1>8 DEF Wanted, q
<1>12. /\ \A j \in 1..N : j # k => /\ Returned(notes')[j] = Returned(notes)[j]
                                   /\ Back(notes')[j] = Back(notes)[j]
       /\ Returned(notes')[k] = q /\ Returned(notes)[k] = 0
       /\ Back(notes')[k] = b /\ Back(notes)[k] = 0
  BY <1>1, <1>2, <1>6, <1>7, <1>8 DEF Returned, Back
<1>13. Posted(notes') = Posted(notes) \cup {k} /\ k \notin Posted(notes)
  BY <1>1, <1>2, <1>6, <1>7, <1>8 DEF Posted
<1>14. /\ Returned(notes) \in [1..N -> Int] /\ Back(notes) \in [1..N -> Int]
       /\ Returned(notes') \in [1..N -> Int] /\ Back(notes') \in [1..N -> Int]
       /\ Total(Returned(notes), N) \in Nat /\ Total(Back(notes), N) \in Nat
       /\ IsFiniteSet(Posted(notes)) /\ Cardinality(Posted(notes)) \in Nat
  BY <1>2, <1>8, TablesSum
<1> HIDE DEF N
<1>15. Total(Returned(notes'), N) = Total(Returned(notes), N) + q
  <2>1. \A j \in 1..N : j # k => Returned(notes')[j] = Returned(notes)[j]
    BY <1>12
  <2>2. Total(Returned(notes'), N) = Total(Returned(notes), N) + Returned(notes')[k] - Returned(notes)[k]
    <3> DEFINE f == Returned(notes)
               g == Returned(notes')
    <3>1. N \in Nat /\ k \in 1..N /\ f \in [1..N -> Int] /\ g \in [1..N -> Int]
          /\ \A j \in 1..N : j # k => g[j] = f[j]
      BY <1>2, <1>14, <2>1
    <3> HIDE DEF f, g
    <3>2. Total(g, N) = Total(f, N) + g[k] - f[k]
      BY <3>1, TotalChange
    <3>3. QED
      BY <3>2 DEF f, g
  <2>3. q \in Int
    BY <1>2, <1>6 DEF Positive
  <2>4. QED
    BY <1>12, <1>14, <2>2, <2>3
<1>16. Total(Back(notes'), N) = Total(Back(notes), N) + b
  <2>1. \A j \in 1..N : j # k => Back(notes')[j] = Back(notes)[j]
    BY <1>12
  <2>2. Total(Back(notes'), N) = Total(Back(notes), N) + Back(notes')[k] - Back(notes)[k]
    <3> DEFINE f == Back(notes)
               g == Back(notes')
    <3>1. N \in Nat /\ k \in 1..N /\ f \in [1..N -> Int] /\ g \in [1..N -> Int]
          /\ \A j \in 1..N : j # k => g[j] = f[j]
      BY <1>2, <1>14, <2>1
    <3> HIDE DEF f, g
    <3>2. Total(g, N) = Total(f, N) + g[k] - f[k]
      BY <3>1, TotalChange
    <3>3. QED
      BY <3>2 DEF f, g
  <2>3. b \in Int
    BY <1>2, <1>6 DEF Positive
  <2>4. QED
    BY <1>12, <1>14, <2>2, <2>3
<1>17. Cardinality(Posted(notes')) = Cardinality(Posted(notes)) + 1
  BY <1>13, <1>14, FS_AddElement
<1>18. WithinDelivery(delivery', notes')
  <2>1. \A j \in 1..N : notes'[j].overlapped = notes[j].overlapped
    <3>1. note.overlapped = notes[k].overlapped
      BY <1>2 DEF note, NoteRow
    <3>2. QED
      BY <1>2, <1>8, <3>1
  <2>2. Overlaps(notes) => Overlaps(notes')
    BY <1>8, <2>1 DEF Overlaps, N
  <2>3. Total(Wanted(notes'), Len(notes')) = Total(Wanted(notes), Len(notes))
    BY <1>8, <1>11 DEF N
  <2>4. QED
    BY <1>1, <2>2, <2>3 DEF CatalogInv, WithinDelivery
<1>19. ~repriced' => Near(delivery', notes', ratio)
  <2> SUFFICES ASSUME ~repriced PROVE Near(delivery, notes', ratio)
    BY <1>1
  <2>1. Near(delivery, notes, ratio)
    BY <1>9 DEF CatalogInv, ratio
  <2>2. /\ 2 * (ratio[1] * delivery.qty) <= 2 * (ratio[2] * delivery.base) + ratio[2]
        /\ 2 * (ratio[2] * Total(Back(notes), N))
              <= 2 * (ratio[1] * Total(Returned(notes), N)) + ratio[2] * Cardinality(Posted(notes))
    BY <2>1 DEF Near, N
  <2>3. q \in Nat
    BY <1>2 DEF Positive
  <2>4. 2 * (ratio[2] * (Total(Back(notes), N) + b))
            <= 2 * (ratio[1] * (Total(Returned(notes), N) + q))
               + ratio[2] * (Cardinality(Posted(notes)) + 1)
    BY <1>3, <1>6, <1>14, <2>2, <2>3, PostArithmetic
  <2>5. Len(notes') = N
    BY <1>8
  <2>6. QED
    BY <1>3, <1>15, <1>16, <1>17, <2>2, <2>4, <2>5 DEF Near
<1>20. QED
  BY <1>4, <1>9, <1>10, <1>18, <1>19 DEF CatalogInv

\* No step of the catalog breaks it.
LEMMA CatalogStep ==
    ASSUME CatalogInv, [CatalogNext]_catalog
    PROVE  CatalogInv'
<1>1. CASE UNCHANGED catalog
  <2>1. /\ rules' = rules /\ delivery' = delivery /\ notes' = notes /\ product' = product
        /\ repriced' = repriced
    BY <1>1 DEF catalog
  <2>2. RatioOfDelivery(rules)' = RatioOfDelivery(rules) /\ (Delivered' <=> Delivered)
    BY <2>1 DEF RatioOfDelivery, Delivered
  <2>3. QED
    BY <2>1, <2>2 DEF CatalogInv, CatalogTypeOK
<1>2. rules \in Seq(RuleRow)
  BY DEF CatalogInv, CatalogTypeOK
<1>3. ASSUME NEW own \in BOOLEAN, NEW from \in MeasureUnits, NEW to \in MeasureUnits,
             NEW f \in Factors, CreateConversion(own, from, to, f)
      PROVE  CatalogInv'
  BY <1>2, <1>3, RuleTables, ChangeRulesInv DEF CreateConversion
<1>4. ASSUME NEW i \in DOMAIN rules, NEW f \in Factors, UpdateConversion(i, f) PROVE CatalogInv'
  BY <1>2, <1>4, RuleTables, ChangeRulesInv DEF UpdateConversion
<1>5. ASSUME NEW i \in DOMAIN rules, DeleteConversion(i) \/ RestoreConversion(i) PROVE CatalogInv'
  BY <1>2, <1>5, RuleTables, ChangeRulesInv DEF DeleteConversion, RestoreConversion
<1>6. QED
  BY <1>1, <1>3, <1>4, <1>5, UpdateProductInv, DeliverInv, WriteNoteInv, PostNoteInv DEF CatalogNext

\* What returns bring back to stock exceeds what the delivery took from it by at most
\* half a unit of the last place for every conversion, for any factors, quantities and
\* number of notes, unless the factor was changed in between (_to_base_qty and
\* _to_base_qty_cn, which convert anew) or a note was created while another was a draft
\* (_total_returned counts posted notes only).
THEOREM ReturnsRoundOnly == CatalogSpec => []ReturnsWithinRounding
<1>1. CatalogInit => CatalogInv
  BY CatalogStarts
<1>2. CatalogInv /\ [CatalogNext]_catalog => CatalogInv'
  BY CatalogStep
<1>3. CatalogInv => ReturnsWithinRounding
  BY NearIsEnough
<1>4. QED
  BY <1>1, <1>2, <1>3, PTL DEF CatalogSpec

-----------------------------------------------------------------------------
(* Balance rows: what an open session may rely on                          *)

\* A leg of a movement.
LegRow == [slot: Slots, qty: Int]

\* The legs of a movement: one, or two in different warehouses that cancel out.
Legs(legs) ==
    /\ legs \in Seq(LegRow)
    /\ Len(legs) = 1 \/ Len(legs) = 2
    /\ Len(legs) = 2 => /\ legs[1].slot # legs[2].slot
                        /\ legs[1].slot[2] = legs[2].slot[2]
                        /\ legs[2].qty = -legs[1].qty

\* Movements move something.
MovesGoods(legs) == Legs(legs) /\ \A k \in 1..Len(legs) : legs[k].qty # 0

\* What a request does.
StockOperations == {"receive", "issue", "transfer", "adjust", "recompute", "reverse"}

\* An open request; movements is what has been posted.
RequestFine(req, movements) ==
    /\ req \in [op: StockOperations, legs: Seq(LegRow), peek: BOOLEAN, check: BOOLEAN, approved: BOOLEAN]
    /\ Legs(req.legs)
    /\ IF req.op = "recompute"
       THEN req.peek /\ Len(req.legs) = 1 /\ req.legs[1].qty = 0
       ELSE MovesGoods(req.legs)
    /\ req.op = "issue" => Len(req.legs) = 1
    /\ req.op \in {"receive", "issue", "adjust"} => Len(req.legs) = 1
    /\ req.op = "reverse" =>
          \E legs \in movements : /\ Len(legs) = Len(req.legs)
                                  /\ \A k \in 1..Len(legs) : legs[k].slot = req.legs[k].slot

\* An open session.
OpenSession == [pc: {"peek", "read", "write", "commit"},
            req: [op: StockOperations, legs: Seq(LegRow), peek: BOOLEAN, check: BOOLEAN, approved: BOOLEAN],
            leg: {1, 2}, policy: BOOLEAN, sum: Int,
            seen: [Slots -> Int \cup {None, Unread}],
            new: Int \cup {Unwritten},
            wrote: [Slots -> Int \cup {Unwritten, Same}]]

\* The slot of the leg a session is at.
CurrentSlot(me) == me.req.legs[me.leg].slot
\* ... and what it adds there.
CurrentQty(me) == me.req.legs[me.leg].qty
\* The request is recompute_balance.
Recomputes(me) == me.req.op = "recompute"

\* A quantity below zero that this session may write.
MayWrite(me, quantity, found) ==
    quantity < 0 => \/ me.policy \/ Recomputes(me)
                    \/ found = None /\ me.req.op = "issue" /\ me.req.approved

\* A session, by itself.
SessionFine(me) ==
    /\ me \in OpenSession
    /\ me.leg <= Len(me.req.legs)
    /\ me.pc = "peek" => me.leg = 1
    /\ me.pc = "commit" => me.leg = Len(me.req.legs)
    /\ \A s \in Slots : me.wrote[s] # Unwritten <=>
          \E k \in 1..Len(me.req.legs) :
              (k < me.leg \/ me.pc = "commit") /\ me.req.legs[k].slot = s
    /\ \A s \in Slots : me.wrote[s] = Same => Recomputes(me)
    /\ me.pc = "write" =>
          /\ me.seen[CurrentSlot(me)] # Unread /\ me.new \in Int
          /\ me.new = IF Recomputes(me) THEN me.sum
                      ELSE CurrentQty(me) + (IF me.seen[CurrentSlot(me)] = None THEN 0 ELSE me.seen[CurrentSlot(me)])
          /\ MayWrite(me, me.new, me.seen[CurrentSlot(me)])

\* What it knows of the committed rows, where no overlap has been noted.
SessionKnows(me, rows, sums, hot) ==
    /\ \A s \in Slots : me.seen[s] \in Int /\ me.wrote[s] = Unwritten =>
          rows[s] # None /\ (s \notin hot => rows[s] = me.seen[s])
    /\ \A s \in Slots : me.wrote[s] = Same => rows[s] # None
    /\ \A k \in 1..Len(me.req.legs) :
          LET s == me.req.legs[k].slot
          IN  me.wrote[s] \in Int =>
                  /\ s \notin hot => me.wrote[s] = sums[s] + me.req.legs[k].qty
                  /\ MayWrite(me, me.wrote[s], rows[s])
    /\ Recomputes(me) /\ me.pc # "peek" /\ me.req.legs[1].slot \notin hot =>
          me.sum = sums[me.req.legs[1].slot]

\* An open session, by itself and against the committed rows.
SessionInv(me, rows, sums, hot, movements) ==
    /\ SessionFine(me)
    /\ SessionKnows(me, rows, sums, hot)
    /\ RequestFine(me.req, movements)

\* The committed rows.
StockFine(rows, sums, hot, movements) ==
    /\ rows \in [Slots -> Int \cup {None}]
    /\ sums \in [Slots -> Int]
    /\ \A s \in Slots : rows[s] = None => s \notin hot
    /\ \A s \in Slots : s \notin hot => sums[s] = IF rows[s] = None THEN 0 ELSE rows[s]
    /\ \A legs \in movements : /\ MovesGoods(legs)
                               /\ \A k \in 1..Len(legs) : rows[legs[k].slot] # None

\* The invariant: a row is held by one session, and until the policy changes under an
\* open request all sessions go by the committed one.
SessionsInv ==
    /\ StockFine(row, ledger, raced.slots, posted)
    /\ allowNegative \in BOOLEAN
    /\ raced \in [slots: SUBSET Slots, policy: BOOLEAN]
    /\ DOMAIN session = Clients
    /\ \A c \in Clients : Active(c) => SessionInv(session[c], row, ledger, raced.slots, posted)
    /\ \A c \in Clients : ~Active(c) => session[c] = Idle
    /\ \A c, d \in Clients, s \in Slots : Holds(c, s) /\ Holds(d, s) => c = d
    /\ \A c \in Clients : Active(c) /\ ~raced.policy => session[c].policy = allowNegative

\* The request ends and nothing it did is kept.
LeavesAll(c) == session' = [session EXCEPT ![c] = Idle]

\* The legs of a movement are in slots, one each.
LEMMA LegFacts ==
    ASSUME NEW legs, Legs(legs)
    PROVE  /\ Len(legs) \in {1, 2} /\ 1 \in 1..Len(legs) /\ Len(legs) \in 1..Len(legs)
           /\ \A k \in 1..Len(legs) : legs[k].slot \in Slots /\ legs[k].qty \in Int
           /\ \A k \in 1..Len(legs) : k = 1 \/ k = 2
           /\ \A k, m \in 1..Len(legs) : legs[k].slot = legs[m].slot => k = m
<1>1. \A k \in 1..Len(legs) : legs[k] \in LegRow
  BY ElementOfSeq DEF Legs
<1>2. \A k \in 1..Len(legs) : legs[k].slot \in Slots /\ legs[k].qty \in Int
  BY <1>1 DEF LegRow
<1>3. CASE Len(legs) = 1
  BY <1>2, <1>3
<1>4. CASE Len(legs) = 2
  <2>1. legs[1].slot # legs[2].slot
    BY <1>4 DEF Legs
  <2>2. QED
    BY <1>2, <1>4, <2>1
<1>5. QED
  BY <1>3, <1>4 DEF Legs

\* What an open session is.
LEMMA ActiveFacts ==
    ASSUME SessionsInv, NEW c \in Clients, session[c].pc # "idle"
    PROVE  /\ Active(c) /\ session[c] \in OpenSession
           /\ SessionInv(session[c], row, ledger, raced.slots, posted)
           /\ SessionFine(session[c])
           /\ SessionKnows(session[c], row, ledger, raced.slots)
           /\ RequestFine(session[c].req, posted)
           /\ session[c].leg \in 1..Len(session[c].req.legs)
           /\ CurrentSlot(session[c]) \in Slots /\ CurrentQty(session[c]) \in Int
           /\ session[c].req.legs[session[c].leg] = Current(c)
           /\ ~raced.policy => session[c].policy = allowNegative
<1>1. Active(c)
  BY DEF Active
<1>2. SessionInv(session[c], row, ledger, raced.slots, posted)
      /\ (~raced.policy => session[c].policy = allowNegative)
  BY <1>1 DEF SessionsInv
<1>3. SessionFine(session[c]) /\ SessionKnows(session[c], row, ledger, raced.slots)
      /\ RequestFine(session[c].req, posted)
  BY <1>2 DEF SessionInv
<1>4. session[c] \in OpenSession /\ Legs(session[c].req.legs)
  BY <1>3 DEF SessionFine, RequestFine
<1>5. session[c].leg \in 1..Len(session[c].req.legs)
  BY <1>3, <1>4, LegFacts DEF SessionFine, OpenSession
<1>6. QED
  BY <1>1, <1>2, <1>3, <1>4, <1>5, LegFacts DEF CurrentSlot, CurrentQty, Current

\* A step of one session that commits nothing.
LEMMA OneSessionInv ==
    ASSUME SessionsInv, NEW c \in Clients, NEW next, session' = [session EXCEPT ![c] = next],
           UNCHANGED <<row, ledger, posted, allowNegative, raced>>,
           \/ next = Idle
           \/ /\ next.pc # "idle"
              /\ SessionInv(next, row, ledger, raced.slots, posted)
              /\ ~raced.policy => next.policy = allowNegative
              /\ \A s \in Slots : next.wrote[s] # Unwritten => \A d \in Clients \ {c} : ~Holds(d, s)
    PROVE  SessionsInv'
<1>1. \A d \in Clients : session'[d] = IF d = c THEN next ELSE session[d]
  BY DEF SessionsInv
<1>2. DOMAIN session' = Clients
  BY DEF SessionsInv
<1>3. \A d \in Clients : Active(d)' <=> session'[d].pc # "idle"
  BY DEF Active
<1>4. \A d \in Clients, s \in Slots : Holds(d, s)' <=> Active(d)' /\ session'[d].wrote[s] # Unwritten
  BY DEF Holds
<1>5. \A d \in Clients \ {c} : (Active(d)' <=> Active(d)) /\ session'[d] = session[d]
  BY <1>1 DEF Active
<1>6. \A d \in Clients \ {c}, s \in Slots : Holds(d, s)' <=> Holds(d, s)
  BY <1>4, <1>5 DEF Holds
<1>7. Active(c)' => /\ next # Idle /\ next.pc # "idle"
  BY <1>1, <1>3 DEF Idle
<1>8. ~Active(c)' => next = Idle
  BY <1>1, <1>3
<1>9. StockFine(row, ledger, raced.slots, posted)'
  BY DEF SessionsInv
<1>10. \A d \in Clients : Active(d)' => SessionInv(session'[d], row, ledger, raced.slots, posted)
  BY <1>1, <1>5, <1>7 DEF SessionsInv
<1>11. \A d \in Clients : ~Active(d)' => session'[d] = Idle
  BY <1>1, <1>5, <1>8 DEF SessionsInv
<1>12. \A d, e \in Clients, s \in Slots : Holds(d, s)' /\ Holds(e, s)' => d = e
  <2> SUFFICES ASSUME NEW d \in Clients, NEW e \in Clients, NEW s \in Slots,
                      Holds(d, s)', Holds(e, s)', d # e
               PROVE  FALSE
    OBVIOUS
  <2>1. CASE d # c /\ e # c
    BY <1>6, <2>1 DEF SessionsInv
  <2>2. CASE d = c /\ e # c
    BY <1>1, <1>4, <1>6, <1>7, <2>2
  <2>3. CASE e = c /\ d # c
    BY <1>1, <1>4, <1>6, <1>7, <2>3
  <2>4. QED
    BY <2>1, <2>2, <2>3
<1>13. \A d \in Clients : Active(d)' /\ ~raced.policy => session'[d].policy = allowNegative
  BY <1>1, <1>5, <1>7 DEF SessionsInv
<1>14. QED
  BY <1>2, <1>9, <1>10, <1>11, <1>12, <1>13 DEF SessionsInv

\* A receipt, an issue, an adjustment.
LEMMA OneLeg ==
    ASSUME NEW s \in Slots, NEW q \in Int
    PROVE  /\ Legs(<<Leg(s, q)>>) /\ Len(<<Leg(s, q)>>) = 1
           /\ <<Leg(s, q)>>[1].slot = s /\ <<Leg(s, q)>>[1].qty = q
           /\ q # 0 => MovesGoods(<<Leg(s, q)>>)
<1>1. Leg(s, q) \in LegRow
  BY DEF Leg, LegRow
<1>2. <<Leg(s, q)>> \in Seq(LegRow) /\ Len(<<Leg(s, q)>>) = 1
  BY <1>1
<1>3. QED
  BY <1>2 DEF Legs, MovesGoods, Leg

\* A transfer.
LEMMA TwoLegs ==
    ASSUME NEW s \in Slots, NEW t \in Slots, NEW q \in Int, s # t, s[2] = t[2], q # 0
    PROVE  MovesGoods(<<Leg(s, -q), Leg(t, q)>>)
<1> DEFINE legs == <<Leg(s, -q), Leg(t, q)>>
<1>1. Leg(s, -q) \in LegRow /\ Leg(t, q) \in LegRow
  BY DEF Leg, LegRow
<1>2. legs \in Seq(LegRow) /\ Len(legs) = 2 /\ legs[1] = Leg(s, -q) /\ legs[2] = Leg(t, q)
  BY <1>1
<1> HIDE DEF legs
<1>3. /\ legs[1].slot = s /\ legs[1].qty = -q /\ legs[2].slot = t /\ legs[2].qty = q
      /\ -q # 0 /\ q = -(-q)
  BY <1>2 DEF Leg
<1>4. Legs(legs)
  BY <1>2, <1>3 DEF Legs
<1>5. \A k \in 1..Len(legs) : legs[k].qty # 0
  BY <1>2, <1>3
<1>6. QED
  BY <1>4, <1>5 DEF MovesGoods, legs

\* reverse_movement takes the legs of a movement back where they were.
LEMMA ReversedLegs ==
    ASSUME NEW legs, MovesGoods(legs)
    PROVE  LET back == [k \in 1..Len(legs) |-> Leg(legs[k].slot, -legs[k].qty)]
           IN  /\ MovesGoods(back) /\ Len(back) = Len(legs)
               /\ \A k \in 1..Len(legs) : back[k].slot = legs[k].slot
<1> DEFINE N == Len(legs)
           back == [k \in 1..N |-> Leg(legs[k].slot, -legs[k].qty)]
<1>1. /\ N = 1 \/ N = 2
      /\ \A k \in 1..N : legs[k].slot \in Slots /\ legs[k].qty \in Int /\ legs[k].qty # 0
      /\ N = 2 => /\ legs[1].slot # legs[2].slot /\ legs[1].slot[2] = legs[2].slot[2]
                  /\ legs[2].qty = -legs[1].qty
  BY LegFacts DEF MovesGoods, Legs
<1> HIDE DEF N
<1>2. \A k \in 1..N : back[k] = Leg(legs[k].slot, -legs[k].qty)
  OBVIOUS
<1>3. \A k \in 1..N : /\ back[k] \in LegRow
                      /\ back[k].slot = legs[k].slot /\ back[k].qty = -legs[k].qty
  BY <1>1, <1>2 DEF Leg, LegRow
<1>4. back \in [1..N -> LegRow] /\ N \in Nat
  BY <1>1, <1>3
<1>5. back \in Seq(LegRow) /\ Len(back) = N
  BY <1>4, IsASeq, LenProperties
<1> HIDE DEF back
<1>6. \A k \in 1..N : back[k].qty # 0
  BY <1>1, <1>3
<1>7. N = 2 => 1 \in 1..N /\ 2 \in 1..N
  OBVIOUS
<1>8. N = 2 => /\ back[1].slot # back[2].slot /\ back[1].slot[2] = back[2].slot[2]
               /\ back[2].qty = -back[1].qty
  BY <1>1, <1>3, <1>7
<1>9. Legs(back)
  BY <1>1, <1>5, <1>8 DEF Legs
<1>10. QED
  BY <1>3, <1>5, <1>6, <1>9 DEF MovesGoods, back, N

\* Every request a client can send is one.
LEMMA RequestsAsked ==
    ASSUME SessionsInv, NEW r \in RequestSet
    PROVE  RequestFine(r, posted)
<1>1. Quantities \subseteq Int /\ \A q \in Quantities : q # 0 /\ -q \in Int /\ -q # 0
  BY QuantitiesAssumption
<1>2. ASSUME NEW op \in {"receive", "issue", "adjust"}, NEW s \in Slots, NEW q \in Int, q # 0,
             NEW peek \in BOOLEAN, NEW check \in BOOLEAN, NEW approved \in BOOLEAN
      PROVE  RequestFine(Request(op, <<Leg(s, q)>>, peek, check, approved), posted)
  <2> DEFINE legs == <<Leg(s, q)>>
  <2>1. Legs(legs) /\ MovesGoods(legs) /\ Len(legs) = 1 /\ legs \in Seq(LegRow)
    BY <1>2, OneLeg DEF Legs
  <2> HIDE DEF legs
  <2>2. RequestFine(Request(op, legs, peek, check, approved), posted)
    BY <1>2, <2>1 DEF RequestFine, Request, StockOperations
  <2>3. QED
    BY <2>2 DEF legs
<1>3. CASE r \in Receipts
  <2>1. PICK s \in Slots, q \in Quantities : r = Request("receive", <<Leg(s, q)>>, FALSE, FALSE, FALSE)
    BY <1>3 DEF Receipts, Request, Leg
  <2>2. q \in Int /\ q # 0
    BY <1>1
  <2>3. QED
    BY <1>2, <2>1, <2>2
<1>4. CASE r \in Issues
  <2>1. PICK s \in Slots, q \in Quantities, a \in BOOLEAN :
            r = Request("issue", <<Leg(s, -q)>>, TRUE, TRUE, a)
    BY <1>4 DEF Issues, Request, Leg
  <2>2. -q \in Int /\ -q # 0
    BY <1>1
  <2>3. QED
    BY <1>2, <2>1, <2>2
<1>5. CASE r \in Adjustments
  <2>1. PICK s \in Slots, q \in Quantities :
            r \in {Request("adjust", <<Leg(s, d)>>, TRUE, FALSE, FALSE) : d \in {q, -q}}
    BY <1>5 DEF Adjustments, Request, Leg
  <2>2. PICK d \in {q, -q} : r = Request("adjust", <<Leg(s, d)>>, TRUE, FALSE, FALSE)
    BY <2>1
  <2>3. d \in Int /\ d # 0
    BY <1>1, <2>2
  <2>4. QED
    BY <1>2, <2>2, <2>3
<1>6. CASE r \in Recomputations
  <2>1. PICK s \in Slots : r = Request("recompute", <<Leg(s, 0)>>, TRUE, FALSE, FALSE)
    BY <1>6 DEF Recomputations
  <2> DEFINE legs == <<Leg(s, 0)>>
  <2>2. 0 \in Int
    OBVIOUS
  <2>3. Legs(legs) /\ Len(legs) = 1 /\ legs[1].qty = 0
    BY <2>2, OneLeg
  <2> HIDE DEF legs
  <2>4. legs \in Seq(LegRow)
    BY <2>3 DEF Legs
  <2>5. r = Request("recompute", legs, TRUE, FALSE, FALSE)
    BY <2>1 DEF legs
  <2>6. QED
    BY <2>3, <2>4, <2>5 DEF RequestFine, Request, StockOperations
<1>7. CASE r \in Transfers /\ Acceptable(r)
  <2>1. PICK w \in Warehouses, v \in Warehouses, i \in Items, q \in Quantities, a \in BOOLEAN :
            r = Request("transfer", <<Leg(<<w, i>>, -q), Leg(<<v, i>>, q)>>, TRUE, TRUE, a)
    BY <1>7 DEF Transfers, Request, Leg
  <2> DEFINE s == <<w, i>>
             t == <<v, i>>
             legs == <<Leg(s, -q), Leg(t, q)>>
  <2>2. s \in Slots /\ t \in Slots /\ s[2] = t[2] /\ q \in Int /\ q # 0
    BY <1>1 DEF Slots
  <2>3. legs[1].slot = s /\ legs[2].slot = t
    BY DEF Leg
  <2>4. s # t
    BY <1>7, <2>1, <2>3 DEF Acceptable, Request
  <2> HIDE DEF s, t
  <2>5. MovesGoods(legs)
    BY <2>2, <2>4, TwoLegs
  <2> HIDE DEF legs
  <2>6. r = Request("transfer", legs, TRUE, TRUE, a)
    BY <2>1 DEF legs, s, t
  <2>7. Legs(legs) /\ legs \in Seq(LegRow)
    BY <2>5 DEF MovesGoods, Legs
  <2>8. QED
    BY <2>5, <2>6, <2>7 DEF RequestFine, Request, StockOperations
<1>8. CASE \E legs \in posted : r = ReversalOf(legs)
  <2>1. PICK legs \in posted : r = ReversalOf(legs)
    BY <1>8
  <2> DEFINE back == [k \in 1..Len(legs) |-> Leg(legs[k].slot, -legs[k].qty)]
  <2>2. MovesGoods(legs)
    BY DEF SessionsInv, StockFine
  <2>3. /\ MovesGoods(back) /\ Len(back) = Len(legs)
        /\ \A k \in 1..Len(legs) : back[k].slot = legs[k].slot
    BY <2>2, ReversedLegs
  <2>4. r = Request("reverse", back, FALSE, FALSE, FALSE)
    BY <2>1 DEF ReversalOf
  <2> HIDE DEF back
  <2>5. Legs(back) /\ back \in Seq(LegRow)
    BY <2>3 DEF MovesGoods, Legs
  <2>6. \E old \in posted : /\ Len(old) = Len(back)
                            /\ \A k \in 1..Len(old) : old[k].slot = back[k].slot
    BY <2>3
  <2>7. QED
    BY <2>3, <2>4, <2>5, <2>6 DEF RequestFine, Request, StockOperations
<1>9. QED
  BY <1>3, <1>4, <1>5, <1>6, <1>7, <1>8 DEF RequestSet

\* A session that has written nothing.
LEMMA FineAtStart ==
    ASSUME NEW me, me \in OpenSession, Legs(me.req.legs), me.leg = 1,
           me.pc = "peek" \/ me.pc = "read", \A s \in Slots : me.wrote[s] = Unwritten
    PROVE  SessionFine(me)
<1>1. me.pc # "commit" /\ me.pc # "write" /\ Unwritten # Same
  BY MarkersAssumption
<1>2. 1 <= Len(me.req.legs) /\ \A k \in 1..Len(me.req.legs) : ~(k < 1)
  <2> DEFINE n == Len(me.req.legs)
  <2>1. n \in {1, 2}
    BY LegFacts
  <2> HIDE DEF n
  <2>2. 1 <= n
    BY <2>1
  <2>3. QED
    BY <2>2 DEF n
<1>3. \A s \in Slots : me.wrote[s] # Unwritten <=>
          \E k \in 1..Len(me.req.legs) :
              (k < me.leg \/ me.pc = "commit") /\ me.req.legs[k].slot = s
  BY <1>1, <1>2
<1>4. QED
  BY <1>1, <1>2, <1>3 DEF SessionFine

\* ... knows what its first query returned.
LEMMA KnowsAtStart ==
    ASSUME NEW me, Legs(me.req.legs), \A s \in Slots : me.wrote[s] = Unwritten,
           \A s \in Slots : me.seen[s] \in Int =>
               row[s] # None /\ (s \notin raced.slots => row[s] = me.seen[s]),
           Recomputes(me) /\ me.pc # "peek" => me.sum = ledger[me.req.legs[1].slot]
    PROVE  SessionKnows(me, row, ledger, raced.slots)
<1>1. Unwritten \notin Int /\ Unwritten # Same
  BY MarkersAssumption
<1>2. \A k \in 1..Len(me.req.legs) : me.wrote[me.req.legs[k].slot] \notin Int
  BY <1>1, LegFacts
<1>3. QED
  BY <1>1, <1>2 DEF SessionKnows

\* A session starts with nothing read.
LEMMA OpenSessionInv ==
    ASSUME SessionsInv, NEW c \in Clients, Open(c)
    PROVE  SessionsInv'
<1>1. PICK r \in RequestSet : session' = [session EXCEPT ![c] = Started(r)]
  BY DEF Open
<1> DEFINE next == Started(r)
<1>2. RequestFine(r, posted) /\ allowNegative \in BOOLEAN
  BY RequestsAsked DEF SessionsInv
<1>3. Len(r.legs) \in {1, 2} /\ Legs(r.legs)
  BY <1>2, LegFacts DEF RequestFine
<1>4. /\ next.pc = IF r.peek THEN "peek" ELSE "read"
      /\ next.req = r /\ next.leg = 1 /\ next.policy = allowNegative /\ next.sum = 0
      /\ next.seen = [s \in Slots |-> Unread] /\ next.new = Unwritten
      /\ next.wrote = [s \in Slots |-> Unwritten]
  BY DEF Started
<1>5. next \in OpenSession
  BY <1>2 DEF Started, OpenSession, RequestFine
<1> HIDE DEF next
<1>6. \A s \in Slots : next.wrote[s] = Unwritten /\ next.seen[s] = Unread
  BY <1>4
<1>7. Unread \notin Int /\ Unwritten \notin Int /\ Unwritten # Same
  BY MarkersAssumption
<1>9. next.pc # "commit" /\ next.pc # "write" /\ next.pc # "idle"
  BY <1>4
<1>10. SessionFine(next)
  BY <1>3, <1>4, <1>5, <1>6, FineAtStart
<1>11. Recomputes(next) => next.pc = "peek"
  BY <1>2, <1>4 DEF Recomputes, RequestFine
<1>12. \A k \in 1..Len(r.legs) : r.legs[k].slot \in Slots
  BY <1>3, LegFacts
<1>13. SessionKnows(next, row, ledger, raced.slots)
  BY <1>3, <1>4, <1>6, <1>7, <1>11, KnowsAtStart
<1>14. SessionInv(next, row, ledger, raced.slots, posted)
  BY <1>2, <1>4, <1>10, <1>13 DEF SessionInv
<1>15. session' = [session EXCEPT ![c] = next] /\ UNCHANGED <<row, ledger, posted, allowNegative, raced>>
  BY <1>1 DEF Open, next
<1>16. QED
  BY <1>4, <1>6, <1>9, <1>14, <1>15, OneSessionInv

\* The query before the first ledger row, and the sum of recompute_balance.
LEMMA PeekBalanceInv ==
    ASSUME SessionsInv, NEW c \in Clients, Peek(c)
    PROVE  SessionsInv'
<1> DEFINE me == session[c]
           s == CurrentSlot(me)
<1>1. me.pc = "peek" /\ me.pc # "idle" /\ Current(c).slot = s
  BY DEF Peek, CurrentSlot, Current
<1>2. /\ me \in OpenSession /\ SessionFine(me) /\ SessionKnows(me, row, ledger, raced.slots)
      /\ RequestFine(me.req, posted) /\ s \in Slots
      /\ ~raced.policy => me.policy = allowNegative
  BY <1>1, ActiveFacts
<1>3. Legs(me.req.legs) /\ me.leg = 1
  BY <1>1, <1>2 DEF RequestFine, SessionFine
<1>4. \A t \in Slots : me.wrote[t] = Unwritten
  <2>1. \A k \in 1..Len(me.req.legs) : ~(k < 1)
    BY <1>3, LegFacts
  <2>2. QED
    BY <1>1, <1>2, <1>3, <2>1 DEF SessionFine
<1>5. row \in [Slots -> Int \cup {None}] /\ ledger \in [Slots -> Int]
  BY DEF SessionsInv, StockFine
<1>6. Unread \notin Int /\ None \notin Int /\ Unwritten \notin Int /\ Unwritten # Same
  BY MarkersAssumption
<1>7. \A k \in 1..Len(me.req.legs) : me.req.legs[k].slot \in Slots
  BY <1>3, LegFacts
<1> DEFINE summed == [me EXCEPT !.pc = "read", !.sum = ledger[s]]
           value == IF row[s] = None THEN Unread ELSE row[s]
           looked == [me EXCEPT !.pc = "read", !.seen[s] = value]
<1>8. \/ LeavesAll(c) /\ UNCHANGED <<row, ledger, posted, allowNegative, raced>>
      \/ Recomputes(me) /\ Step(c, summed)
      \/ ~Recomputes(me) /\ Step(c, looked)
  BY <1>1 DEF Peek, Rollback, LeavesAll, Recomputes
<1>9. CASE LeavesAll(c) /\ UNCHANGED <<row, ledger, posted, allowNegative, raced>>
  BY <1>9, OneSessionInv DEF LeavesAll
<1>10. CASE Recomputes(me) /\ Step(c, summed)
  <2> DEFINE next == summed
  <2>1. /\ next \in OpenSession /\ next.pc = "read" /\ next.req = me.req /\ next.leg = 1
        /\ next.policy = me.policy /\ next.sum = ledger[s] /\ next.seen = me.seen
        /\ next.wrote = me.wrote
    BY <1>2, <1>3, <1>5 DEF OpenSession
  <2>2. session' = [session EXCEPT ![c] = next] /\ UNCHANGED <<row, ledger, posted, allowNegative, raced>>
    BY <1>10 DEF Step
  <2>3. s = me.req.legs[1].slot
    BY <1>3 DEF CurrentSlot
  <2> HIDE DEF next, s, me
  <2>4. SessionFine(next)
    BY <1>3, <1>4, <2>1, FineAtStart
  <2>5. SessionKnows(next, row, ledger, raced.slots)
    <3>1. \A t \in Slots : me.seen[t] \in Int =>
              row[t] # None /\ (t \notin raced.slots => row[t] = me.seen[t])
      BY <1>2, <1>4 DEF SessionKnows
    <3>2. QED
      BY <1>3, <1>4, <2>1, <2>3, <3>1, KnowsAtStart
  <2>6. SessionInv(next, row, ledger, raced.slots, posted)
    BY <1>2, <2>1, <2>4, <2>5 DEF SessionInv
  <2>7. QED
    BY <1>2, <1>4, <2>1, <2>2, <2>6, OneSessionInv
<1>11. CASE ~Recomputes(me) /\ Step(c, looked)
  <2> DEFINE next == looked
  <2>0. value \in Int \cup {Unread} /\ (value \in Int => row[s] # None /\ value = row[s])
    BY <1>2, <1>5, <1>6
  <2> HIDE DEF value
  <2>1. /\ next \in OpenSession /\ next.pc = "read" /\ next.req = me.req /\ next.leg = 1
        /\ next.policy = me.policy /\ next.sum = me.sum
        /\ \A t \in Slots : next.seen[t] = IF t = s THEN value ELSE me.seen[t]
        /\ next.wrote = me.wrote
    BY <1>2, <1>3, <2>0 DEF OpenSession
  <2>2. session' = [session EXCEPT ![c] = next] /\ UNCHANGED <<row, ledger, posted, allowNegative, raced>>
    BY <1>11 DEF Step
  <2>3. ~Recomputes(next)
    BY <1>11, <2>1 DEF Recomputes
  <2> HIDE DEF next, s, me
  <2>4. SessionFine(next)
    BY <1>3, <1>4, <2>1, FineAtStart
  <2>5. SessionKnows(next, row, ledger, raced.slots)
    <3>1. \A t \in Slots : me.seen[t] \in Int =>
              row[t] # None /\ (t \notin raced.slots => row[t] = me.seen[t])
      BY <1>2, <1>4 DEF SessionKnows
    <3>2. \A t \in Slots : next.seen[t] \in Int =>
              row[t] # None /\ (t \notin raced.slots => row[t] = next.seen[t])
      BY <2>0, <2>1, <3>1
    <3>3. QED
      BY <1>3, <1>4, <2>1, <2>3, <3>2, KnowsAtStart
  <2>6. SessionInv(next, row, ledger, raced.slots, posted)
    BY <1>2, <2>1, <2>4, <2>5 DEF SessionInv
  <2>7. QED
    BY <1>2, <1>4, <2>1, <2>2, <2>6, OneSessionInv
<1>12. QED
  BY <1>8, <1>9, <1>10, <1>11

\* What a session has written, no other has.
LEMMA SoleHolder ==
    ASSUME SessionsInv, NEW c \in Clients, session[c].pc # "idle"
    PROVE  \A t \in Slots : session[c].wrote[t] # Unwritten => \A d \in Clients \ {c} : ~Holds(d, t)
<1>1. \A t \in Slots : session[c].wrote[t] # Unwritten => Holds(c, t)
  BY DEF Holds, Active
<1>2. QED
  BY <1>1 DEF SessionsInv

\* _update_balance computes on the row of its identity map, or on the committed one.
LEMMA ReadBalanceInv ==
    ASSUME SessionsInv, NEW c \in Clients, Read(c)
    PROVE  SessionsInv'
<1> DEFINE me == session[c]
           s == CurrentSlot(me)
           found == Query(c, s)
           new == IF Recomputes(me) THEN me.sum ELSE CurrentQty(me) + (IF found = None THEN 0 ELSE found)
           next == [me EXCEPT !.pc = "write", !.seen[s] = found, !.new = new]
<1>1. me.pc = "read" /\ me.pc # "idle" /\ Current(c).slot = s /\ Current(c).qty = CurrentQty(me)
  BY DEF Read, CurrentSlot, CurrentQty, Current
<1>2. /\ me \in OpenSession /\ SessionFine(me) /\ SessionKnows(me, row, ledger, raced.slots)
      /\ RequestFine(me.req, posted) /\ s \in Slots /\ CurrentQty(me) \in Int
      /\ ~raced.policy => me.policy = allowNegative
  BY <1>1, ActiveFacts
<1>3. row \in [Slots -> Int \cup {None}]
  BY DEF SessionsInv, StockFine
<1>4. Unread \notin Int /\ None \notin Int /\ Unwritten \notin Int /\ Unread # None
  BY MarkersAssumption
<1>5. found \in Int \cup {None} /\ found = IF me.seen[s] \in Int THEN me.seen[s] ELSE row[s]
  BY <1>2, <1>3 DEF Query
<1>6. \/ LeavesAll(c) /\ UNCHANGED <<row, ledger, posted, allowNegative, raced>>
      \/ ~(~Recomputes(me) /\ Refused(c, found, new)) /\ Step(c, next)
  BY <1>1 DEF Read, Rollback, LeavesAll, Recomputes
<1>7. CASE LeavesAll(c) /\ UNCHANGED <<row, ledger, posted, allowNegative, raced>>
  BY <1>7, OneSessionInv DEF LeavesAll
<1>8. CASE ~(~Recomputes(me) /\ Refused(c, found, new)) /\ Step(c, next)
  <2>1. me.sum \in Int
    BY <1>2 DEF OpenSession
  <2> HIDE DEF found
  <2>2. new \in Int
    BY <1>2, <1>5, <2>1
  <2>3. MayWrite(me, new, found)
    BY <1>8 DEF MayWrite, Refused, Recomputes
  <2>4. new = IF Recomputes(me) THEN me.sum ELSE CurrentQty(me) + (IF found = None THEN 0 ELSE found)
    OBVIOUS
  <2> HIDE DEF new
  <2>5. /\ next \in OpenSession /\ next.pc = "write" /\ next.req = me.req /\ next.leg = me.leg
        /\ next.policy = me.policy /\ next.sum = me.sum /\ next.new = new
        /\ \A t \in Slots : next.seen[t] = IF t = s THEN found ELSE me.seen[t]
        /\ next.wrote = me.wrote
    BY <1>2, <1>5, <2>2 DEF OpenSession
  <2>6. session' = [session EXCEPT ![c] = next] /\ UNCHANGED <<row, ledger, posted, allowNegative, raced>>
    BY <1>8 DEF Step
  <2> HIDE DEF next
  <2>7. CurrentSlot(next) = s /\ CurrentQty(next) = CurrentQty(me) /\ (Recomputes(next) <=> Recomputes(me))
    BY <2>5 DEF CurrentSlot, CurrentQty, Recomputes
  <2>8. MayWrite(next, new, found)
    BY <2>3, <2>5, <2>7 DEF MayWrite
  <2>9. next.seen[s] = found /\ found # Unread
    BY <1>2, <1>4, <1>5, <2>5
  <2> HIDE DEF s, me
  <2>10. SessionFine(next)
    BY <1>1, <1>2, <2>2, <2>4, <2>5, <2>7, <2>8, <2>9 DEF SessionFine
  <2>11. SessionKnows(next, row, ledger, raced.slots)
    <3>1. \A t \in Slots : next.seen[t] \in Int /\ next.wrote[t] = Unwritten =>
              row[t] # None /\ (t \notin raced.slots => row[t] = next.seen[t])
      BY <1>2, <1>4, <1>5, <2>5 DEF SessionKnows
    <3>2. \A t \in Slots : next.wrote[t] = Same => row[t] # None
      BY <1>2, <2>5 DEF SessionKnows
    <3>3. \A k \in 1..Len(next.req.legs) :
              LET t == next.req.legs[k].slot
              IN  next.wrote[t] \in Int =>
                      /\ t \notin raced.slots => next.wrote[t] = ledger[t] + next.req.legs[k].qty
                      /\ MayWrite(next, next.wrote[t], row[t])
      BY <1>2, <2>5, <2>7 DEF SessionKnows, MayWrite
    <3>4. Recomputes(next) /\ next.pc # "peek" /\ next.req.legs[1].slot \notin raced.slots =>
              next.sum = ledger[next.req.legs[1].slot]
      BY <1>1, <1>2, <2>5, <2>7 DEF SessionKnows
    <3>5. QED
      BY <3>1, <3>2, <3>3, <3>4 DEF SessionKnows
  <2>12. SessionInv(next, row, ledger, raced.slots, posted)
    BY <1>2, <2>5, <2>10, <2>11 DEF SessionInv
  <2>13. \A t \in Slots : next.wrote[t] # Unwritten => \A d \in Clients \ {c} : ~Holds(d, t)
    BY <1>1, <2>5, SoleHolder DEF me
  <2>14. QED
    BY <1>2, <2>5, <2>6, <2>12, <2>13, OneSessionInv
<1>9. QED
  BY <1>6, <1>7, <1>8

\* The flush writes what was computed, once no other session holds the row.
LEMMA WriteBalanceInv ==
    ASSUME SessionsInv, NEW c \in Clients, Write(c)
    PROVE  SessionsInv'
<1> DEFINE me == session[c]
           s == CurrentSlot(me)
           next == Written(me, s)
           last == Len(me.req.legs)
<1>1. /\ me.pc = "write" /\ me.pc # "idle" /\ Current(c).slot = s
      /\ \A d \in Clients \ {c} : ~Holds(d, s)
  BY DEF Write, CurrentSlot, Current
<1>2. /\ me \in OpenSession /\ SessionFine(me) /\ SessionKnows(me, row, ledger, raced.slots)
      /\ RequestFine(me.req, posted) /\ s \in Slots /\ CurrentQty(me) \in Int
      /\ me.leg \in 1..last
      /\ ~raced.policy => me.policy = allowNegative
  BY <1>1, ActiveFacts
<1>3. /\ row \in [Slots -> Int \cup {None}] /\ ledger \in [Slots -> Int]
      /\ \A t \in Slots : t \notin raced.slots => ledger[t] = IF row[t] = None THEN 0 ELSE row[t]
  BY DEF SessionsInv, StockFine
<1>4. /\ Unread \notin Int /\ None \notin Int /\ Unwritten \notin Int /\ Same \notin Int
      /\ Unread # None /\ Unwritten # Same
  BY MarkersAssumption
<1>5. \/ LeavesAll(c) /\ UNCHANGED <<row, ledger, posted, allowNegative, raced>>
      \/ ~(me.seen[s] = None /\ row[s] # None) /\ Step(c, next)
  BY <1>1 DEF Write, Rollback, LeavesAll
<1>6. CASE LeavesAll(c) /\ UNCHANGED <<row, ledger, posted, allowNegative, raced>>
  BY <1>6, OneSessionInv DEF LeavesAll
<1>7. CASE ~(me.seen[s] = None /\ row[s] # None) /\ Step(c, next)
  <2> DEFINE value == IF me.seen[s] = me.new THEN Same ELSE me.new
  <2>1. /\ me.seen[s] # Unread /\ me.new \in Int
        /\ me.new = IF Recomputes(me) THEN me.sum
                    ELSE CurrentQty(me) + (IF me.seen[s] = None THEN 0 ELSE me.seen[s])
        /\ MayWrite(me, me.new, me.seen[s])
    BY <1>1, <1>2 DEF SessionFine
  <2>2. me.seen[s] \in Int \cup {None}
    BY <1>2, <2>1 DEF OpenSession
  <2>3. /\ Legs(me.req.legs) /\ last \in {1, 2}
        /\ \A k \in 1..last : me.req.legs[k].slot \in Slots /\ me.req.legs[k].qty \in Int
        /\ \A k, m \in 1..last : me.req.legs[k].slot = me.req.legs[m].slot => k = m
    BY <1>2, LegFacts DEF RequestFine
  <2>4. \A t \in Slots : me.wrote[t] # Unwritten <=>
            \E k \in 1..last : k < me.leg /\ me.req.legs[k].slot = t
    BY <1>1, <1>2 DEF SessionFine
  <2>5. me.wrote[s] = Unwritten
    <3>1. \A k \in 1..last : me.req.legs[k].slot = s => k = me.leg
      BY <1>2, <2>3 DEF CurrentSlot
    <3>2. \A k \in 1..last : k = me.leg => ~(k < me.leg)
      OBVIOUS
    <3>3. QED
      BY <1>2, <2>4, <3>1, <3>2
  <2>6. value \in Int \cup {Same} /\ value # Unwritten
    BY <1>4, <2>1
  <2>7. value = Same => Recomputes(me)
    <3>1. ~Recomputes(me) => CurrentQty(me) # 0
      BY <1>2 DEF RequestFine, Recomputes, MovesGoods, CurrentQty
    <3>2. QED
      BY <1>2, <1>4, <2>1, <2>2, <3>1
  <2>8. value = Same => me.seen[s] \in Int
    BY <1>4, <2>1
  <2>9. value \in Int => value = me.new
    BY <1>4
  <2> HIDE DEF value
  <2> DEFINE turn == IF me.leg = last THEN "commit" ELSE "read"
             leg == IF me.leg = last THEN me.leg ELSE me.leg + 1
  <2>10. leg \in {1, 2} /\ leg \in 1..last
    <3>1. last \in {1, 2} /\ me.leg \in 1..last
      BY <1>2, <2>3
    <3> HIDE DEF last, me
    <3>2. QED
      BY <3>1
  <2>11. next = [me EXCEPT !.pc = turn, !.leg = leg, !.wrote[s] = value, !.seen[s] = me.new]
    BY DEF Written, value
  <2>12. session' = [session EXCEPT ![c] = next] /\ UNCHANGED <<row, ledger, posted, allowNegative, raced>>
    BY <1>7 DEF Step
  <2> HIDE DEF next, leg
  <2>13. /\ next \in OpenSession /\ next.pc = turn /\ next.req = me.req /\ next.leg = leg
         /\ next.policy = me.policy /\ next.sum = me.sum /\ next.new = me.new
         /\ \A t \in Slots : next.seen[t] = IF t = s THEN me.new ELSE me.seen[t]
         /\ \A t \in Slots : next.wrote[t] = IF t = s THEN value ELSE me.wrote[t]
    BY <1>2, <2>1, <2>6, <2>10, <2>11 DEF OpenSession
  <2>14. Recomputes(next) <=> Recomputes(me)
    BY <2>13 DEF Recomputes
  <2>15. \A k \in 1..last : me.req.legs[k].slot = s <=> k = me.leg
    BY <1>2, <2>3 DEF CurrentSlot
  <2>16. SessionFine(next)
    <3>1. turn = "commit" => leg = last
      BY DEF leg
    <3>2. \A t \in Slots : next.wrote[t] # Unwritten <=>
              \E k \in 1..last : (k < leg \/ turn = "commit") /\ me.req.legs[k].slot = t
      <4> SUFFICES ASSUME NEW t \in Slots
                   PROVE  next.wrote[t] # Unwritten <=>
                            \E k \in 1..last : (k < leg \/ turn = "commit") /\ me.req.legs[k].slot = t
        OBVIOUS
      <4>1. \A k \in 1..last : (k < leg \/ turn = "commit") <=> (k < me.leg \/ k = me.leg)
        BY <1>2, <2>3 DEF leg
      <4>2. CASE t = s
        BY <1>2, <2>6, <2>13, <2>15, <4>1, <4>2
      <4>3. CASE t # s
        BY <2>4, <2>13, <2>15, <4>1, <4>3
      <4>4. QED
        BY <4>2, <4>3
    <3>3. \A t \in Slots : next.wrote[t] = Same => Recomputes(next)
      BY <1>2, <2>7, <2>13, <2>14 DEF SessionFine
    <3>4. leg <= last /\ turn # "peek" /\ turn # "write"
      BY <2>10
    <3>5. QED
      BY <2>13, <3>1, <3>2, <3>3, <3>4 DEF SessionFine
  <2>17. SessionKnows(next, row, ledger, raced.slots)
    <3>1. \A t \in Slots : next.seen[t] \in Int /\ next.wrote[t] = Unwritten =>
              row[t] # None /\ (t \notin raced.slots => row[t] = next.seen[t])
      BY <1>2, <2>6, <2>13 DEF SessionKnows
    <3>2. \A t \in Slots : next.wrote[t] = Same => row[t] # None
      BY <1>2, <2>5, <2>8, <2>13 DEF SessionKnows
    <3>3. ASSUME NEW k \in 1..last, next.wrote[me.req.legs[k].slot] \in Int
          PROVE  LET t == me.req.legs[k].slot
                 IN  /\ t \notin raced.slots => next.wrote[t] = ledger[t] + me.req.legs[k].qty
                     /\ MayWrite(next, next.wrote[t], row[t])
      <4> DEFINE t == me.req.legs[k].slot
      <4>1. CASE k # me.leg
        <5>1. t # s /\ t \in Slots /\ next.wrote[t] = me.wrote[t]
          BY <2>3, <2>13, <2>15, <4>1
        <5>2. QED
          BY <1>2, <2>13, <2>14, <3>3, <5>1 DEF SessionKnows, MayWrite
      <4>2. CASE k = me.leg
        <5>1. t = s /\ next.wrote[s] = me.new /\ me.req.legs[k].qty = CurrentQty(me)
          BY <1>2, <2>9, <2>13, <3>3, <4>2 DEF CurrentSlot, CurrentQty
        <5>2. s \notin raced.slots => me.new = ledger[s] + CurrentQty(me)
          <6>1. ASSUME s \notin raced.slots, Recomputes(me)
                PROVE  me.new = ledger[s] + CurrentQty(me)
            <7>1. CurrentQty(me) = 0 /\ s = me.req.legs[1].slot
              BY <1>2, <6>1 DEF RequestFine, Recomputes, CurrentSlot, CurrentQty
            <7>2. me.sum = ledger[s]
              BY <1>1, <1>2, <6>1, <7>1 DEF SessionKnows
            <7>3. ledger[s] \in Int /\ me.new = ledger[s]
              BY <1>2, <1>3, <2>1, <6>1, <7>2
            <7> HIDE DEF me, s
            <7>4. QED
              BY <7>1, <7>3
          <6>2. ASSUME s \notin raced.slots, ~Recomputes(me)
                PROVE  me.new = ledger[s] + CurrentQty(me)
            <7>1. ledger[s] \in Int /\ ledger[s] = IF row[s] = None THEN 0 ELSE row[s]
              BY <1>2, <1>3, <6>2
            <7>2. CASE me.seen[s] = None
              BY <1>2, <1>7, <2>1, <6>2, <7>1, <7>2
            <7>3. CASE me.seen[s] \in Int
              <8>1. row[s] = me.seen[s] /\ row[s] # None
                BY <1>2, <2>5, <6>2, <7>3 DEF SessionKnows
              <8>2. QED
                BY <1>2, <2>1, <6>2, <7>1, <7>3, <8>1
            <7>4. QED
              BY <2>2, <7>2, <7>3
          <6>3. QED
            BY <6>1, <6>2
        <5>3. MayWrite(next, me.new, row[s])
          BY <1>7, <2>1, <2>13, <2>14 DEF MayWrite
        <5>4. QED
          BY <5>1, <5>2, <5>3
      <4>3. QED
        BY <4>1, <4>2
    <3>4. Recomputes(next) /\ next.req.legs[1].slot \notin raced.slots =>
              next.sum = ledger[next.req.legs[1].slot]
      BY <1>1, <1>2, <2>13, <2>14 DEF SessionKnows
    <3>5. QED
      BY <2>13, <3>1, <3>2, <3>3, <3>4 DEF SessionKnows
  <2>18. SessionInv(next, row, ledger, raced.slots, posted)
    BY <1>2, <2>13, <2>16, <2>17 DEF SessionInv
  <2>19. \A t \in Slots : next.wrote[t] # Unwritten => \A d \in Clients \ {c} : ~Holds(d, t)
    BY <1>1, <2>13, SoleHolder
  <2>20. next.pc # "idle"
    BY <2>13
  <2>21. QED
    BY <1>2, <2>12, <2>13, <2>18, <2>19, <2>20, OneSessionInv
<1>8. QED
  BY <1>5, <1>6, <1>7

\* The slots of a request.
SlotsOf(req) == {req.legs[k].slot : k \in 1..Len(req.legs)}

\* What a commit does to the rows and the sums.
LEMMA CommitFacts ==
    ASSUME SessionsInv, NEW c \in Clients, Commit(c)
    PROVE  /\ session[c].pc = "commit" /\ session' = [session EXCEPT ![c] = Idle]
           /\ Legs(session[c].req.legs)
           /\ row' \in [Slots -> Int \cup {None}] /\ ledger' \in [Slots -> Int]
           /\ \A t \in Slots : session[c].wrote[t] # Unwritten <=> t \in SlotsOf(session[c].req)
           /\ \A t \in Slots \ SlotsOf(session[c].req) : ledger'[t] = ledger[t] /\ row'[t] = row[t]
           /\ \A k \in 1..Len(session[c].req.legs) :
                  LET t == session[c].req.legs[k].slot
                      q == session[c].req.legs[k].qty
                  IN  /\ t \in Slots /\ q \in Int /\ row'[t] # None
                      /\ ledger'[t] = ledger[t] + q
                      /\ \/ /\ session[c].wrote[t] \in Int /\ row'[t] = session[c].wrote[t]
                            /\ t \notin raced.slots => row'[t] = ledger'[t]
                            /\ MayWrite(session[c], row'[t], row[t])
                         \/ row'[t] = row[t] /\ Recomputes(session[c]) /\ q = 0
<1> DEFINE me == session[c]
           legs == me.req.legs
           last == Len(legs)
           changed == {t \in Slots : me.wrote[t] \in Int}
<1>1. /\ me.pc = "commit" /\ me.pc # "idle"
      /\ row' = [t \in Slots |-> IF t \in changed THEN me.wrote[t] ELSE row[t]]
      /\ ledger' = Committed(legs)
      /\ session' = [session EXCEPT ![c] = Idle]
  BY DEF Commit
<1>2. /\ me \in OpenSession /\ SessionFine(me) /\ SessionKnows(me, row, ledger, raced.slots)
      /\ RequestFine(me.req, posted) /\ Legs(legs)
  BY <1>1, ActiveFacts DEF RequestFine
<1>3. row \in [Slots -> Int \cup {None}] /\ ledger \in [Slots -> Int]
  BY DEF SessionsInv, StockFine
<1>4. None \notin Int /\ Unwritten \notin Int /\ Same \notin Int /\ Unwritten # Same
  BY MarkersAssumption
<1>5. /\ \A k \in 1..last : legs[k].slot \in Slots /\ legs[k].qty \in Int
      /\ \A k, m \in 1..last : legs[k].slot = legs[m].slot => k = m
  BY <1>2, LegFacts
<1>6. \A t \in Slots : me.wrote[t] # Unwritten <=> t \in SlotsOf(me.req)
  <2>1. \A t \in Slots : me.wrote[t] # Unwritten <=> \E k \in 1..last : legs[k].slot = t
    BY <1>1, <1>2 DEF SessionFine
  <2>2. QED
    BY <2>1 DEF SlotsOf
<1>7. \A t \in Slots : me.wrote[t] \in Int \cup {Unwritten, Same}
  BY <1>2 DEF OpenSession
<1>8. row' \in [Slots -> Int \cup {None}]
  BY <1>1, <1>3
<1>9. \A k \in 1..last : ledger'[legs[k].slot] = ledger[legs[k].slot] + legs[k].qty
  <2> SUFFICES ASSUME NEW k \in 1..last
               PROVE  ledger'[legs[k].slot] = ledger[legs[k].slot] + legs[k].qty
    OBVIOUS
  <2> DEFINE t == legs[k].slot
  <2>1. (CHOOSE m \in 1..last : legs[m].slot = t) = k
    BY <1>5
  <2>2. t \in Slots /\ \E m \in 1..last : legs[m].slot = t
    BY <1>5
  <2>3. QED
    BY <1>1, <2>1, <2>2 DEF Committed
<1>10. \A t \in Slots \ SlotsOf(me.req) : ledger'[t] = ledger[t]
  BY <1>1 DEF Committed, SlotsOf
<1>11. \A t \in Slots \ SlotsOf(me.req) : row'[t] = row[t]
  BY <1>1, <1>4, <1>6
<1>12. ledger' \in [Slots -> Int]
  <2>1. ledger' = [t \in Slots |-> ledger'[t]]
    BY <1>1 DEF Committed
  <2>2. \A t \in Slots : ledger'[t] \in Int
    <3>1. ASSUME NEW k \in 1..last PROVE ledger'[legs[k].slot] \in Int
      <4> DEFINE t == legs[k].slot
                 q == legs[k].qty
      <4>1. t \in Slots /\ q \in Int /\ ledger'[t] = ledger[t] + q
        BY <1>5, <1>9
      <4> HIDE DEF t, q
      <4>2. ledger'[t] \in Int
        BY <1>3, <4>1
      <4>3. QED
        BY <4>2 DEF t
    <3>2. QED
      BY <1>3, <1>10, <3>1 DEF SlotsOf
  <2>3. QED
    BY <2>1, <2>2
<1>13. ASSUME NEW k \in 1..last
       PROVE  LET t == legs[k].slot
                  q == legs[k].qty
              IN  /\ row'[t] # None
                  /\ \/ /\ me.wrote[t] \in Int /\ row'[t] = me.wrote[t]
                        /\ t \notin raced.slots => row'[t] = ledger'[t]
                        /\ MayWrite(me, row'[t], row[t])
                     \/ row'[t] = row[t] /\ Recomputes(me) /\ q = 0
  <2> DEFINE t == legs[k].slot
  <2>1. t \in Slots /\ t \in SlotsOf(me.req)
    BY <1>5 DEF SlotsOf
  <2>2. me.wrote[t] \in Int \cup {Same}
    BY <1>6, <1>7, <2>1
  <2>3. CASE me.wrote[t] \in Int
    <3>1. row'[t] = me.wrote[t]
      BY <1>1, <2>1, <2>3
    <3>2. /\ t \notin raced.slots => me.wrote[t] = ledger[t] + legs[k].qty
          /\ MayWrite(me, me.wrote[t], row[t])
      BY <1>2, <2>3 DEF SessionKnows
    <3>3. QED
      BY <1>4, <1>9, <2>3, <3>1, <3>2
  <2>4. CASE me.wrote[t] = Same
    <3>1. row'[t] = row[t] /\ row[t] # None /\ Recomputes(me)
      BY <1>1, <1>2, <1>4, <2>1, <2>4 DEF SessionKnows, SessionFine
    <3>2. legs[k].qty = 0
      BY <1>2, <3>1 DEF RequestFine, Recomputes
    <3>3. QED
      BY <3>1, <3>2
  <2>5. QED
    BY <2>2, <2>3, <2>4
<1>14. QED
  BY <1>1, <1>2, <1>5, <1>6, <1>8, <1>9, <1>10, <1>11, <1>12, <1>13

\* The movements a request posts move something, in its own slots.
LEMMA ReversibleFacts ==
    ASSUME NEW req, NEW movements, RequestFine(req, movements), NEW legs \in Reversible(req)
    PROVE  /\ MovesGoods(legs) /\ req.op \notin {"reverse", "recompute"}
           /\ \A k \in 1..Len(legs) : legs[k].slot \in SlotsOf(req)
<1>1. /\ MovesGoods(req.legs) /\ Legs(req.legs) /\ req.op \notin {"reverse", "recompute"}
      /\ legs = req.legs \/ \E k \in 2..Len(req.legs) : legs = <<req.legs[2], req.legs[1]>>
  BY DEF Reversible, RequestFine
<1>2. CASE legs = req.legs
  BY <1>1, <1>2 DEF SlotsOf
<1>3. CASE /\ legs = <<req.legs[2], req.legs[1]>>
           /\ 2 \in 1..Len(req.legs)
  <2> DEFINE a == req.legs[1]
             b == req.legs[2]
  <2>1. /\ Len(req.legs) = 2 /\ 1 \in 1..Len(req.legs)
        /\ a \in LegRow /\ b \in LegRow
        /\ a.slot # b.slot /\ a.slot[2] = b.slot[2] /\ b.qty = -a.qty
        /\ a.qty # 0 /\ b.qty # 0
    BY <1>1, <1>3 DEF MovesGoods, Legs
  <2>2. a.slot \in SlotsOf(req) /\ b.slot \in SlotsOf(req)
    BY <1>3, <2>1 DEF SlotsOf
  <2> HIDE DEF a, b
  <2>3. legs \in Seq(LegRow) /\ Len(legs) = 2 /\ legs[1] = b /\ legs[2] = a
    BY <1>3, <2>1 DEF a, b
  <2>4. a.qty = -b.qty
    BY <2>1 DEF LegRow
  <2>5. Legs(legs)
    BY <2>1, <2>3, <2>4 DEF Legs
  <2>6. \A k \in 1..Len(legs) : legs[k].qty # 0 /\ legs[k].slot \in SlotsOf(req)
    BY <2>1, <2>2, <2>3
  <2>7. QED
    BY <1>1, <2>5, <2>6 DEF MovesGoods
<1>4. QED
  <2>1. (\E k \in 2..Len(req.legs) : legs = <<req.legs[2], req.legs[1]>>) => 2 \in 1..Len(req.legs)
    BY <1>1 DEF Legs
  <2>2. QED
    BY <1>1, <1>2, <1>3, <2>1

\* The rows and sums of a commit still agree wherever no overlap is noted.
LEMMA CommitStock ==
    ASSUME SessionsInv, NEW c \in Clients, Commit(c)
    PROVE  StockFine(row, ledger, raced.slots, posted)'
<1> DEFINE me == session[c]
           req == me.req
           legs == req.legs
           hot == raced.slots
<1>1. /\ Legs(legs)
      /\ row' \in [Slots -> Int \cup {None}] /\ ledger' \in [Slots -> Int]
      /\ \A t \in Slots \ SlotsOf(req) : ledger'[t] = ledger[t] /\ row'[t] = row[t]
      /\ \A k \in 1..Len(legs) : row'[legs[k].slot] # None
  BY CommitFacts
<1>2. /\ raced.slots' = hot \cup (InUse(c) \cap SlotsOf(req))
      /\ posted' = posted \cup Reversible(req)
  BY DEF Commit, SlotsOf, SessionsInv
<1>3. me.pc # "idle"
  BY CommitFacts
<1>4. RequestFine(req, posted)
  BY <1>3, ActiveFacts
<1>5. StockFine(row, ledger, hot, posted)
  BY DEF SessionsInv
<1>6. \A t \in SlotsOf(req) : row'[t] # None
  BY <1>1 DEF SlotsOf
<1>7. \A t \in Slots : row[t] # None => row'[t] # None
  BY <1>1, <1>6
<1>8. \A t \in Slots : row'[t] = None => t \notin raced.slots'
  BY <1>1, <1>2, <1>5, <1>6 DEF StockFine
<1>9. \A k \in 1..Len(legs) : LET t == legs[k].slot
                             IN  t \notin hot => ledger'[t] = row'[t]
  <2> SUFFICES ASSUME NEW k \in 1..Len(legs), legs[k].slot \notin hot
               PROVE  ledger'[legs[k].slot] = row'[legs[k].slot]
    OBVIOUS
  <2> DEFINE t == legs[k].slot
  <2>1. /\ t \in Slots /\ row'[t] # None /\ ledger'[t] = ledger[t] + legs[k].qty
        /\ \/ row'[t] = ledger'[t]
           \/ row'[t] = row[t] /\ legs[k].qty = 0
    BY CommitFacts
  <2>2. ledger[t] \in Int /\ ledger[t] = IF row[t] = None THEN 0 ELSE row[t]
    BY <1>5, <2>1 DEF StockFine
  <2> HIDE DEF t
  <2>3. ledger'[t] = row'[t]
    BY <2>1, <2>2
  <2>4. QED
    BY <2>3 DEF t
<1>10. \A t \in Slots : t \notin raced.slots' => ledger'[t] = IF row'[t] = None THEN 0 ELSE row'[t]
  <2> SUFFICES ASSUME NEW t \in Slots, t \notin raced.slots'
               PROVE  ledger'[t] = IF row'[t] = None THEN 0 ELSE row'[t]
    OBVIOUS
  <2>1. CASE t \in SlotsOf(req)
    BY <1>2, <1>6, <1>9, <2>1 DEF SlotsOf
  <2>2. CASE t \notin SlotsOf(req)
    BY <1>1, <1>2, <1>5, <2>2 DEF StockFine
  <2>3. QED
    BY <2>1, <2>2
<1>11. \A old \in posted' : MovesGoods(old) /\ \A k \in 1..Len(old) : row'[old[k].slot] # None
  <2> SUFFICES ASSUME NEW old \in posted'
               PROVE  MovesGoods(old) /\ \A k \in 1..Len(old) : row'[old[k].slot] # None
    OBVIOUS
  <2>1. CASE old \in posted
    <3>1. MovesGoods(old) /\ \A k \in 1..Len(old) : row[old[k].slot] # None
      BY <1>5, <2>1 DEF StockFine
    <3>2. \A k \in 1..Len(old) : old[k].slot \in Slots
      BY <3>1, LegFacts DEF MovesGoods
    <3>3. QED
      BY <1>7, <3>1, <3>2
  <2>2. CASE old \in Reversible(req)
    BY <1>4, <1>6, <2>2, ReversibleFacts
  <2>3. QED
    BY <1>2, <2>1, <2>2
<1>12. QED
  BY <1>1, <1>8, <1>10, <1>11 DEF StockFine

\* What the others know is still so: what they had read is noted as an overlap.
LEMMA CommitOthers ==
    ASSUME SessionsInv, NEW c \in Clients, Commit(c), NEW d \in Clients \ {c}, Active(d)
    PROVE  SessionInv(session[d], row', ledger', raced.slots', posted')
<1> DEFINE me == session[c]
           you == session[d]
           hot == raced.slots
<1>1. /\ \A t \in Slots \ SlotsOf(me.req) : ledger'[t] = ledger[t] /\ row'[t] = row[t]
      /\ \A k \in 1..Len(me.req.legs) : row'[me.req.legs[k].slot] # None
      /\ \A t \in Slots : me.wrote[t] # Unwritten <=> t \in SlotsOf(me.req)
      /\ me.pc = "commit" /\ me.pc # "idle"
  BY CommitFacts
<1>2. /\ raced.slots' = hot \cup (InUse(c) \cap SlotsOf(me.req))
      /\ posted' = posted \cup Reversible(me.req)
  BY DEF Commit, SlotsOf, SessionsInv
<1>3. you.pc # "idle"
  BY DEF Active
<1>4. SessionFine(you) /\ SessionKnows(you, row, ledger, hot) /\ RequestFine(you.req, posted)
  BY <1>3, ActiveFacts
<1>5. Legs(you.req.legs)
  BY <1>4 DEF RequestFine
<1>6. \A t \in Slots : row[t] # None => row'[t] # None
  BY <1>1 DEF SlotsOf
<1>7. RequestFine(you.req, posted')
  BY <1>2, <1>4 DEF RequestFine
<1>8. /\ \A t \in Slots : you.seen[t] \in Int => t \in InUse(c)
      /\ \A t \in Slots : Recomputes(you) /\ you.pc # "peek" /\ you.req.legs[1].slot = t => t \in InUse(c)
  BY <1>3 DEF InUse, Recomputes, Active
<1>9. \A t \in Slots : you.wrote[t] # Unwritten => t \notin SlotsOf(me.req)
  <2>1. \A t \in Slots : you.wrote[t] # Unwritten => ~Holds(c, t)
    BY <1>3, SoleHolder
  <2>2. QED
    BY <1>1, <2>1 DEF Holds, Active
<1>10. \A k \in 1..Len(you.req.legs) : you.req.legs[k].slot \in Slots
  BY <1>5, LegFacts
<1>11. SessionKnows(you, row', ledger', raced.slots')
  <2>1. \A t \in Slots : you.seen[t] \in Int /\ you.wrote[t] = Unwritten =>
            row'[t] # None /\ (t \notin raced.slots' => row'[t] = you.seen[t])
    BY <1>1, <1>2, <1>4, <1>6, <1>8 DEF SessionKnows
  <2>2. \A t \in Slots : you.wrote[t] = Same => row'[t] # None
    BY <1>4, <1>6 DEF SessionKnows
  <2>3. ASSUME NEW k \in 1..Len(you.req.legs), you.wrote[you.req.legs[k].slot] \in Int
        PROVE  LET t == you.req.legs[k].slot
               IN  /\ t \notin raced.slots' => you.wrote[t] = ledger'[t] + you.req.legs[k].qty
                   /\ MayWrite(you, you.wrote[t], row'[t])
    <3> DEFINE t == you.req.legs[k].slot
    <3>1. t \in Slots /\ you.wrote[t] # Unwritten
      BY <1>10, <2>3, MarkersAssumption
    <3>2. ledger'[t] = ledger[t] /\ row'[t] = row[t]
      BY <1>1, <1>9, <3>1
    <3>3. /\ t \notin hot => you.wrote[t] = ledger[t] + you.req.legs[k].qty
          /\ MayWrite(you, you.wrote[t], row[t])
      BY <1>4, <2>3 DEF SessionKnows
    <3>4. QED
      BY <1>2, <3>2, <3>3
  <2>4. Recomputes(you) /\ you.pc # "peek" /\ you.req.legs[1].slot \notin raced.slots' =>
            you.sum = ledger'[you.req.legs[1].slot]
    <3>1. you.req.legs[1].slot \in Slots
      BY <1>5, <1>10, LegFacts
    <3>2. QED
      BY <1>1, <1>2, <1>4, <1>8, <3>1 DEF SessionKnows
  <2>5. QED
    BY <2>1, <2>2, <2>3, <2>4 DEF SessionKnows
<1>12. QED
  BY <1>4, <1>7, <1>11 DEF SessionInv

\* A commit keeps the invariant.
LEMMA CommitBalancesInv ==
    ASSUME SessionsInv, NEW c \in Clients, Commit(c)
    PROVE  SessionsInv'
<1>1. session' = [session EXCEPT ![c] = Idle]
  BY CommitFacts
<1>2. DOMAIN session' = Clients /\ \A d \in Clients : session'[d] = IF d = c THEN Idle ELSE session[d]
  BY <1>1 DEF SessionsInv
<1>3. ~Active(c)' /\ \A d \in Clients \ {c} : (Active(d)' <=> Active(d)) /\ session'[d] = session[d]
  BY <1>2 DEF Active, Idle
<1>4. \A d \in Clients, s \in Slots : Holds(d, s)' => d # c /\ Holds(d, s)
  BY <1>3 DEF Holds
<1>5. StockFine(row, ledger, raced.slots, posted)'
  BY CommitStock
<1>6. /\ allowNegative' = allowNegative
      /\ raced.policy' = raced.policy /\ raced' \in [slots: SUBSET Slots, policy: BOOLEAN]
  <2>1. raced \in [slots: SUBSET Slots, policy: BOOLEAN] /\ InUse(c) \subseteq Slots
    BY DEF SessionsInv, InUse
  <2>2. QED
    BY <2>1 DEF Commit
<1>7. \A d \in Clients : Active(d)' => SessionInv(session'[d], row', ledger', raced.slots', posted')
  BY <1>3, CommitOthers
<1>8. \A d \in Clients : ~Active(d)' => session'[d] = Idle
  BY <1>2, <1>3 DEF SessionsInv
<1>9. \A d, e \in Clients, s \in Slots : Holds(d, s)' /\ Holds(e, s)' => d = e
  BY <1>4 DEF SessionsInv
<1>10. \A d \in Clients : Active(d)' /\ ~raced.policy' => session'[d].policy = allowNegative'
  BY <1>3, <1>6 DEF SessionsInv
<1>11. allowNegative' \in BOOLEAN
  BY <1>6 DEF SessionsInv
<1>12. QED
  BY <1>2, <1>5, <1>6, <1>7, <1>8, <1>9, <1>10, <1>11 DEF SessionsInv

\* So does a change of the policy,
LEMMA StockPolicyInv ==
    ASSUME SessionsInv, UpdateSettings
    PROVE  SessionsInv'
<1>1. /\ UNCHANGED <<row, ledger, posted, session>>
      /\ allowNegative' = ~allowNegative
      /\ raced.slots' = raced.slots
      /\ raced.policy' = (raced.policy \/ \E c \in Clients : Active(c))
      /\ raced' \in [slots: SUBSET Slots, policy: BOOLEAN]
  BY DEF UpdateSettings, SessionsInv
<1>2. \A c \in Clients : Active(c)' <=> Active(c)
  BY <1>1 DEF Active
<1>3. \A c \in Clients, s \in Slots : Holds(c, s)' <=> Holds(c, s)
  BY <1>1, <1>2 DEF Holds
<1>4. StockFine(row, ledger, raced.slots, posted)'
  BY <1>1 DEF SessionsInv
<1>5. \A c \in Clients : Active(c)' => SessionInv(session'[c], row', ledger', raced.slots', posted')
  BY <1>1, <1>2 DEF SessionsInv
<1>6. \A c \in Clients : Active(c)' /\ ~raced.policy' => session'[c].policy = allowNegative'
  BY <1>1, <1>2
<1>7. allowNegative' \in BOOLEAN /\ DOMAIN session' = Clients
  BY <1>1 DEF SessionsInv
<1>8. \A c \in Clients : ~Active(c)' => session'[c] = Idle
  BY <1>1, <1>2 DEF SessionsInv
<1>9. \A c, d \in Clients, s \in Slots : Holds(c, s)' /\ Holds(d, s)' => c = d
  BY <1>3 DEF SessionsInv
<1>10. QED
  BY <1>1, <1>4, <1>5, <1>6, <1>7, <1>8, <1>9 DEF SessionsInv

\* and the end of a request that keeps nothing.
LEMMA RollbackSessionInv ==
    ASSUME SessionsInv, NEW c \in Clients, Rollback(c)
    PROVE  SessionsInv'
BY OneSessionInv DEF Rollback

\* At first the rows are the ledger and no session is open.
LEMMA SessionsInit ==
    ASSUME Init
    PROVE  SessionsInv
<1>1. PICK stock \in [Slots -> OpeningStock] :
          /\ ledger = stock
          /\ row = [s \in Slots |-> IF stock[s] = 0 THEN None ELSE stock[s]]
          /\ posted = {<<Leg(s, stock[s])>> : s \in {t \in Slots : stock[t] # 0}}
  BY DEF Init
<1>2. \A s \in Slots : stock[s] \in Int
  <2>1. \A s \in Slots : stock[s] \in OpeningStock
    OBVIOUS
  <2>2. \A s \in Slots : stock[s] \in Nat
    BY <2>1, OpeningStockAssumption
  <2>3. QED
    BY <2>2
<1>3. /\ session = [c \in Clients |-> Idle] /\ allowNegative \in BOOLEAN
      /\ raced = [slots |-> {}, policy |-> FALSE]
  BY DEF Init
<1>4. \A c \in Clients : ~Active(c) /\ session[c] = Idle
  BY <1>3 DEF Active, Idle
<1>5. row \in [Slots -> Int \cup {None}] /\ ledger \in [Slots -> Int]
  BY <1>1, <1>2
<1>6. \A s \in Slots : ledger[s] = IF row[s] = None THEN 0 ELSE row[s]
  BY <1>1, <1>2, MarkersAssumption
<1>7. \A legs \in posted : MovesGoods(legs) /\ \A k \in 1..Len(legs) : row[legs[k].slot] # None
  <2> SUFFICES ASSUME NEW legs \in posted
               PROVE  MovesGoods(legs) /\ \A k \in 1..Len(legs) : row[legs[k].slot] # None
    OBVIOUS
  <2>1. PICK s \in Slots : stock[s] # 0 /\ legs = <<Leg(s, stock[s])>>
    BY <1>1
  <2>2. MovesGoods(legs) /\ Len(legs) = 1 /\ legs[1].slot = s
    BY <1>2, <2>1, OneLeg
  <2>3. row[s] # None
    BY <1>1, <1>2, <2>1, MarkersAssumption
  <2>4. QED
    BY <2>2, <2>3
<1>8. StockFine(row, ledger, raced.slots, posted)
  BY <1>3, <1>5, <1>6, <1>7 DEF StockFine
<1>9. \A c \in Clients, s \in Slots : ~Holds(c, s)
  BY <1>4 DEF Holds
<1>10. QED
  BY <1>3, <1>4, <1>8, <1>9 DEF SessionsInv

\* No step of the sessions breaks it.
LEMMA SessionsStep ==
    ASSUME SessionsInv, [Next]_vars
    PROVE  SessionsInv'
<1>1. CASE UNCHANGED vars
  <2>1. UNCHANGED <<row, ledger, posted, allowNegative, session, raced>>
    BY <1>1 DEF vars
  <2>2. /\ \A c \in Clients : Active(c)' <=> Active(c)
        /\ \A c \in Clients, s \in Slots : Holds(c, s)' <=> Holds(c, s)
    BY <2>1 DEF Holds, Active
  <2>3. QED
    BY <2>1, <2>2 DEF SessionsInv
<1>2. ASSUME NEW c \in Clients, Proceed(c) PROVE SessionsInv'
  BY <1>2, PeekBalanceInv, ReadBalanceInv, CommitBalancesInv DEF Proceed
<1>3. ASSUME NEW c \in Clients, Abort(c) \/ Disconnect(c) PROVE SessionsInv'
  BY <1>3, RollbackSessionInv DEF Abort, Disconnect
<1>4. QED
  BY <1>1, <1>2, <1>3, OpenSessionInv, WriteBalanceInv, StockPolicyInv DEF Next

\* A balance row drifts from its ledger only in a slot that was written while another
\* request that had read it was open: for any number of requests and any interleaving
\* of their steps, with refusals half-way, key conflicts, deadlock victims and lost
\* connections (_update_balance, recompute_balance and the rollback of get_db).
THEOREM OverlapsExplainDrift == Spec => []DriftNeedsOverlap
<1>1. SessionsInv => DriftNeedsOverlap
  BY DEF SessionsInv, StockFine, DriftNeedsOverlap, Quantity
<1>2. Spec => []SessionsInv
  BY SessionsInit, SessionsStep, PTL DEF Spec
<1>3. QED
  BY <1>1, <1>2, PTL

\* Only a commit or a change of the settings writes committed rows.
LEMMA StepOrCommit ==
    ASSUME [Next]_vars
    PROVE  \/ UNCHANGED <<row, ledger, posted, allowNegative>>
           \/ UpdateSettings
           \/ \E c \in Clients : Commit(c)
<1>1. ASSUME NEW c \in Clients, Open(c) \/ Peek(c) \/ Read(c) \/ Write(c) \/ Abort(c) \/ Disconnect(c)
      PROVE  UNCHANGED <<row, ledger, posted, allowNegative>>
  BY <1>1 DEF Open, Peek, Read, Write, Abort, Disconnect, Step, Rollback
<1>2. QED
  BY <1>1 DEF Next, Proceed, vars

\* FirstRowExact of one step.
FirstRowStep == \A s \in Slots : row[s] = None /\ row'[s] # None => row'[s] = ledger'[s]

\* Every step has that property.
LEMMA FirstRowByStep ==
    ASSUME SessionsInv, [Next]_vars
    PROVE  FirstRowStep
<1> SUFFICES ASSUME NEW s \in Slots, row[s] = None, row'[s] # None
             PROVE  row'[s] = ledger'[s]
  BY DEF FirstRowStep
<1>1. PICK c \in Clients : Commit(c)
  BY StepOrCommit DEF UpdateSettings
<1>2. s \notin raced.slots
  BY DEF SessionsInv, StockFine
<1>3. s \in SlotsOf(session[c].req)
  BY <1>1, CommitFacts
<1>4. PICK k \in 1..Len(session[c].req.legs) : session[c].req.legs[k].slot = s
  BY <1>3 DEF SlotsOf
<1>5. \/ s \notin raced.slots => row'[s] = ledger'[s]
      \/ row'[s] = row[s]
  BY <1>1, <1>4, CommitFacts
<1>6. QED
  BY <1>2, <1>5

\* ShortageIsAllowed of one step.
ShortageStep ==
    \A s \in Slots : row'[s] # row[s] /\ row'[s] # None /\ row'[s] < 0 =>
          \E c \in Clients :
              /\ session[c].pc = "commit" /\ session'[c].pc = "idle"
              /\ \/ session[c].policy
                 \/ session[c].req.op = "recompute"
                 \/ session[c].req.approved /\ row[s] = None

\* Every step has that property.
LEMMA ShortageByStep ==
    ASSUME SessionsInv, [Next]_vars
    PROVE  ShortageStep
<1> SUFFICES ASSUME NEW s \in Slots, row'[s] # row[s], row'[s] # None, row'[s] < 0
             PROVE  \E c \in Clients :
                        /\ session[c].pc = "commit" /\ session'[c].pc = "idle"
                        /\ \/ session[c].policy
                           \/ session[c].req.op = "recompute"
                           \/ session[c].req.approved /\ row[s] = None
  BY DEF ShortageStep
<1>1. PICK c \in Clients : Commit(c)
  BY StepOrCommit DEF UpdateSettings
<1>2. s \in SlotsOf(session[c].req)
  BY <1>1, CommitFacts
<1>3. MayWrite(session[c], row'[s], row[s])
  <2>1. PICK k \in 1..Len(session[c].req.legs) : session[c].req.legs[k].slot = s
    BY <1>2 DEF SlotsOf
  <2>2. MayWrite(session[c], row'[s], row[s]) \/ row'[s] = row[s]
    BY <1>1, <2>1, CommitFacts
  <2>3. QED
    BY <2>2
<1>4. session[c].pc = "commit" /\ session'[c].pc = "idle"
  <2>1. session[c].pc = "commit" /\ session' = [session EXCEPT ![c] = Idle]
    BY <1>1, CommitFacts
  <2>2. QED
    BY <2>1 DEF Idle, SessionsInv
<1>5. QED
  BY <1>3, <1>4 DEF MayWrite, Recomputes

\* The slots of the posted movements, and what a commit adds to them.
LEMMA TouchedGrows ==
    ASSUME SessionsInv, NEW c \in Clients, Commit(c)
    PROVE  /\ Touched' = IF Recomputes(session[c]) THEN Touched ELSE Touched \cup SlotsOf(session[c].req)
           /\ \A s \in Touched : row[s] # None
<1> DEFINE req == session[c].req
           By(legs) == {s \in Slots : legs[1].slot = s \/ legs[Len(legs)].slot = s}
<1>1. \A legs : MovesGoods(legs) => By(legs) = {legs[k].slot : k \in 1..Len(legs)}
  <2> SUFFICES ASSUME NEW legs, MovesGoods(legs)
               PROVE  By(legs) = {legs[k].slot : k \in 1..Len(legs)}
    OBVIOUS
  <2>1. /\ 1 \in 1..Len(legs) /\ Len(legs) \in 1..Len(legs)
        /\ \A k \in 1..Len(legs) : legs[k].slot \in Slots
        /\ \A k \in 1..Len(legs) : k = 1 \/ k = Len(legs)
    BY LegFacts DEF MovesGoods, Legs
  <2>2. QED
    BY <2>1
<1>2. \A s : s \in Touched <=> \E legs \in posted : s \in By(legs)
  BY DEF Touched
<1>3. \A s : s \in Touched' <=> \E legs \in posted' : s \in By(legs)
  BY DEF Touched
<1>4. session[c].pc # "idle" /\ posted' = posted \cup Reversible(req)
  BY CommitFacts DEF Commit
<1>5. RequestFine(req, posted)
  BY <1>4, ActiveFacts
<1>6. \A legs \in posted : MovesGoods(legs) /\ \A k \in 1..Len(legs) : row[legs[k].slot] # None
  BY DEF SessionsInv, StockFine
<1> HIDE DEF By
<1>7. \A s \in Touched : row[s] # None
  BY <1>1, <1>2, <1>6
<1>8. \A s : s \in Touched' <=> s \in Touched \/ \E legs \in Reversible(req) : s \in By(legs)
  BY <1>2, <1>3, <1>4
<1>9. \A legs \in Reversible(req) : By(legs) \subseteq SlotsOf(req)
  BY <1>1, <1>5, ReversibleFacts
<1>10. CASE Recomputes(session[c])
  <2>1. Reversible(req) = {}
    BY <1>10 DEF Recomputes, Reversible
  <2>2. Touched' = Touched
    BY <1>8, <2>1
  <2>3. QED
    BY <1>7, <1>10, <2>2
<1>11. CASE ~Recomputes(session[c])
  <2>1. MovesGoods(req.legs)
    BY <1>5, <1>11 DEF RequestFine, Recomputes
  <2>2. By(req.legs) = SlotsOf(req)
    BY <1>1, <2>1 DEF SlotsOf
  <2>3. CASE req.op = "reverse"
    <3>1. PICK legs \in posted : /\ Len(legs) = Len(req.legs)
                                 /\ \A k \in 1..Len(legs) : legs[k].slot = req.legs[k].slot
      BY <1>5, <2>3 DEF RequestFine
    <3>2. By(legs) = SlotsOf(req)
      BY <1>1, <1>6, <3>1 DEF SlotsOf
    <3>3. SlotsOf(req) \subseteq Touched
      BY <1>2, <3>2
    <3>4. QED
      BY <1>7, <1>8, <1>9, <1>11, <3>3
  <2>4. CASE req.op # "reverse"
    <3>1. req.legs \in Reversible(req)
      BY <1>11, <2>4 DEF Reversible, Recomputes
    <3>2. QED
      BY <1>7, <1>8, <1>9, <1>11, <2>2, <3>1
  <2>5. QED
    BY <2>3, <2>4
<1>12. QED
  BY <1>10, <1>11

\* A commit, no overlap noted, is a step of the book.
LEMMA CommitIsBook ==
    ASSUME SessionsInv, NEW c \in Clients, Commit(c), raced' = [slots |-> {}, policy |-> FALSE]
    PROVE  Book!Next \/ UNCHANGED Book!vars
<1> DEFINE me == session[c]
           req == me.req
           legs == req.legs
<1>1. me.pc = "commit" /\ me.pc # "idle" /\ allowNegative' = allowNegative
  BY CommitFacts DEF Commit
<1>2. /\ RequestFine(req, posted) /\ Legs(legs)
      /\ ~raced.policy => me.policy = allowNegative
  BY <1>1, ActiveFacts DEF RequestFine
<1>3. raced.slots = {} /\ ~raced.policy
  <2>1. raced'.slots = {} /\ raced'.policy = FALSE
    OBVIOUS
  <2>2. raced'.policy = raced.policy /\ raced.slots \subseteq raced'.slots
    BY DEF Commit, SessionsInv
  <2>3. QED
    BY <2>1, <2>2
<1>4. /\ ledger \in [Slots -> Int] /\ ledger' \in [Slots -> Int]
      /\ \A t \in Slots \ SlotsOf(req) : ledger'[t] = ledger[t]
  BY CommitFacts DEF SessionsInv, StockFine
<1>5. \A k \in 1..Len(legs) :
          LET t == legs[k].slot
              q == legs[k].qty
          IN  /\ t \in Slots /\ q \in Int
              /\ ledger'[t] = ledger[t] + q
              /\ \/ row'[t] = ledger'[t] /\ MayWrite(me, row'[t], row[t])
                 \/ Recomputes(me) /\ q = 0
  BY <1>3, CommitFacts
<1>6. /\ Touched' = IF Recomputes(me) THEN Touched ELSE Touched \cup SlotsOf(req)
      /\ \A s \in Touched : row[s] # None
  BY TouchedGrows
<1>7. Book!Slots = Slots
  BY DEF Book!Slots, Slots
<1>8. CASE Recomputes(me)
  <2>1. Len(legs) = 1 /\ legs[1].qty = 0
    BY <1>2, <1>8 DEF RequestFine, Recomputes
  <2>2. \A t \in Slots : ledger'[t] = ledger[t]
    <3> DEFINE s == legs[1].slot
               q == legs[1].qty
    <3>1. 1 \in 1..Len(legs) /\ SlotsOf(req) = {s} /\ q = 0
      BY <2>1 DEF SlotsOf
    <3>2. s \in Slots /\ ledger'[s] = ledger[s] + q
      BY <1>5, <3>1
    <3> HIDE DEF s, q
    <3>3. ledger'[s] = ledger[s]
      BY <1>4, <3>1, <3>2
    <3>4. QED
      BY <1>4, <3>1, <3>3
  <2>3. ledger' = ledger
    BY <1>4, <2>2
  <2>4. QED
    BY <1>1, <1>6, <1>8, <2>3 DEF Book!vars
<1>9. ASSUME ~Recomputes(me), NEW k \in 1..Len(legs)
      PROVE  LET t == legs[k].slot
             IN  /\ t \in Slots /\ legs[k].qty \in Int /\ legs[k].qty # 0
                 /\ ledger'[t] = ledger[t] + legs[k].qty /\ ledger'[t] # ledger[t]
                 /\ \/ ledger'[t] >= 0 \/ allowNegative
                    \/ t \notin Touched /\ Len(legs) = 1
  <2> DEFINE t == legs[k].slot
  <2>1. MovesGoods(legs)
    BY <1>2, <1>9 DEF RequestFine, Recomputes
  <2>2. /\ t \in Slots /\ legs[k].qty \in Int /\ legs[k].qty # 0
        /\ ledger'[t] = ledger[t] + legs[k].qty /\ row'[t] = ledger'[t] /\ MayWrite(me, row'[t], row[t])
    BY <1>5, <1>9, <2>1 DEF MovesGoods
  <2>3. ledger[t] \in Int /\ ledger'[t] \in Int
    BY <1>4, <2>2
  <2>4. ledger'[t] # ledger[t]
    <3> HIDE DEF t
    <3>1. QED
      BY <2>2, <2>3
  <2>5. ledger'[t] < 0 => allowNegative \/ (row[t] = None /\ req.op = "issue")
    BY <1>2, <1>3, <1>9, <2>2 DEF MayWrite
  <2>6. row[t] = None => t \notin Touched
    BY <1>6
  <2>7. req.op = "issue" => Len(legs) = 1
    BY <1>2 DEF RequestFine
  <2>8. ledger'[t] < 0 \/ ledger'[t] >= 0
    BY <2>3
  <2>9. QED
    BY <2>2, <2>4, <2>5, <2>6, <2>7, <2>8
<1>10. CASE ~Recomputes(me) /\ Len(legs) = 1
  <2> DEFINE s == legs[1].slot
  <2>1. SlotsOf(req) = {s}
    BY <1>10 DEF SlotsOf
  <2>2. /\ s \in Slots /\ ledger'[s] # ledger[s]
        /\ ledger'[s] >= 0 \/ allowNegative \/ s \notin Touched
    BY <1>9, <1>10
  <2>3. Touched' = Touched \cup {s}
    BY <1>6, <1>10, <2>1
  <2> HIDE DEF s
  <2>4. Book!Change(s)
    BY <1>1, <1>4, <1>7, <2>1, <2>2, <2>3 DEF Book!Change, Book!OnlyIn, Book!Covered
  <2>5. QED
    BY <1>7, <2>2, <2>4 DEF Book!Next
<1>11. CASE ~Recomputes(me) /\ Len(legs) = 2
  <2> DEFINE s == legs[1].slot
             t == legs[2].slot
             p == legs[1].qty
             q == legs[2].qty
  <2>1. SlotsOf(req) = {s, t}
    BY <1>11 DEF SlotsOf
  <2>0. 1 \in 1..Len(legs) /\ 2 \in 1..Len(legs) /\ Len(legs) # 1 /\ ~Recomputes(me)
    BY <1>11
  <2> HIDE DEF me
  <2>2. /\ s \in Slots /\ ledger'[s] # ledger[s] /\ p \in Int /\ ledger'[s] = ledger[s] + p
        /\ ledger'[s] >= 0 \/ allowNegative
    BY <1>9, <2>0
  <2>3. /\ t \in Slots /\ q \in Int /\ ledger'[t] = ledger[t] + q
        /\ ledger'[t] >= 0 \/ allowNegative
    BY <1>9, <2>0
  <2>4. s # t /\ s[2] = t[2] /\ q = -p
    BY <1>2, <1>11 DEF Legs
  <2>5. Touched' = Touched \cup {s, t}
    BY <1>6, <1>11, <2>1
  <2> HIDE DEF s, t, p, q
  <2>6. ledger[s] \in Int /\ ledger[t] \in Int
    BY <1>4, <2>2, <2>3
  <2>7. ledger'[s] + ledger'[t] = ledger[s] + ledger[t]
    BY <2>2, <2>3, <2>4, <2>6
  <2>8. Book!Move(s, t)
    BY <1>1, <1>4, <1>7, <2>1, <2>2, <2>3, <2>4, <2>5, <2>7 DEF Book!Move, Book!OnlyIn, Book!Covered
  <2>9. QED
    BY <1>7, <2>2, <2>3, <2>8 DEF Book!Next
<1>12. QED
  BY <1>2, <1>8, <1>10, <1>11 DEF Legs

\* AloneIsBook of one step.
AloneStep == raced' = [slots |-> {}, policy |-> FALSE] => Book!Next \/ UNCHANGED Book!vars

\* Every step has that property.
LEMMA AloneByStep ==
    ASSUME SessionsInv, [Next]_vars
    PROVE  AloneStep
<1>1. CASE UNCHANGED <<row, ledger, posted, allowNegative>>
  <2>1. Touched' = Touched
    BY <1>1 DEF Touched
  <2>2. QED
    BY <1>1, <2>1 DEF AloneStep, Book!vars
<1>2. CASE UpdateSettings
  <2>1. Touched' = Touched /\ ledger' = ledger /\ allowNegative' \in BOOLEAN
    BY <1>2 DEF UpdateSettings, Touched
  <2>2. QED
    BY <2>1 DEF AloneStep, Book!Next, Book!SetPolicy
<1>3. CASE \E c \in Clients : Commit(c)
  BY <1>3, CommitIsBook DEF AloneStep
<1>4. QED
  BY <1>1, <1>2, <1>3, StepOrCommit

\* The invariant holds always.
LEMMA SpecSessions == Spec => []SessionsInv
BY SessionsInit, SessionsStep, PTL DEF Spec

\* The first balance row of a slot is exact, however many requests race to insert it
\* (the INSERT in _update_balance under the unique index of stock_balances).
THEOREM FirstRowsExact == Spec => FirstRowExact
<1>1. SessionsInv /\ [Next]_vars => [FirstRowStep]_vars
  BY FirstRowByStep
<1>2. [][FirstRowStep]_vars => FirstRowExact
  BY PTL DEF FirstRowExact, FirstRowStep
<1>3. QED
  BY <1>1, <1>2, SpecSessions, PTL DEF Spec

\* A balance goes below zero, or further below, only by a request that ran under a
\* policy allowing it, that recomputed it, or whose override met a slot without a row,
\* whatever the interleaving (the shortage test of _update_balance).
THEOREM ShortagesAllowed == Spec => ShortageIsAllowed
<1>1. SessionsInv /\ [Next]_vars => [ShortageStep]_vars
  BY ShortageByStep
<1>2. [][ShortageStep]_vars => ShortageIsAllowed
  BY PTL DEF ShortageIsAllowed, ShortageStep
<1>3. QED
  BY <1>1, <1>2, SpecSessions, PTL DEF Spec

\* As long as no two requests have overlapped on a slot or on the policy, the sessions
\* implement StockBook: every commit is one Change or Move of the quantities, every
\* other step changes none of them.
THEOREM AloneImplementsBook == Spec => AloneIsBook
<1>1. SessionsInv /\ [Next]_vars => [AloneStep]_vars
  BY AloneByStep
<1>2. [][AloneStep]_vars => AloneIsBook
  BY PTL DEF AloneIsBook, AloneStep
<1>3. QED
  BY <1>1, <1>2, SpecSessions, PTL DEF Spec

=============================================================================
