----------------------------- MODULE PriceLists -----------------------------
(***************************************************************************)
(* The price lists of a company and which of them is the default one.      *)
(* Sources: backend/app/modules/sales/service.py and models.py.            *)
(*                                                                         *)
(* A request reads its list, looks for the present default, clears it,     *)
(* writes its own list and commits, each in a statement of its own; what   *)
(* it wrote is locked and unseen by others until the commit.  A list that  *)
(* the session has read keeps the values it was read with.  Prices, names  *)
(* and the active flag are left out; nothing here depends on them.         *)
(***************************************************************************)
EXTENDS FiniteSets, Naturals

CONSTANTS
    Lists,
    NoList,
    ListThreads,    \* request threads
    MaxListRequests

ASSUME NoListAssumption == NoList \notin Lists
ASSUME MaxListRequestsAssumption == MaxListRequests \in Nat

VARIABLES
    list,           \* the committed rows
    edit,           \* the open request of every thread
    listRequests    \* requests opened so far

priceLists == <<list, edit, listRequests>>

NoEdit == [pc |-> "none"]

Default(l) == list[l].exists /\ list[l].default

\* The index uq_price_lists_company_default and the row locks: what t has to wait for.
LockedFor(t, l) == \E o \in ListThreads \ {t} : edit[o] # NoEdit /\ l \in DOMAIN edit[o].wrote
IndexBusyFor(t) ==
    \E o \in ListThreads \ {t} : edit[o] # NoEdit /\
        \E l \in DOMAIN edit[o].wrote : edit[o].wrote[l] \/ Default(l)

-----------------------------------------------------------------------------
PriceListsInit ==
    /\ list = [l \in Lists |-> [exists |-> FALSE, default |-> FALSE]]
    /\ edit = [t \in ListThreads |-> NoEdit]
    /\ listRequests = 0

\* Mutant of OpenEdit: the present default is cleared whatever the list is to become.
OpenEditClearing(t, l, default) ==
    /\ edit[t] = NoEdit
    /\ listRequests < MaxListRequests
    /\ listRequests' = listRequests + 1
    /\ edit' = [edit EXCEPT ![t] =
                    [pc |-> "find", target |-> l,
                     creates |-> ~list[l].exists, held |-> list[l].default,
                     default |-> default, found |-> NoList, wrote |-> <<>>, overtaken |-> FALSE]]
    /\ UNCHANGED list

\* create_price_list and update_price_list up to the first query; held is is_default as the
\* session knows it; overtaken is history: the
\* default changed since.
OpenEdit(t, l, default) ==
    /\ edit[t] = NoEdit
    /\ listRequests < MaxListRequests
    /\ listRequests' = listRequests + 1
    /\ edit' = [edit EXCEPT ![t] =
                    [pc |-> IF default THEN "find" ELSE "write", target |-> l,
                     creates |-> ~list[l].exists, held |-> list[l].default,
                     default |-> default, found |-> NoList, wrote |-> <<>>, overtaken |-> FALSE]]
    /\ UNCHANGED list

Continues(t, next) ==
    /\ edit' = [edit EXCEPT ![t] = next]
    /\ UNCHANGED <<list, listRequests>>

\* The query of _clear_default_price_list.
FindDefault(t) ==
    LET me == edit[t]
    IN  /\ me.pc = "find"
        /\ \/ \E l \in Lists :
                 /\ Default(l)
                 /\ Continues(t, [me EXCEPT !.pc = "clear", !.found = l])
           \/ /\ \A l \in Lists : ~Default(l)
              /\ Continues(t, [me EXCEPT !.pc = "write"])

\* The row of l that the session writes.
Writing(me, l, value) == [k \in DOMAIN me.wrote \cup {l} |-> IF k = l THEN value ELSE me.wrote[k]]

\* Its assignment and flush: no UPDATE where the session holds the list as no default.
ClearDefault(t) ==
    LET me == edit[t]
        own == me.found = me.target /\ ~me.creates
    IN  /\ me.pc = "clear"
        /\ IF own /\ ~me.held
           THEN Continues(t, [me EXCEPT !.pc = "write"])
           ELSE /\ ~LockedFor(t, me.found)
                /\ Continues(t, [me EXCEPT !.pc = "write", !.held = IF own THEN FALSE ELSE @,
                                           !.wrote = Writing(me, me.found, FALSE)])

\* The list itself: an INSERT, or an UPDATE if is_default differs from what the session
\* holds.  A default waits for whoever changes one, and is refused beside another.
WriteList(t) ==
    LET me == edit[t]
        l == me.target
        others == {k \in Lists \ {l} : Default(k) /\ k \notin DOMAIN me.wrote}
    IN  /\ me.pc = "write"
        /\ IF ~me.creates /\ me.held = me.default
           THEN Continues(t, [me EXCEPT !.pc = "commit"])
           ELSE /\ ~LockedFor(t, l)
                /\ me.default => ~IndexBusyFor(t)
                /\ IF (me.creates /\ list[l].exists) \/ (me.default /\ others # {})
                   THEN Continues(t, NoEdit)
                   ELSE Continues(t, [me EXCEPT !.pc = "commit",
                                                !.wrote = Writing(me, l, me.default)])

CommitEdit(t) ==
    LET me == edit[t]
    IN  /\ me.pc = "commit"
        /\ list' = [l \in Lists |-> IF l \in DOMAIN me.wrote
                                    THEN [exists |-> TRUE, default |-> me.wrote[l]] ELSE list[l]]
        /\ edit' = [o \in ListThreads |->
                       IF o = t \/ edit[o] = NoEdit THEN NoEdit
                       ELSE [edit[o] EXCEPT !.overtaken = @ \/ \E l \in DOMAIN me.wrote :
                                                               me.wrote[l] # list[l].default]]
        /\ UNCHANGED listRequests

\* A refusal for another reason, a deadlock, or a lost connection.
DropEdit(t) == edit[t] # NoEdit /\ Continues(t, NoEdit)

PriceListsNext ==
    \E t \in ListThreads :
        \/ \E l \in Lists, default \in BOOLEAN : OpenEdit(t, l, default)
        \/ FindDefault(t)
        \/ ClearDefault(t)
        \/ WriteList(t)
        \/ CommitEdit(t)
        \/ DropEdit(t)

PriceListsSpec == PriceListsInit /\ [][PriceListsNext]_priceLists

-----------------------------------------------------------------------------
(* Properties                                                              *)

\* A company that has a default list keeps one, and never has two, whichever lists take over
\* and whatever is refused halfway.  It loses its default only to a request that unsets it
\* by name, or to one that was open when the default changed and still holds its own list
\* as the default it is no longer.
DefaultKept ==
    [][ LET before == {l \in Lists : Default(l)}
            after == {l \in Lists : list'[l].exists /\ list'[l].default}
            open == {edit[t] : t \in ListThreads} \ {NoEdit}
        IN  /\ Cardinality(after) <= 1
            /\ before # {} /\ after = {} =>
                  \E e \in open : \/ e.overtaken /\ e.held
                                  \/ e.target \in before /\ ~e.default
      ]_priceLists
=============================================================================
