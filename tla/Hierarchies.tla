---------------------------- MODULE Hierarchies ----------------------------
(***************************************************************************)
(* The three trees of a company: product categories, the chart of accounts *)
(* and cost centers.  Sources: backend/app/modules/master_data/service.py  *)
(* and backend/app/modules/accounting/service.py.                          *)
(*                                                                         *)
(* A request that moves a node walks up from the new parent, one query per *)
(* row, looks for the node itself on the way, and commits the new parent   *)
(* afterwards; requests overlap.  Every other operation reads and writes   *)
(* few rows and is one step.  A node stands for its row and its code: live *)
(* rows have different codes.                                              *)
(***************************************************************************)
EXTENDS Naturals, Sequences, FiniteSets

CONSTANTS
    Nodes,
    NoNode,         \* the parent of a root
    Template,       \* lines of a chart template in sequence: [code, parent]
    Used,           \* accounts that journal lines refer to
    Movers,         \* request threads
    MaxMoves,       \* bound: reparenting requests
    MaxTreeChanges  \* bound: creations, deletions, restorations

ASSUME NoNodeAssumption == NoNode \notin Nodes

\* A row of coa_template_lines.
TemplateLine == [code: Nodes, parent: Nodes \cup {NoNode}]

ASSUME TemplateAssumption ==
    /\ Template \in Seq(TemplateLine)
    /\ \A i, j \in 1..Len(Template) : Template[i].code = Template[j].code => i = j
ASSUME UsedAssumption == Used \subseteq Nodes
ASSUME TreeBoundsAssumption == MaxMoves \in Nat /\ MaxTreeChanges \in Nat

VARIABLES
    tree,           \* which of the three
    node,           \* the committed rows
    move,           \* the open reparenting of every thread
    overtaken,      \* history: a move of a node committed that another open walk had read
    moves,          \* reparentings so far
    treeChanges     \* other changes so far

hierarchy == <<tree, node, move, overtaken, moves, treeChanges>>

Trees == {"categories", "accounts", "costCenters"}
NoMove == [pc |-> "none"]

Exists(n) == node[n].state # "absent"
Live(n) == node[n].state = "live"

\* _get_scoped finds a deleted category as well; accounts and cost centers must be live.
Found(n) == IF tree = "categories" THEN Exists(n) ELSE Live(n)

-----------------------------------------------------------------------------
HierarchyInit ==
    /\ tree \in Trees
    /\ node = [n \in Nodes |-> [state |-> "absent", parent |-> NoNode]]
    /\ move = [m \in Movers |-> NoMove]
    /\ overtaken = FALSE
    /\ moves = 0
    /\ treeChanges = 0

Changed ==
    /\ treeChanges < MaxTreeChanges
    /\ treeChanges' = treeChanges + 1
    /\ UNCHANGED <<tree, move, overtaken, moves>>

\* apply_coa_template: to a company without accounts, all lines in one transaction.  A line
\* hangs below the line that holds its parent code if that one came before it.
ApplyTemplate ==
    LET earlier(i, code) == \E j \in 1..(i - 1) : Template[j].code = code
        lines == {Template[i].code : i \in 1..Len(Template)}
        parentOf(n) == LET i == CHOOSE k \in 1..Len(Template) : Template[k].code = n
                       IN  IF earlier(i, Template[i].parent) THEN Template[i].parent ELSE NoNode
    IN  /\ tree = "accounts"
        /\ \A n \in Nodes : ~Live(n)
        /\ \A n \in lines : ~Exists(n)       \* a second chart would be new rows
        /\ node' = [n \in Nodes |-> IF n \in lines
                                    THEN [state |-> "live", parent |-> parentOf(n)]
                                    ELSE node[n]]
        /\ Changed

Added(n, p) ==
    /\ ~Exists(n)
    /\ node' = [node EXCEPT ![n] = [state |-> "live", parent |-> p]]
    /\ Changed

\* The parent may be deleted.
CreateCategory(n, p) ==
    /\ tree = "categories"
    /\ p # NoNode => Exists(p)
    /\ Added(n, p)

\* The parent is live; the walk from it looks for a code that no row holds yet.
CreateAccount(n, p) ==
    /\ tree = "accounts"
    /\ p # NoNode => Live(p)
    /\ Added(n, p)

\* As an account; a cost center is never changed afterwards.
CreateCostCenter(n, p) ==
    /\ tree = "costCenters"
    /\ p # NoNode => Live(p)
    /\ Added(n, p)

Deleted(n) ==
    /\ Live(n)
    /\ node' = [node EXCEPT ![n].state = "deleted"]
    /\ Changed

\* soft_delete_category: the categories below stay where they are.
DeleteCategory(n) == tree = "categories" /\ Deleted(n)

\* delete_account: not one that lines refer to, nor one with live accounts below it.
DeleteAccount(n) ==
    /\ tree = "accounts"
    /\ n \notin Used
    /\ \A c \in Nodes : Live(c) => node[c].parent # n
    /\ Deleted(n)

\* restore_category; accounts stay deleted.
RestoreCategory(n) ==
    /\ tree = "categories"
    /\ node[n].state = "deleted"
    /\ node' = [node EXCEPT ![n].state = "live"]
    /\ Changed

\* update_category and update_account with a new parent, up to the walk.  The account
\* handler does not look whether there is a live one.
StartMove(m, n, p) ==
    /\ moves < MaxMoves
    /\ moves' = moves + 1
    /\ tree # "costCenters"
    /\ move[m] = NoMove
    /\ Found(n)
    /\ p # NoNode => Exists(p)
    /\ move' = [move EXCEPT ![m] = [pc |-> "walk", node |-> n, parent |-> p,
                                    at |-> p, visited |-> {}]]
    /\ UNCHANGED <<tree, node, overtaken, treeChanges>>

Ends(m, next) ==
    /\ move' = [move EXCEPT ![m] = next]
    /\ UNCHANGED <<tree, node, overtaken, moves, treeChanges>>

\* One turn of _assert_no_cycle; a category met twice ends the walk quietly.
CategoryTurn(m) ==
    LET me == move[m]
    IN  IF me.at = me.node THEN Ends(m, NoMove)
        ELSE IF me.at \in me.visited THEN Ends(m, [me EXCEPT !.pc = "write"])
        ELSE Ends(m, [me EXCEPT !.visited = @ \cup {me.at}, !.at = node[me.at].parent])

\* One turn of _assert_no_account_cycle; an account met twice is refused, one that is not
\* live ends the walk.
AccountTurn(m) ==
    LET me == move[m]
    IN  IF me.at \in me.visited \/ (Live(me.at) /\ me.at = me.node) THEN Ends(m, NoMove)
        ELSE IF ~Live(me.at) THEN Ends(m, [me EXCEPT !.pc = "write"])
        ELSE Ends(m, [me EXCEPT !.visited = @ \cup {me.at}, !.at = node[me.at].parent])

\* Mutant of Walk: only the new parent is looked at, not what is above it.
WalkOnce(m) ==
    LET me == move[m]
    IN  /\ me.pc = "walk"
        /\ IF me.at = me.node THEN Ends(m, NoMove)
           ELSE Ends(m, [me EXCEPT !.pc = "write"])

\* The walk reads one row per turn and ends above a root.
Walk(m) ==
    LET me == move[m]
    IN  /\ me.pc = "walk"
        /\ IF me.at = NoNode THEN Ends(m, [me EXCEPT !.pc = "write"])
           ELSE IF tree = "categories" THEN CategoryTurn(m) ELSE AccountTurn(m)

\* The flush and the commit.
CommitMove(m) ==
    LET me == move[m]
    IN  /\ me.pc = "write"
        /\ node' = [node EXCEPT ![me.node].parent = me.parent]
        /\ overtaken' = (overtaken \/ \E o \in Movers \ {m} :
                            move[o] # NoMove /\ me.node \in move[o].visited)
        /\ move' = [move EXCEPT ![m] = NoMove]
        /\ UNCHANGED <<tree, moves, treeChanges>>

\* The connection is lost.
DropMove(m) == move[m] # NoMove /\ Ends(m, NoMove)

HierarchyNext ==
    \/ ApplyTemplate
    \/ \E n \in Nodes, p \in Nodes \cup {NoNode} :
          CreateCategory(n, p) \/ CreateAccount(n, p) \/ CreateCostCenter(n, p)
    \/ \E n \in Nodes : DeleteCategory(n) \/ RestoreCategory(n) \/ DeleteAccount(n)
    \/ \E m \in Movers, n \in Nodes, p \in Nodes \cup {NoNode} : StartMove(m, n, p)
    \/ \E m \in Movers : Walk(m) \/ CommitMove(m) \/ DropMove(m)

HierarchySpec == HierarchyInit /\ [][HierarchyNext]_hierarchy

-----------------------------------------------------------------------------
(* Properties                                                              *)

\* No cycle among the nodes of s: every part of it has a node whose parent is outside.
Acyclic(s) ==
    \A part \in (SUBSET s) \ {{}} : \E n \in part : node[n].parent \notin part

\* A tree gets a cycle only if a move committed under another open walk that had already
\* read the moved node: deletions and restorations, moves below deleted nodes, templates
\* and every other overlap of moves leave the trees trees.  The categories count whether
\* deleted or not (they may be restored); the accounts while live.
CyclesNeedOverlap ==
    Acyclic({n \in Nodes : IF tree = "categories" THEN Exists(n) ELSE Live(n)}) \/ overtaken
=============================================================================
