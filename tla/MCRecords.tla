----------------------------- MODULE MCRecords -----------------------------
(***************************************************************************)
(* The parts that hold what documents refer to, side by side: fiscal       *)
(* calendar, organization, users, trees, catalog and price lists share no  *)
(* state, so in one behaviour only one of them, the topic, moves, and the  *)
(* state spaces add up instead of multiplying.                             *)
(***************************************************************************)
EXTENDS FiscalCalendar, Organization, Access, Hierarchies, Catalog, PriceLists,
        TLC

CONSTANTS c1, b1, w1, w2, k1, k2, e1, e2, u1, u2, u3, t1, t2, n1, n2, n3, m1, m2,
          kg, bag, piece

VARIABLE topic

Topics == {"calendar", "organization", "access", "hierarchies", "catalog", "priceLists"}

Init ==
    /\ topic \in Topics
    /\ CalendarInit
    /\ OrganizationInit
    /\ AccessInit
    /\ HierarchyInit /\ (topic # "hierarchies" => tree = "categories")
    /\ CatalogInit /\ product.base = kg /\ (topic # "catalog" => product.other = NoMeasureUnit)
    /\ PriceListsInit

Next ==
    /\ UNCHANGED topic
    /\ \/ /\ topic = "calendar" /\ CalendarNext
          /\ UNCHANGED <<organization, access, hierarchy, catalog, priceLists>>
       \/ /\ topic = "organization" /\ OrganizationNext
          /\ UNCHANGED <<calendar, access, hierarchy, catalog, priceLists>>
       \/ /\ topic = "access" /\ AccessNext
          /\ UNCHANGED <<calendar, organization, hierarchy, catalog, priceLists>>
       \/ /\ topic = "hierarchies" /\ HierarchyNext
          /\ UNCHANGED <<calendar, organization, access, catalog, priceLists>>
       \/ /\ topic = "catalog" /\ CatalogNext
          /\ UNCHANGED <<calendar, organization, access, hierarchy, priceLists>>
       \/ /\ topic = "priceLists" /\ PriceListsNext
          /\ UNCHANGED <<calendar, organization, access, hierarchy, catalog>>

Spec == Init /\ [][Next]_<<topic, calendar, organization, access, hierarchy, catalog, priceLists>>

-----------------------------------------------------------------------------
\* Two years of fourteen and of two one-day months, which overlap.
MCYearRanges == {<<0, 13>>, <<12, 13>>}
MCCounts == {1, 3, 12}

\* One company with one branch with two warehouses, of which one exists.
MCParent == [u \in {c1, b1, w1, w2} |->
                IF u = c1 THEN NoUnit ELSE IF u = b1 THEN c1 ELSE b1]

\* A line whose parent comes after it, a root, and a line below the root.
MCTemplate == <<[code |-> n2, parent |-> n3], [code |-> n1, parent |-> NoNode],
                [code |-> n3, parent |-> n1]>>

MCUnitType == [u \in {kg, bag, piece} |-> IF u = piece THEN "count" ELSE "weight"]

\* Threads, codes and the users created later are interchangeable.
MCSymmetry ==
    Permutations({e1, e2}) \cup Permutations({k1, k2}) \cup Permutations({t1, t2})
    \cup Permutations({u2, u3}) \cup Permutations({m1, m2})
=============================================================================
