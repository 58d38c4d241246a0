------------------------------ MODULE Catalog ------------------------------
(***************************************************************************)
(* A product's units, the conversions between units, and what documents    *)
(* make of a quantity that is not in the product's base unit.  Sources:    *)
(* backend/app/modules/master_data/service.py, and sales/service.py for a  *)
(* delivery and its returns; the functions of purchasing are the same.     *)
(*                                                                         *)
(* Quantities and factors are whole numbers of their last decimal place:   *)
(* Scale stands for 10^6.  A document keeps its lines in the unit it was   *)
(* written in and converts when it is posted, with the factor of that day: *)
(* a note is a draft while its base is 0, and POSTED from then on.         *)
(***************************************************************************)
EXTENDS Integers, Sequences, FiniteSets, RunningTotals

CONSTANTS
    MeasureUnits,
    UnitType,       \* weight, count, ...: nothing changes the type of a unit
    NoMeasureUnit,
    Scale,
    Factors,        \* conversion factors (schemas: gt=0)
    LineQuantities, \* quantities of document lines (schemas: gt=0)
    MaxRules,       \* bound: conversion rows
    MaxRuleChanges, \* bound: changes of conversions and of the product
    MaxNotes        \* bound: credit notes

ASSUME UnitTypeAssumption == DOMAIN UnitType = MeasureUnits /\ NoMeasureUnit \notin MeasureUnits
ASSUME ScaleAssumption == Scale \in Nat \ {0}
ASSUME FactorsAssumption == Factors \subseteq Nat \ {0} /\ LineQuantities \subseteq Nat \ {0}
ASSUME CatalogBoundsAssumption == {MaxRules, MaxRuleChanges, MaxNotes} \subseteq Nat

VARIABLES
    product,        \* the product's units
    rules,          \* UnitConversion rows in id order
    delivery,       \* the posted invoice line, if any
    notes,          \* CreditNoteLine rows of that line.  overlapped: history, another
                    \* note was a draft when this one was created
    ruleChanges,    \* changes so far
    repriced        \* history: the delivery's factor changed after it

catalog == <<product, rules, delivery, notes, ruleChanges, repriced>>

SameType(u, v) == UnitType[u] = UnitType[v]
NoDelivery == [unit |-> NoMeasureUnit, qty |-> 0, base |-> 0]
Delivered == delivery # NoDelivery

-----------------------------------------------------------------------------
(* Conversion                                                              *)

\* quantize: to the nearest, a half to the even one.
Quantize(n, d) ==
    LET q == n \div d
        r == 2 * (n % d)
    IN  IF r > d \/ (r = d /\ q % 2 = 1) THEN q + 1 ELSE q

Matching(table, own, from, to) ==
    {i \in 1..Len(table) : /\ table[i].live /\ table[i].own = own
                           /\ table[i].from = from /\ table[i].to = to}

NoRatio == <<0, 0>>

\* get_conversion_factor: the product's rows before the company's, a direct row before a
\* reverse one, no chains.  The factor as a fraction.
Ratio(table, from, to) ==
    LET direct(own) == Matching(table, own, from, to)
        reverse(own) == Matching(table, own, to, from)
        of(rows) == table[CHOOSE i \in rows : TRUE].factor
        search(own, otherwise) == IF direct(own) # {} THEN <<of(direct(own)), Scale>>
                                  ELSE IF reverse(own) # {} THEN <<Scale, of(reverse(own))>>
                                  ELSE otherwise
    IN  IF from = to THEN <<1, 1>> ELSE search(TRUE, search(FALSE, NoRatio))

\* _to_base_qty, _to_base_qty_cn.
ToBase(qty, ratio) == Quantize(qty * ratio[1], ratio[2])

\* The factor of the delivered line under some rows and base unit.
RatioOfDelivery(table) == Ratio(table, delivery.unit, product.base)

-----------------------------------------------------------------------------
(* Operations                                                              *)

CatalogInit ==
    /\ product \in {p \in [base: MeasureUnits, other: MeasureUnits \cup {NoMeasureUnit}] :
                        p.other # NoMeasureUnit => SameType(p.base, p.other)}
    /\ rules = <<>>
    /\ delivery = NoDelivery
    /\ notes = <<>>
    /\ ruleChanges = 0
    /\ repriced = FALSE

\* A change of the conversion rows; the partial unique indexes allow one live row per key.
ChangeRules(table) ==
    /\ ruleChanges < MaxRuleChanges
    /\ ruleChanges' = ruleChanges + 1
    /\ \A i, j \in 1..Len(table) :
          i # j /\ table[i].live /\ table[j].live =>
              <<table[i].own, table[i].from, table[i].to>> # <<table[j].own, table[j].from, table[j].to>>
    /\ rules' = table
    /\ repriced' = (repriced \/ (Delivered /\ RatioOfDelivery(table) # RatioOfDelivery(rules)))
    /\ UNCHANGED <<product, delivery, notes>>

\* create_conversion, for the product or for the company.
CreateConversion(own, from, to, factor) ==
    /\ Len(rules) < MaxRules
    /\ SameType(from, to) /\ from # to
    /\ ChangeRules(Append(rules, [own |-> own, from |-> from, to |-> to,
                                  factor |-> factor, live |-> TRUE]))

\* update_conversion: the factor alone, deleted or not.
UpdateConversion(i, factor) == ChangeRules([rules EXCEPT ![i].factor = factor])

DeleteConversion(i) == rules[i].live /\ ChangeRules([rules EXCEPT ![i].live = FALSE])
RestoreConversion(i) == ~rules[i].live /\ ChangeRules([rules EXCEPT ![i].live = TRUE])

\* Mutant of UpdateProduct: the base unit may change under existing movements.
UpdateProductAnyTime(base, other) ==
    /\ ruleChanges < MaxRuleChanges
    /\ ruleChanges' = ruleChanges + 1
    /\ other # NoMeasureUnit => SameType(base, other)
    /\ product' = [base |-> base, other |-> other]
    /\ UNCHANGED <<rules, delivery, notes, repriced>>

\* update_product: the base unit until there are movements, and the sales or purchase unit.
UpdateProduct(base, other) ==
    /\ ruleChanges < MaxRuleChanges
    /\ ruleChanges' = ruleChanges + 1
    /\ base # product.base => ~Delivered
    /\ other # NoMeasureUnit => SameType(base, other)
    /\ product' = [base |-> base, other |-> other]
    /\ UNCHANGED <<rules, delivery, notes, repriced>>

\* post_invoice with one line, in any unit of the payload's: the base quantity is issued.
Deliver(unit, qty) ==
    LET ratio == Ratio(rules, unit, product.base)
    IN  /\ ~Delivered
        /\ ratio # NoRatio
        /\ ToBase(qty, ratio) > 0       \* IssueStockRequest
        /\ delivery' = [unit |-> unit, qty |-> qty, base |-> ToBase(qty, ratio)]
        /\ UNCHANGED <<product, rules, notes, ruleChanges, repriced>>

\* _total_returned: what POSTED notes of the line carry, in the line's unit.
TotalReturnedOf(table) ==
    Total([k \in 1..Len(table) |-> IF table[k].base # 0 THEN table[k].qty ELSE 0], Len(table))

\* create_credit_note for a part of the line, in the line's unit: drafts do not count.
WriteNote(qty) ==
    /\ Delivered
    /\ Len(notes) < MaxNotes
    /\ TotalReturnedOf(notes) + qty <= delivery.qty
    /\ notes' = Append(notes, [qty |-> qty, base |-> 0,
                               overlapped |-> \E k \in 1..Len(notes) : notes[k].base = 0])
    /\ UNCHANGED <<product, rules, delivery, ruleChanges, repriced>>

\* post_credit_note: the quantity is converted again, and received.
PostNote(k) ==
    LET ratio == RatioOfDelivery(rules)
    IN  /\ notes[k].base = 0
        /\ ratio # NoRatio
        /\ ToBase(notes[k].qty, ratio) > 0      \* ReceiveStockRequest
        /\ notes' = [notes EXCEPT ![k].base = ToBase(notes[k].qty, ratio)]
        /\ UNCHANGED <<product, rules, delivery, ruleChanges, repriced>>

CatalogNext ==
    \/ \E own \in BOOLEAN, from, to \in MeasureUnits, f \in Factors :
          CreateConversion(own, from, to, f)
    \/ \E i \in DOMAIN rules, f \in Factors : UpdateConversion(i, f)
    \/ \E i \in DOMAIN rules : DeleteConversion(i) \/ RestoreConversion(i)
    \/ \E base \in MeasureUnits, other \in MeasureUnits \cup {NoMeasureUnit} :
          UpdateProduct(base, other)
    \/ \E unit \in MeasureUnits, qty \in LineQuantities : Deliver(unit, qty)
    \/ \E qty \in LineQuantities : WriteNote(qty)
    \/ \E k \in DOMAIN notes : PostNote(k)

CatalogSpec == CatalogInit /\ [][CatalogNext]_catalog

-----------------------------------------------------------------------------
(* Properties                                                              *)

\* What returns bring back to stock never exceeds what the delivery took from it by more
\* than the rounding of the conversions, half a unit of the last place each, although
\* drafts do not count as returned and every return is converted anew: unless a note was
\* created while another was a draft, or the factor itself was changed in between.
ReturnsWithinRounding ==
    LET posted == {k \in DOMAIN notes : notes[k].base # 0}
        back == Total([k \in 1..Len(notes) |-> notes[k].base], Len(notes))
    IN  Delivered /\ ~repriced /\ (\A k \in DOMAIN notes : ~notes[k].overlapped) =>
            2 * (back - delivery.base) <= Cardinality(posted) + 1
=============================================================================
