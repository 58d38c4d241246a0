------------------------------ MODULE Journal ------------------------------
(***************************************************************************)
(* The journal of one company: manual entries, the entries the posting     *)
(* engine writes for business documents, their reversals, and what they    *)
(* depend on: the chart of accounts, the settings and the calendar.        *)
(* Sources: backend/app/modules/accounting/service.py and integration.py.  *)
(*                                                                         *)
(* One action is one request served alone; a refused request is a          *)
(* stuttering step.  An entry's lines are abstracted to the accounts they  *)
(* name and the net amount on each (debit less credit): debits equal       *)
(* credits exactly when the net amounts sum to zero.                       *)
(***************************************************************************)
EXTENDS FiscalCalendar, RunningTotals

CONSTANTS
    NumAccounts,    \* accounts are numbered 1..NumAccounts
    TypeOf,         \* the account_type of every account
    Dates,          \* dates entries may carry
    LineSets,       \* the lines of a payload or of an event: [accts, net]
    Keys,           \* idempotency keys; each is that of one business document
    NoKey,
    MaxEntries,     \* bound: the journal's length
    MaxEdits        \* bound: changes of accounts and settings

Accounts == 1..NumAccounts
AccountTypes == {"ASSET", "LIABILITY", "EQUITY", "REVENUE", "EXPENSE"}
Lines == [accts: SUBSET Accounts, net: [Accounts -> Int]]

ASSUME NumAccountsAssumption == NumAccounts \in Nat
ASSUME TypeOfAssumption == TypeOf \in [Accounts -> AccountTypes]
ASSUME DatesAssumption == Dates \subseteq Nat
ASSUME LineSetsAssumption == LineSets \subseteq Lines
\* An account no line names has no amount.
ASSUME NetOfLinesAssumption ==
    \A lines \in LineSets : \A a \in Accounts \ lines.accts : lines.net[a] = 0
ASSUME KeysAssumption == NoKey \notin Keys
ASSUME JournalBoundsAssumption == MaxEntries \in Nat /\ MaxEdits \in Nat

VARIABLES
    entries,        \* JournalEntry rows with their lines, in id order
    accounts,       \* Account rows
    settings,       \* the AccountingSettings row
    approved,       \* APPROVED requests of the journal: <<"post" or "reverse", entry>>
    documents,      \* how far the business document of every key has come
    edits           \* changes of accounts and settings so far

journal == <<entries, accounts, settings, approved, documents, edits>>
vars == <<entries, accounts, settings, approved, documents, edits,
          years, periods, reopenings, changes>>

Entry == [accts: SUBSET Accounts, net: [Accounts -> Int], date: Dates,
          status: {"DRAFT", "POSTED", "REVERSED"}, source: {"MANUAL", "EVENT"},
          key: Keys \cup {NoKey}, reverses: Nat]

\* "quiet" and "dropped": posted and cancelled while auto-posting was off.
Stages == {"open", "posted", "quiet", "cancelled", "dropped"}

EntriesWithKey(k) == {n \in 1..Len(entries) : entries[n].key = k}
ReversalsOf(n) == {m \in 1..Len(entries) : entries[m].reverses = n}

-----------------------------------------------------------------------------
(* Posting                                                                 *)

Balanced(net) == Total(net, NumAccounts) = 0

\* Mutant of Postable: the engine trusts its templates to balance.
PostableUnbalanced(e) ==
    /\ e.accts # {}
    /\ \A a \in e.accts : accounts[a].live /\ accounts[a].postable
    /\ IsOpen(e.date)

\* Mutant of Postable: the period's status is not looked at.
PostableAnyPeriod(e) ==
    /\ e.accts # {}
    /\ Balanced(e.net)
    /\ \A a \in e.accts : accounts[a].live /\ accounts[a].postable
    /\ \E p \in 1..Len(periods) : periods[p].first <= e.date /\ e.date <= periods[p].last

\* _validate_and_post, and stages 4 to 6 of the engine.
Postable(e) ==
    /\ e.accts # {}
    /\ Balanced(e.net)
    /\ \A a \in e.accts : accounts[a].live /\ accounts[a].postable
    /\ IsOpen(e.date)

\* _require_approval for a manual entry, when the settings ask for it.
Allowed(what, n) ==
    settings.approval /\ entries[n].source = "MANUAL" => <<what, n>> \in approved

\* create_journal_entry: a draft; nothing is tested but the key, which returns its entry.
CreateEntry(lines, d, k) ==
    /\ Len(entries) < MaxEntries
    /\ k # NoKey => EntriesWithKey(k) = {}
    /\ entries' = Append(entries,
            [accts |-> lines.accts, net |-> lines.net, date |-> d, status |-> "DRAFT",
             source |-> "MANUAL", key |-> k, reverses |-> 0])
    /\ UNCHANGED <<accounts, settings, approved, documents, edits, calendar>>

\* post_journal_entry (a POSTED entry is returned as it is).
PostEntry(n) ==
    /\ entries[n].status = "DRAFT"
    /\ Allowed("post", n)
    /\ Postable(entries[n])
    /\ entries' = [entries EXCEPT ![n].status = "POSTED"]
    /\ UNCHANGED <<accounts, settings, approved, documents, edits, calendar>>

\* The reversal entry of n: the sides of every line swapped.
ReversalOf(n, d) ==
    [accts |-> entries[n].accts, net |-> [a \in Accounts |-> -entries[n].net[a]],
     date |-> d, status |-> "POSTED", source |-> entries[n].source, key |-> NoKey,
     reverses |-> n]

\* Mutant of Reverse: the original stays POSTED.
ReverseUnmarked(n, d) ==
    /\ Len(entries) < MaxEntries
    /\ entries[n].status = "POSTED"
    /\ \A m \in ReversalsOf(n) : entries[m].status = "REVERSED"
    /\ Allowed("reverse", n)
    /\ Postable(ReversalOf(n, d))
    /\ entries' = Append(entries, ReversalOf(n, d))

\* reverse_journal_entry.
Reverse(n, d) ==
    /\ Len(entries) < MaxEntries
    /\ entries[n].status = "POSTED"
    /\ \A m \in ReversalsOf(n) : entries[m].status = "REVERSED"
    /\ Allowed("reverse", n)
    /\ Postable(ReversalOf(n, d))
    /\ entries' = Append([entries EXCEPT ![n].status = "REVERSED"], ReversalOf(n, d))

ReverseEntry(n, d) ==
    /\ Reverse(n, d)
    /\ UNCHANGED <<accounts, settings, approved, documents, edits, calendar>>

-----------------------------------------------------------------------------
(* Business documents                                                      *)

\* The entry of a document's event: posted at once, under the document's key.
EventEntry(k, lines, d) ==
    [accts |-> lines.accts, net |-> lines.net, date |-> d, status |-> "POSTED",
     source |-> "EVENT", key |-> k, reverses |-> 0]

\* A document is posted; publish writes its entry in the same transaction, unless
\* auto-posting is off, or the key has an entry already.
Publish(k, lines, d) ==
    LET e == EventEntry(k, lines, d)
    IN  /\ documents[k] = "open"
        /\ documents' = [documents EXCEPT ![k] =
                             IF settings.autoPosting THEN "posted" ELSE "quiet"]
        /\ IF settings.autoPosting /\ EntriesWithKey(k) = {}
           THEN /\ Len(entries) < MaxEntries
                /\ Postable(e)
                /\ entries' = Append(entries, e)
           ELSE UNCHANGED entries
        /\ UNCHANGED <<accounts, settings, approved, edits, calendar>>

\* Mutant of ReverseDocument: a reversal that is refused is passed over.
ReverseDocumentIfItCan(k, d) ==
    /\ documents[k] \in {"posted", "quiet"}
    /\ documents' = [documents EXCEPT ![k] =
                         IF settings.autoPosting THEN "cancelled" ELSE "dropped"]
    /\ \/ \E n \in EntriesWithKey(k) : Reverse(n, d)
       \/ UNCHANGED entries
    /\ UNCHANGED <<accounts, settings, approved, edits, calendar>>

\* A document is cancelled; reverse_document reverses its entry if there is one that is
\* POSTED, unless auto-posting is off.
ReverseDocument(k, d) ==
    /\ documents[k] \in {"posted", "quiet"}
    /\ documents' = [documents EXCEPT ![k] =
                         IF settings.autoPosting THEN "cancelled" ELSE "dropped"]
    /\ IF /\ settings.autoPosting
          /\ \E n \in EntriesWithKey(k) : entries[n].status = "POSTED"
       THEN \E n \in EntriesWithKey(k) : Reverse(n, d)
       ELSE UNCHANGED entries
    /\ UNCHANGED <<accounts, settings, approved, edits, calendar>>

-----------------------------------------------------------------------------
(* Accounts, settings, approvals                                           *)

\* update_account: the flag may change under posted entries.
UpdateAccount(a) ==
    /\ edits < MaxEdits
    /\ accounts[a].live
    /\ accounts' = [accounts EXCEPT ![a].postable = ~@]
    /\ edits' = edits + 1
    /\ UNCHANGED <<entries, settings, approved, documents, calendar>>

\* Mutant of DeleteAccount: an account whose lines cancel out may go.
DeleteAccountAtZero(a) ==
    /\ edits < MaxEdits
    /\ accounts[a].live
    /\ Total([n \in 1..Len(entries) |->
                  IF entries[n].status = "POSTED" THEN entries[n].net[a] ELSE 0],
             Len(entries)) = 0
    /\ accounts' = [accounts EXCEPT ![a].live = FALSE]
    /\ edits' = edits + 1
    /\ UNCHANGED <<entries, settings, approved, documents, calendar>>

\* delete_account of a leaf: no line of any entry names it.
DeleteAccount(a) ==
    /\ edits < MaxEdits
    /\ accounts[a].live
    /\ \A n \in 1..Len(entries) : a \notin entries[n].accts
    /\ accounts' = [accounts EXCEPT ![a].live = FALSE]
    /\ edits' = edits + 1
    /\ UNCHANGED <<entries, settings, approved, documents, calendar>>

UpdateSettings ==
    /\ edits < MaxEdits
    /\ settings' \in [autoPosting: BOOLEAN, approval: BOOLEAN]
    /\ settings' # settings
    /\ edits' = edits + 1
    /\ UNCHANGED <<entries, accounts, approved, documents, calendar>>

\* A request that posting or reversing entry n made is approved (see Approvals).
Approve(what, n) ==
    /\ entries[n].source = "MANUAL"
    /\ entries[n].status = IF what = "post" THEN "DRAFT" ELSE "POSTED"
    /\ settings.approval
    /\ <<what, n>> \notin approved
    /\ approved' = approved \cup {<<what, n>>}
    /\ UNCHANGED <<entries, accounts, settings, documents, edits, calendar>>

-----------------------------------------------------------------------------
\* The company has its chart of accounts and its settings before its first entry.
Init ==
    /\ CalendarInit
    /\ entries = <<>>
    /\ accounts = [a \in Accounts |-> [live |-> TRUE, postable |-> TRUE]]
    /\ settings \in [autoPosting: BOOLEAN, approval: {FALSE}]
    /\ approved = {}
    /\ documents = [k \in Keys |-> "open"]
    /\ edits = 0

Next ==
    \/ CalendarNext /\ UNCHANGED journal
    \/ \E lines \in LineSets, d \in Dates, k \in Keys \cup {NoKey} : CreateEntry(lines, d, k)
    \/ \E n \in 1..Len(entries) : PostEntry(n)
    \/ \E n \in 1..Len(entries), d \in Dates : ReverseEntry(n, d)
    \/ \E k \in Keys, lines \in LineSets, d \in Dates : Publish(k, lines, d)
    \/ \E k \in Keys, d \in Dates : ReverseDocument(k, d)
    \/ \E a \in Accounts : UpdateAccount(a)
    \/ \E a \in Accounts : DeleteAccount(a)
    \/ UpdateSettings
    \/ \E n \in 1..Len(entries), what \in {"post", "reverse"} : Approve(what, n)

Spec == Init /\ [][Next]_vars

-----------------------------------------------------------------------------
(* Reports                                                                 *)

\* What entry e adds to account a on date d in the books as they were kept.
Adds(e, d, a) == IF e.status # "DRAFT" /\ e.date = d THEN e.net[a] ELSE 0

\* The books: every entry that was ever posted, reversed since or not.
Recorded(d, a) == Total([n \in 1..Len(entries) |-> Adds(entries[n], d, a)], Len(entries))
Books == [d \in Dates |-> [a \in Accounts |-> Recorded(d, a)]]
Ledger == INSTANCE GeneralLedger WITH book <- Books, openDates <- {d \in Dates : IsOpen(d)}

\* What the books hold on account a up to date d.
BookBalance(d, a) ==
    Total([n \in 1..Len(entries) |->
              IF entries[n].status # "DRAFT" /\ entries[n].date <= d
              THEN entries[n].net[a] ELSE 0], Len(entries))

\* get_trial_balance's line for account a: the entries that are POSTED now.
TrialBalance(d, a) ==
    Total([n \in 1..Len(entries) |->
              IF entries[n].status = "POSTED" /\ entries[n].date <= d
              THEN entries[n].net[a] ELSE 0], Len(entries))

\* The live accounts of some types, and what a report adds up over them.
LiveOf(types) == {a \in Accounts : accounts[a].live /\ TypeOf[a] \in types}
Sum(types, amounts) ==
    Total([a \in Accounts |-> IF a \in LiveOf(types) THEN amounts[a] ELSE 0], NumAccounts)

\* get_gl: what account a held before date f, and after the POSTED entries of f..d, which
\* run on from it; refused for an account that is deleted.
Opening(f, a) ==
    Total([n \in 1..Len(entries) |->
              IF entries[n].status = "POSTED" /\ entries[n].date < f
              THEN entries[n].net[a] ELSE 0], Len(entries))
Activity(f, d, a) ==
    Total([n \in 1..Len(entries) |->
              IF entries[n].status = "POSTED" /\ f <= entries[n].date /\ entries[n].date <= d
              THEN entries[n].net[a] ELSE 0], Len(entries))
Closing(f, d, a) == Opening(f, a) + Activity(f, d, a)

\* get_pl: revenue less expenses of the dates f..d; revenue is what was credited.
NetIncome(f, d) ==
    LET gains == [a \in Accounts |-> -Activity(f, d, a)] IN Sum({"REVENUE", "EXPENSE"}, gains)

\* get_balance_sheet: what is owned, what is owed and paid in, and what was earned so far.
Debits(d) == [a \in Accounts |-> TrialBalance(d, a)]
Credits(d) == [a \in Accounts |-> -TrialBalance(d, a)]
TotalAssets(d) == Sum({"ASSET"}, Debits(d))
Claims(d) == Sum({"LIABILITY", "EQUITY"}, Credits(d))
RetainedEarnings(d) == Sum({"REVENUE", "EXPENSE"}, Credits(d))

-----------------------------------------------------------------------------
(* Properties                                                              *)

\* The rows have the columns' types, and an idempotency key belongs to one entry.
\* (Part of ReportsAgree.)
TypeOK ==
    /\ CalendarTypeOK
    /\ entries \in Seq(Entry)
    /\ \A n \in 1..Len(entries) : entries[n].reverses < n
    /\ \A k \in Keys : \A m, n \in EntriesWithKey(k) : m = n
    /\ accounts \in [Accounts -> [live: BOOLEAN, postable: BOOLEAN]]
    /\ settings \in [autoPosting: BOOLEAN, approval: BOOLEAN]
    /\ approved \subseteq {"post", "reverse"} \X (1..Len(entries))
    /\ documents \in [Keys -> Stages]
    /\ edits \in 0..MaxEdits

\* The reports tell one story, whatever was posted, reversed into other dates, or deleted
\* from the chart: the balance sheet balances on every date, between two dates retained
\* earnings grow by the profit and loss account of the dates between, and a general ledger
\* that starts anywhere closes where the trial balance stands.
ReportsAgree ==
    TypeOK /\ \A d \in Dates :
        /\ TotalAssets(d) = Claims(d) + RetainedEarnings(d)
        /\ \A f \in Dates : f < d =>
               /\ RetainedEarnings(d) - RetainedEarnings(f) = NetIncome(f + 1, d)
               /\ \A a \in LiveOf(AccountTypes) : Closing(f + 1, d, a) = TrialBalance(d, a)

\* An entry is REVERSED exactly when one other entry, itself posted, undoes it line by
\* line, through any chain of reversals of reversals.
ReversedOnce ==
    \A n \in 1..Len(entries) :
        IF entries[n].status = "REVERSED"
        THEN \E m \in ReversalsOf(n) :
                /\ ReversalsOf(n) = {m}
                /\ entries[m].status # "DRAFT"
                /\ \A a \in Accounts : entries[m].net[a] = -entries[n].net[a]
        ELSE ReversalsOf(n) = {}

\* The journal keeps the promise of GeneralLedger: what the books hold changes only by
\* balanced recordings on open dates; no reversal or cancellation rewrites a shut date.
ImplementsLedger == Ledger!Spec

\* A document posted with auto-posting on is in the books, and once cancelled with it on
\* its entry no longer stands; unless somebody had given a manual entry its key.
DocumentsBooked ==
    \A k \in Keys :
        (\A n \in EntriesWithKey(k) : entries[n].source = "EVENT") =>
            /\ documents[k] = "posted" => \E n \in EntriesWithKey(k) : entries[n].status # "DRAFT"
            /\ documents[k] = "cancelled" =>
                   \A n \in EntriesWithKey(k) : entries[n].status = "REVERSED"

\* The trial balance reports what the books hold: an entry and its reversal cancel out.
ReportsMatchBooks == \A d \in Dates, a \in Accounts : TrialBalance(d, a) = BookBalance(d, a)
=============================================================================
