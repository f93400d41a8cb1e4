----------------------------- MODULE TwinLedger -----------------------------
(***************************************************************************)
(* What the finance twin promises its callers: books that change by        *)
(* accepted operations only, one at a time. The engine of src/twin.py,     *)
(* with its threads, its log and its restarts, is shown to implement this  *)
(* in FinanceTwin.                                                         *)
(***************************************************************************)
EXTENDS TwinRules, FiniteSetsExt

VARIABLES
    books,      \* accounts, transactions, invoices, liabilities, approvals
    opened      \* history: account -> the balance it was opened with

vars == <<books, opened>>

TypeOK ==
    /\ BooksOK(books)
    /\ IsDict(opened, AccountIds, Nat)

Init ==
    /\ books = EmptyBooks
    /\ opened = EmptyDict

OpenAccount(e) ==
    /\ CanCreateAccount(books, e)
    /\ books' = CreateAccount(books, e)
    /\ opened' = Put(opened, e.account, Quantize(e.balance))

PostTransaction(e) ==
    /\ CanPost(books, e)
    /\ books' = Post(books, e)
    /\ UNCHANGED opened

IssueInvoice(e) == books' = CreateInvoice(books, e) /\ UNCHANGED opened

PayInvoice(e) == books' = RecordPayment(books, e) /\ UNCHANGED opened

Oblige(e) == books' = CreateObligation(books, e) /\ UNCHANGED opened

ApproveTransaction(e) == books' = Decide(books, e, TRUE) /\ UNCHANGED opened

RejectTransaction(e) == books' = Decide(books, e, FALSE) /\ UNCHANGED opened

ReverseTransaction(e) ==
    /\ CanReverse(books, e)
    /\ books' = ReversePosting(books, e)
    /\ UNCHANGED opened

Next ==
    \/ \E e \in CreateAccountEvents : OpenAccount(e)
    \/ \E e \in PostEvents : PostTransaction(e)
    \/ \E e \in InvoiceEvents : IssueInvoice(e)
    \/ \E e \in PaymentEvents : PayInvoice(e)
    \/ \E e \in ObligationEvents : Oblige(e)
    \/ \E e \in ApproveEvents : ApproveTransaction(e)
    \/ \E e \in RejectEvents : RejectTransaction(e)
    \/ \E e \in ReverseEvents : ReverseTransaction(e)

Spec == Init /\ [][Next]_vars

-----------------------------------------------------------------------------
\* The sum of what a function gives the members of a finite set.
SumOver(f, S) == MapThenSumSet(LAMBDA x : f[x], S)

Total(ids) ==
    SumOver([t \in DOMAIN books.transactions |-> Quantize(books.transactions[t].amount)], ids)

InForce(t) == books.transactions[t].status = "POSTED"

\* Every balance is the opening balance plus what the transactions in force
\* paid in, less what they took out: no order of posting and reversing, and
\* no rounding, creates or loses a quantum. Hence the books stay balanced.
BalancesExplained ==
    \A a \in DOMAIN books.accounts :
        LET Posted == {t \in DOMAIN books.transactions : InForce(t)}
        IN  books.accounts[a] + Total({t \in Posted : books.transactions[t].from = a})
              = opened[a] + Total({t \in Posted : books.transactions[t].to = a})

\* A transaction's accounts exist and differ, and its amount can be rounded,
\* so that the reversal of it finds both sides and cannot raise on the way.
TransfersSound ==
    \A t \in DOMAIN books.transactions :
        LET tx == books.transactions[t]
        IN  /\ {tx.from, tx.to} \subseteq DOMAIN books.accounts
            /\ tx.from # tx.to
            /\ Quantizable(tx.amount)
            /\ Quantize(tx.amount) <= MaxTransaction

IInv ==
    /\ TypeOK
    /\ TransfersSound

\* MAX_BALANCE is the "maximum representable balance".
BalancesWithinCap ==
    \A a \in DOMAIN books.accounts : books.accounts[a] <= MaxBalance

\* Money only moves between two existing accounts: a step that changes the
\* balance of an account that was there takes from one exactly what it gives
\* to another, leaves the rest alone and opens no account.
MovesMoney ==
    \/ \A a \in DOMAIN books.accounts :
          a \in DOMAIN books'.accounts /\ books'.accounts[a] = books.accounts[a]
    \/ \E from, to \in DOMAIN books.accounts :
          /\ from # to
          /\ DOMAIN books'.accounts = DOMAIN books.accounts
          /\ books.accounts[from] - books'.accounts[from]
               = books'.accounts[to] - books.accounts[to]
          /\ \A a \in DOMAIN books.accounts \ {from, to} :
                books'.accounts[a] = books.accounts[a]
DoubleEntry == [][MovesMoney]_vars

\* A posted transaction is a record for good: its parties and its amount do
\* not change, and once reversed it is never in force again, so its id cannot
\* be debited twice. The reversal gives back what was rounded and taken.
KeepsTransactions ==
    \A t \in DOMAIN books.transactions :
        LET before == books.transactions[t]
            after == books'.transactions[t]
        IN  /\ t \in DOMAIN books'.transactions
            /\ after \in {before, [before EXCEPT !.status = "REVERSED"]}
            /\ after # before =>
                 books'.accounts[before.from]
                   = books.accounts[before.from] + Quantize(before.amount)
TransactionsFinal == [][KeepsTransactions]_vars
=============================================================================
