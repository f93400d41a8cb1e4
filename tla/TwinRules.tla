----------------------------- MODULE TwinRules -----------------------------
(***************************************************************************)
(* The business rules of FinanceTwinEngine._apply_event_to_memory() in     *)
(* src/twin.py: for each of the eight operations, when an event is         *)
(* accepted and what it makes of the books.                                *)
(*                                                                         *)
(* Money is kept in quanta of 0.0001. An amount as a caller gives it is an *)
(* integer number of half quanta, so that ties of the rounding occur; a    *)
(* negative one also stands for what is not a finite number. An event that *)
(* lacks a required field, or names no known operation, is Malformed. The  *)
(* assets of the engine, which no operation writes, are left out.          *)
(***************************************************************************)
EXTENDS Integers

CONSTANTS
    AccountIds,
    TransactionIds,
    InvoiceIds,
    ObligationIds,
    RawAmounts,         \* amounts as callers give them, in half quanta
    MaxBalance,         \* MAX_BALANCE, in quanta
    MaxTransaction      \* MAX_TRANSACTION_AMOUNT, in quanta

ASSUME AmountsAssumption ==
    /\ RawAmounts \subseteq Int
    /\ MaxBalance \in Nat
    /\ MaxTransaction \in Nat

CreateAccountEvents ==
    [operation : {"CREATE_ACCOUNT"}, account : AccountIds, balance : RawAmounts]
PostEvents ==
    [operation : {"POST_TRANSACTION"}, transaction : TransactionIds,
     from : AccountIds, to : AccountIds, amount : RawAmounts]
InvoiceEvents == [operation : {"CREATE_INVOICE"}, invoice : InvoiceIds]
PaymentEvents == [operation : {"RECORD_PAYMENT"}, invoice : InvoiceIds]
ObligationEvents == [operation : {"CREATE_OBLIGATION"}, obligation : ObligationIds]
ApproveEvents == [operation : {"APPROVE_TRANSACTION"}, transaction : TransactionIds]
RejectEvents == [operation : {"REJECT_TRANSACTION"}, transaction : TransactionIds]
ReverseEvents == [operation : {"REVERSE_TRANSACTION"}, transaction : TransactionIds]
Malformed == [operation |-> "MALFORMED"]

Events ==
    CreateAccountEvents \cup PostEvents \cup InvoiceEvents \cup PaymentEvents
      \cup ObligationEvents \cup ApproveEvents \cup RejectEvents
      \cup ReverseEvents \cup {Malformed}

-----------------------------------------------------------------------------
\* A dictionary is a function on its keys.
IsDict(f, Keys, Values) == DOMAIN f \subseteq Keys /\ f \in [DOMAIN f -> Values]
Put(f, key, value) ==
    [k \in DOMAIN f \cup {key} |-> IF k = key THEN value ELSE f[k]]
EmptyDict == [k \in {} |-> TRUE]

EmptyBooks ==
    [accounts     |-> EmptyDict,
     transactions |-> EmptyDict,
     invoices     |-> EmptyDict,
     liabilities  |-> {},
     approvals    |-> EmptyDict]

Transfers ==
    [from : AccountIds, to : AccountIds, amount : RawAmounts,
     status : {"POSTED", "REVERSED"}]

\* Balances are never negative.
BooksOK(b) ==
    /\ b = [accounts     |-> b.accounts,
            transactions |-> b.transactions,
            invoices     |-> b.invoices,
            liabilities  |-> b.liabilities,
            approvals    |-> b.approvals]
    /\ IsDict(b.accounts, AccountIds, Nat)
    /\ IsDict(b.transactions, TransactionIds, Transfers)
    /\ IsDict(b.invoices, InvoiceIds, {"ISSUED", "PAID"})
    /\ b.liabilities \subseteq ObligationIds
    /\ IsDict(b.approvals, TransactionIds, BOOLEAN)

-----------------------------------------------------------------------------
\* quantize_money(): refused below zero or above the largest balance, then
\* rounded to a whole quantum, a tie to the even one.
Quantizable(raw) == 0 <= raw /\ raw <= 2 * MaxBalance

Quantize(raw) ==
    LET q == raw \div 2
    IN  IF raw % 2 = 1 /\ q % 2 = 1 THEN q + 1 ELSE q

\* The debit and the credit of a transfer, on the accounts that exist.
Move(accounts, from, to, amount) ==
    [a \in DOMAIN accounts |->
        accounts[a] - (IF a = from THEN amount ELSE 0)
                    + (IF a = to THEN amount ELSE 0)]

CanCreateAccount(b, e) ==
    /\ e.account \notin DOMAIN b.accounts
    /\ Quantizable(e.balance)
CreateAccount(b, e) ==
    [b EXCEPT !.accounts = Put(@, e.account, Quantize(e.balance))]

\* Variant: a transaction id may be used again.
CanPostAgain(b, e) ==
    /\ Quantizable(e.amount)
    /\ {e.from, e.to} \subseteq DOMAIN b.accounts
    /\ e.from # e.to
    /\ b.accounts[e.from] >= Quantize(e.amount)
    /\ Quantize(e.amount) <= MaxTransaction
    /\ b.accounts[e.to] + Quantize(e.amount) <= MaxBalance

\* Variant: the amount is compared before it is rounded.
CanPostRaw(b, e) ==
    /\ e.transaction \notin DOMAIN b.transactions
    /\ Quantizable(e.amount)
    /\ {e.from, e.to} \subseteq DOMAIN b.accounts
    /\ e.from # e.to
    /\ b.accounts[e.from] >= e.amount \div 2
    /\ Quantize(e.amount) <= MaxTransaction
    /\ b.accounts[e.to] + Quantize(e.amount) <= MaxBalance

CanPost(b, e) ==
    /\ e.transaction \notin DOMAIN b.transactions
    /\ Quantizable(e.amount)
    /\ {e.from, e.to} \subseteq DOMAIN b.accounts
    /\ e.from # e.to
    /\ b.accounts[e.from] >= Quantize(e.amount)
    /\ Quantize(e.amount) <= MaxTransaction
    /\ b.accounts[e.to] + Quantize(e.amount) <= MaxBalance

\* Variant: the credit is not rounded.
PostRawCredit(b, e) ==
    [b EXCEPT
        !.accounts = [Move(@, e.from, e.to, Quantize(e.amount)) EXCEPT
                          ![e.to] = b.accounts[e.to] + e.amount \div 2],
        !.transactions = Put(@, e.transaction,
                             [from |-> e.from, to |-> e.to,
                              amount |-> e.amount, status |-> "POSTED"])]

Post(b, e) ==
    [b EXCEPT
        !.accounts = Move(@, e.from, e.to, Quantize(e.amount)),
        !.transactions = Put(@, e.transaction,
                             [from |-> e.from, to |-> e.to,
                              amount |-> e.amount, status |-> "POSTED"])]

\* An invoice issued again under the same id replaces the first one.
CreateInvoice(b, e) == [b EXCEPT !.invoices = Put(@, e.invoice, "ISSUED")]

\* A payment for an invoice nobody issued is accepted and changes no invoice.
RecordPayment(b, e) ==
    [b EXCEPT !.invoices = IF e.invoice \in DOMAIN @
                             THEN [@ EXCEPT ![e.invoice] = "PAID"]
                             ELSE @]

CreateObligation(b, e) ==
    [b EXCEPT !.liabilities = @ \cup {e.obligation}]

\* Decisions are recorded, for any transaction id, and read by no operation.
Decide(b, e, approved) ==
    [b EXCEPT !.approvals = Put(@, e.transaction, approved)]

\* accounts.get(account, 0)
BalanceOf(b, a) == IF a \in DOMAIN b.accounts THEN b.accounts[a] ELSE 0

\* Variant: a transaction that was reversed may be reversed again.
CanReverseAgain(b, e) ==
    /\ e.transaction \in DOMAIN b.transactions
    /\ LET original == b.transactions[e.transaction]
       IN  /\ Quantizable(original.amount)
           /\ BalanceOf(b, original.to) >= Quantize(original.amount)

CanReverse(b, e) ==
    /\ e.transaction \in DOMAIN b.transactions
    /\ LET original == b.transactions[e.transaction]
       IN  /\ original.status # "REVERSED"
           /\ Quantizable(original.amount)
           /\ BalanceOf(b, original.to) >= Quantize(original.amount)

\* The inverse transfer. Nothing compares the credited balance with the cap.
ReversePosting(b, e) ==
    LET original == b.transactions[e.transaction]
    IN  [b EXCEPT
            !.accounts = Move(@, original.to, original.from,
                              Quantize(original.amount)),
            !.transactions = [@ EXCEPT ![e.transaction].status = "REVERSED"]]

-----------------------------------------------------------------------------
\* Variant: the checks of one operation are skipped.
AcceptsAnyPosting(b, e) ==
    \/ e.operation = "CREATE_ACCOUNT" /\ CanCreateAccount(b, e)
    \/ e.operation = "POST_TRANSACTION" /\ {e.from, e.to} \subseteq DOMAIN b.accounts
    \/ e.operation = "REVERSE_TRANSACTION" /\ CanReverse(b, e)
    \/ e.operation \in {"CREATE_INVOICE", "RECORD_PAYMENT", "CREATE_OBLIGATION",
                        "APPROVE_TRANSACTION", "REJECT_TRANSACTION"}

\* _apply_event_to_memory(): whether the event is accepted, and the books
\* after it.
Accepts(b, e) ==
    \/ e.operation = "CREATE_ACCOUNT" /\ CanCreateAccount(b, e)
    \/ e.operation = "POST_TRANSACTION" /\ CanPost(b, e)
    \/ e.operation = "REVERSE_TRANSACTION" /\ CanReverse(b, e)
    \/ e.operation \in {"CREATE_INVOICE", "RECORD_PAYMENT", "CREATE_OBLIGATION",
                        "APPROVE_TRANSACTION", "REJECT_TRANSACTION"}

Effect(b, e) ==
    CASE e.operation = "CREATE_ACCOUNT"      -> CreateAccount(b, e)
      [] e.operation = "POST_TRANSACTION"    -> Post(b, e)
      [] e.operation = "CREATE_INVOICE"      -> CreateInvoice(b, e)
      [] e.operation = "RECORD_PAYMENT"      -> RecordPayment(b, e)
      [] e.operation = "CREATE_OBLIGATION"   -> CreateObligation(b, e)
      [] e.operation = "APPROVE_TRANSACTION" -> Decide(b, e, TRUE)
      [] e.operation = "REJECT_TRANSACTION"  -> Decide(b, e, FALSE)
      [] e.operation = "REVERSE_TRANSACTION" -> ReversePosting(b, e)
=============================================================================
