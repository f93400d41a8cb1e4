-------------------------- MODULE TwinLedgerProofs --------------------------
(***************************************************************************)
(* Proofs about the business rules of the finance twin, for any accounts,  *)
(* amounts and limits. The invariant IInv is inductive: a reversal finds   *)
(* both accounts and an amount that rounds because TransfersSound keeps    *)
(* what the posting checked.                                               *)
(***************************************************************************)
EXTENDS TwinLedger, DataLemmas

-----------------------------------------------------------------------------
\* Rounding: an accepted amount becomes a whole number of quanta.
LEMMA QuantizeNat ==
    ASSUME NEW raw \in RawAmounts, Quantizable(raw)
    PROVE  Quantize(raw) \in Nat
<1>1. raw \in Int /\ 0 <= raw
    BY AmountsAssumption DEF Quantizable
<1>2. raw \div 2 \in Nat
    BY <1>1, SMT
<1>. QED
    BY <1>2 DEF Quantize

\* quantize_money(): the whole number of quanta nearest to the amount given,
\* the even one of two that are equally near, and never above MAX_BALANCE.
THEOREM RoundsToNearest ==
    ASSUME NEW raw \in RawAmounts, Quantizable(raw)
    PROVE  /\ 2 * Quantize(raw) - raw \in {-1, 0, 1}
           /\ 2 * Quantize(raw) # raw => Quantize(raw) % 2 = 0
           /\ Quantize(raw) <= MaxBalance
<1>1. raw \in Int /\ 0 <= raw /\ raw <= 2 * MaxBalance /\ MaxBalance \in Nat
    BY AmountsAssumption DEF Quantizable
<1>2. PICK q \in Nat : q = raw \div 2
    BY <1>1, SMT
<1>3. raw = 2 * q + (raw % 2) /\ raw % 2 \in {0, 1}
    BY <1>1, <1>2, SMT
<1>4. q % 2 \in {0, 1}
    BY <1>2, SMT
<1>5. CASE raw % 2 = 1 /\ q % 2 = 1
    <2>1. Quantize(raw) = q + 1
        BY <1>2, <1>5 DEF Quantize
    <2>2. (q + 1) % 2 = 0
        BY <1>2, <1>5, SMT
    <2>. QED
        BY <1>1, <1>2, <1>3, <1>5, <2>1, <2>2
<1>6. CASE ~(raw % 2 = 1 /\ q % 2 = 1)
    <2>1. Quantize(raw) = q
        BY <1>2, <1>6 DEF Quantize
    <2>. QED
        BY <1>1, <1>2, <1>3, <1>4, <1>6, <2>1
<1>. QED
    BY <1>5, <1>6

-----------------------------------------------------------------------------
\* Dictionaries.
LEMMA EmptyIsDict ==
    ASSUME NEW Keys, NEW Values
    PROVE  IsDict(EmptyDict, Keys, Values)
BY DEF IsDict, EmptyDict

LEMMA PutIsDict ==
    ASSUME NEW Keys, NEW Values, NEW f, IsDict(f, Keys, Values),
           NEW key \in Keys, NEW value \in Values
    PROVE  IsDict(Put(f, key, value), Keys, Values)
BY DEF IsDict, Put

LEMMA PutEntries ==
    ASSUME NEW f, NEW key, NEW value
    PROVE  /\ DOMAIN Put(f, key, value) = DOMAIN f \cup {key}
           /\ Put(f, key, value)[key] = value
           /\ \A k \in DOMAIN f \ {key} : Put(f, key, value)[k] = f[k]
BY DEF Put

\* An entry that is there is replaced.
LEMMA ExceptIsDict ==
    ASSUME NEW Keys, NEW Values, NEW f, IsDict(f, Keys, Values),
           NEW key \in DOMAIN f, NEW value \in Values
    PROVE  IsDict([f EXCEPT ![key] = value], Keys, Values)
BY DEF IsDict

\* A transfer the source can pay keeps every balance a natural number.
LEMMA MoveIsDict ==
    ASSUME NEW accounts, IsDict(accounts, AccountIds, Nat),
           NEW from \in DOMAIN accounts, NEW to \in DOMAIN accounts, from # to,
           NEW amount \in Nat, accounts[from] >= amount,
           NEW moved, moved = Move(accounts, from, to, amount)
    PROVE  /\ IsDict(moved, AccountIds, Nat)
           /\ DOMAIN moved = DOMAIN accounts
           /\ moved[from] = accounts[from] - amount
           /\ moved[to] = accounts[to] + amount
           /\ \A a \in DOMAIN accounts \ {from, to} : moved[a] = accounts[a]
<1>1. \A a \in DOMAIN accounts : accounts[a] \in Nat
    BY DEF IsDict
<1>2. DOMAIN moved = DOMAIN accounts
    BY DEF Move
<1>3. \A a \in DOMAIN accounts :
        moved[a] = accounts[a] - (IF a = from THEN amount ELSE 0)
                               + (IF a = to THEN amount ELSE 0)
    BY DEF Move
<1>4. moved[from] = accounts[from] - amount
    BY <1>1, <1>3
<1>5. moved[to] = accounts[to] + amount
    BY <1>1, <1>3
<1>6. \A a \in DOMAIN accounts \ {from, to} : moved[a] = accounts[a]
    BY <1>1, <1>3
<1>7. \A a \in DOMAIN accounts : moved[a] \in Nat
    BY <1>1, <1>4, <1>5, <1>6
<1>8. moved = [a \in DOMAIN moved |-> moved[a]]
    BY DEF Move
<1>9. IsDict(moved, AccountIds, Nat)
    BY <1>2, <1>7, <1>8 DEF IsDict
<1>. QED
    BY <1>2, <1>4, <1>5, <1>6, <1>9

-----------------------------------------------------------------------------
\* Books are well formed when each of their five fields is.
LEMMA BooksFrom ==
    ASSUME NEW acc, IsDict(acc, AccountIds, Nat),
           NEW txs, IsDict(txs, TransactionIds, Transfers),
           NEW inv, IsDict(inv, InvoiceIds, {"ISSUED", "PAID"}),
           NEW lia, lia \subseteq ObligationIds,
           NEW app, IsDict(app, TransactionIds, BOOLEAN)
    PROVE  BooksOK([accounts |-> acc, transactions |-> txs, invoices |-> inv,
                    liabilities |-> lia, approvals |-> app])
<1>1. PICK b : b = [accounts |-> acc, transactions |-> txs, invoices |-> inv,
                    liabilities |-> lia, approvals |-> app]
    OBVIOUS
<1>2. /\ b.accounts = acc /\ b.transactions = txs /\ b.invoices = inv
      /\ b.liabilities = lia /\ b.approvals = app
    BY <1>1
<1>3. BooksOK(b)
    BY <1>1, <1>2, Zenon DEF BooksOK
<1>. QED
    BY <1>1, <1>3, Zenon

\* Assignments to fields of the books leave a record with the same fields.
LEMMA BooksExcept ==
    ASSUME NEW b, BooksOK(b), NEW x, NEW y
    PROVE  /\ [b EXCEPT !.accounts = x] =
                 [accounts |-> x, transactions |-> b.transactions,
                  invoices |-> b.invoices, liabilities |-> b.liabilities,
                  approvals |-> b.approvals]
           /\ [b EXCEPT !.accounts = x, !.transactions = y] =
                 [accounts |-> x, transactions |-> y,
                  invoices |-> b.invoices, liabilities |-> b.liabilities,
                  approvals |-> b.approvals]
           /\ [b EXCEPT !.invoices = x] =
                 [accounts |-> b.accounts, transactions |-> b.transactions,
                  invoices |-> x, liabilities |-> b.liabilities,
                  approvals |-> b.approvals]
           /\ [b EXCEPT !.liabilities = x] =
                 [accounts |-> b.accounts, transactions |-> b.transactions,
                  invoices |-> b.invoices, liabilities |-> x,
                  approvals |-> b.approvals]
           /\ [b EXCEPT !.approvals = x] =
                 [accounts |-> b.accounts, transactions |-> b.transactions,
                  invoices |-> b.invoices, liabilities |-> b.liabilities,
                  approvals |-> x]
<1>1. PICK acc, txs, inv, lia, app :
        b = [accounts |-> acc, transactions |-> txs, invoices |-> inv,
             liabilities |-> lia, approvals |-> app]
    BY Zenon DEF BooksOK
<1>2. /\ acc = b.accounts /\ txs = b.transactions /\ inv = b.invoices
      /\ lia = b.liabilities /\ app = b.approvals
    BY <1>1
<1>3. [b EXCEPT !.accounts = x] =
        [accounts |-> x, transactions |-> txs, invoices |-> inv,
         liabilities |-> lia, approvals |-> app]
    BY <1>1
<1>4. [b EXCEPT !.accounts = x, !.transactions = y] =
        [accounts |-> x, transactions |-> y, invoices |-> inv,
         liabilities |-> lia, approvals |-> app]
    <2>1. PICK c : c = [b EXCEPT !.accounts = x]
        OBVIOUS
    <2>2. c = [accounts |-> x, transactions |-> txs, invoices |-> inv,
               liabilities |-> lia, approvals |-> app]
        BY <1>3, <2>1, Zenon
    <2>3. [c EXCEPT !.transactions = y] =
            [accounts |-> x, transactions |-> y, invoices |-> inv,
             liabilities |-> lia, approvals |-> app]
        BY <2>2
    <2>. QED
        BY <2>1, <2>3, Zenon
<1>5. [b EXCEPT !.invoices = x] =
        [accounts |-> acc, transactions |-> txs, invoices |-> x,
         liabilities |-> lia, approvals |-> app]
    BY <1>1
<1>6. [b EXCEPT !.liabilities = x] =
        [accounts |-> acc, transactions |-> txs, invoices |-> inv,
         liabilities |-> x, approvals |-> app]
    BY <1>1
<1>7. [b EXCEPT !.approvals = x] =
        [accounts |-> acc, transactions |-> txs, invoices |-> inv,
         liabilities |-> lia, approvals |-> x]
    BY <1>1
<1>. QED
    BY <1>2, <1>3, <1>4, <1>5, <1>6, <1>7, Zenon

\* Hence the fields after each operation.
LEMMA PostFields ==
    ASSUME NEW b, BooksOK(b), NEW e
    PROVE  Post(b, e) =
             [accounts |-> Move(b.accounts, e.from, e.to, Quantize(e.amount)),
              transactions |-> Put(b.transactions, e.transaction,
                                   [from |-> e.from, to |-> e.to,
                                    amount |-> e.amount, status |-> "POSTED"]),
              invoices |-> b.invoices, liabilities |-> b.liabilities,
              approvals |-> b.approvals]
<1>. DEFINE x == Move(b.accounts, e.from, e.to, Quantize(e.amount))
            y == Put(b.transactions, e.transaction,
                     [from |-> e.from, to |-> e.to,
                      amount |-> e.amount, status |-> "POSTED"])
<1>1. Post(b, e) = [b EXCEPT !.accounts = x, !.transactions = y]
    BY Zenon DEF Post
<1>. HIDE DEF x, y
<1>2. Post(b, e) =
        [accounts |-> x, transactions |-> y, invoices |-> b.invoices,
         liabilities |-> b.liabilities, approvals |-> b.approvals]
    BY <1>1, BooksExcept, Zenon
<1>. QED
    BY <1>2, Zenon DEF x, y

LEMMA ReverseFields ==
    ASSUME NEW b, BooksOK(b), NEW e
    PROVE  LET original == b.transactions[e.transaction]
           IN  ReversePosting(b, e) =
             [accounts |-> Move(b.accounts, original.to, original.from,
                                Quantize(original.amount)),
              transactions |->
                [b.transactions EXCEPT ![e.transaction].status = "REVERSED"],
              invoices |-> b.invoices, liabilities |-> b.liabilities,
              approvals |-> b.approvals]
<1>. DEFINE original == b.transactions[e.transaction]
            x == Move(b.accounts, original.to, original.from,
                      Quantize(original.amount))
            y == [b.transactions EXCEPT ![e.transaction].status = "REVERSED"]
<1>1. ReversePosting(b, e) = [b EXCEPT !.accounts = x, !.transactions = y]
    BY Zenon DEF ReversePosting
<1>. HIDE DEF x, y
<1>2. ReversePosting(b, e) =
        [accounts |-> x, transactions |-> y, invoices |-> b.invoices,
         liabilities |-> b.liabilities, approvals |-> b.approvals]
    BY <1>1, BooksExcept, Zenon
<1>. QED
    BY <1>2, Zenon DEF x, y

\* An accepted event leaves well-formed books, whoever tries it on whichever
\* books: the live ones, or the copy a command is validated on.
LEMMA EffectOK ==
    ASSUME NEW b, BooksOK(b), NEW e \in Events, Accepts(b, e),
           \A t \in DOMAIN b.transactions :
              LET tx == b.transactions[t]
              IN  /\ {tx.from, tx.to} \subseteq DOMAIN b.accounts
                  /\ tx.from # tx.to
                  /\ Quantizable(tx.amount)
    PROVE  BooksOK(Effect(b, e))
<1>1. /\ IsDict(b.accounts, AccountIds, Nat)
      /\ IsDict(b.transactions, TransactionIds, Transfers)
      /\ IsDict(b.invoices, InvoiceIds, {"ISSUED", "PAID"})
      /\ b.liabilities \subseteq ObligationIds
      /\ IsDict(b.approvals, TransactionIds, BOOLEAN)
    BY DEF BooksOK
<1>2. CASE e \in CreateAccountEvents
    <2>1. e.operation = "CREATE_ACCOUNT" /\ e.account \in AccountIds /\ e.balance \in RawAmounts
        BY <1>2 DEF CreateAccountEvents
    <2>2. Quantize(e.balance) \in Nat
        BY <2>1, QuantizeNat DEF Accepts, CanCreateAccount
    <2>. DEFINE acc == Put(b.accounts, e.account, Quantize(e.balance))
    <2>3. IsDict(acc, AccountIds, Nat)
        BY <1>1, <2>1, <2>2, PutIsDict, Zenon
    <2>4. Effect(b, e) = [b EXCEPT !.accounts = acc]
        BY <2>1 DEF Effect, CreateAccount
    <2>. HIDE DEF acc
    <2>5. [b EXCEPT !.accounts = acc] =
            [accounts |-> acc, transactions |-> b.transactions,
             invoices |-> b.invoices, liabilities |-> b.liabilities,
             approvals |-> b.approvals]
        BY BooksExcept, Zenon
    <2>6. BooksOK([accounts |-> acc, transactions |-> b.transactions,
                   invoices |-> b.invoices, liabilities |-> b.liabilities,
                   approvals |-> b.approvals])
        BY <1>1, <2>3, BooksFrom, Zenon
    <2>. QED
        BY <2>4, <2>5, <2>6, Zenon
<1>3. CASE e \in PostEvents
    <2>1. /\ e.operation = "POST_TRANSACTION" /\ e.transaction \in TransactionIds
          /\ e.from \in AccountIds /\ e.to \in AccountIds /\ e.amount \in RawAmounts
        BY <1>3 DEF PostEvents
    <2>2. CanPost(b, e)
        BY <2>1 DEF Accepts
    <2>3. /\ e.from \in DOMAIN b.accounts /\ e.to \in DOMAIN b.accounts /\ e.from # e.to
          /\ b.accounts[e.from] >= Quantize(e.amount) /\ Quantizable(e.amount)
        BY <2>2 DEF CanPost
    <2>4. Quantize(e.amount) \in Nat
        BY <2>1, <2>3, QuantizeNat
    <2>. DEFINE acc == Move(b.accounts, e.from, e.to, Quantize(e.amount))
                tx == [from |-> e.from, to |-> e.to, amount |-> e.amount, status |-> "POSTED"]
                txs == Put(b.transactions, e.transaction, tx)
    <2>5. IsDict(acc, AccountIds, Nat)
        BY <1>1, <2>3, <2>4, MoveIsDict
    <2>6. tx \in Transfers
        BY <2>1 DEF Transfers
    <2>7. IsDict(txs, TransactionIds, Transfers)
        <3>. HIDE DEF tx
        <3>. QED
            BY <1>1, <2>1, <2>6, PutIsDict, Zenon
    <2>8. Effect(b, e) = [accounts |-> acc, transactions |-> txs, invoices |-> b.invoices,
                          liabilities |-> b.liabilities, approvals |-> b.approvals]
        <3>1. Effect(b, e) = Post(b, e)
            BY <2>1 DEF Effect
        <3>. QED
            BY <3>1, PostFields, Zenon
    <2>. HIDE DEF acc, txs
    <2>. QED
        BY <1>1, <2>5, <2>7, <2>8, BooksFrom, Zenon
<1>4. CASE e \in ReverseEvents
    <2>. DEFINE id == e.transaction
                tx == b.transactions[id]
                acc == Move(b.accounts, tx.to, tx.from, Quantize(tx.amount))
                reversed == [tx EXCEPT !.status = "REVERSED"]
                txs == [b.transactions EXCEPT ![id].status = "REVERSED"]
    <2>1. e.operation = "REVERSE_TRANSACTION"
        BY <1>4 DEF ReverseEvents
    <2>2. id \in DOMAIN b.transactions /\ BalanceOf(b, tx.to) >= Quantize(tx.amount)
        BY <2>1 DEF Accepts, CanReverse
    <2>3. tx \in Transfers /\ tx.amount \in RawAmounts
        BY <1>1, <2>2 DEF IsDict, Transfers
    <2>4. /\ tx.from \in DOMAIN b.accounts /\ tx.to \in DOMAIN b.accounts /\ tx.from # tx.to
          /\ Quantizable(tx.amount)
        BY <2>2
    <2>5. Quantize(tx.amount) \in Nat /\ b.accounts[tx.to] >= Quantize(tx.amount)
        BY <2>2, <2>3, <2>4, QuantizeNat DEF BalanceOf
    <2>6. IsDict(acc, AccountIds, Nat)
        <3>. HIDE DEF tx
        <3>. QED
            BY <1>1, <2>4, <2>5, MoveIsDict
    <2>7. reversed \in Transfers /\ txs = [b.transactions EXCEPT ![id] = reversed]
        BY <2>2, <2>3 DEF Transfers
    <2>8. IsDict(txs, TransactionIds, Transfers)
        <3>. HIDE DEF reversed, txs
        <3>. QED
            BY <1>1, <2>2, <2>7, ExceptIsDict, Zenon
    <2>9. Effect(b, e) = [accounts |-> acc, transactions |-> txs, invoices |-> b.invoices,
                          liabilities |-> b.liabilities, approvals |-> b.approvals]
        <3>1. Effect(b, e) = ReversePosting(b, e)
            BY <2>1 DEF Effect
        <3>. QED
            BY <3>1, ReverseFields, Zenon
    <2>. HIDE DEF acc, txs
    <2>. QED
        BY <1>1, <2>6, <2>8, <2>9, BooksFrom, Zenon
<1>5. ASSUME NEW inv, IsDict(inv, InvoiceIds, {"ISSUED", "PAID"})
      PROVE  BooksOK([b EXCEPT !.invoices = inv])
    <2>1. [b EXCEPT !.invoices = inv] =
            [accounts |-> b.accounts, transactions |-> b.transactions,
             invoices |-> inv, liabilities |-> b.liabilities,
             approvals |-> b.approvals]
        BY BooksExcept, Zenon
    <2>2. BooksOK([accounts |-> b.accounts, transactions |-> b.transactions,
                   invoices |-> inv, liabilities |-> b.liabilities,
                   approvals |-> b.approvals])
        BY <1>1, <1>5, BooksFrom, Zenon
    <2>. QED
        BY <2>1, <2>2, Zenon
<1>6. ASSUME NEW lia, lia \subseteq ObligationIds
      PROVE  BooksOK([b EXCEPT !.liabilities = lia])
    <2>1. [b EXCEPT !.liabilities = lia] =
            [accounts |-> b.accounts, transactions |-> b.transactions,
             invoices |-> b.invoices, liabilities |-> lia,
             approvals |-> b.approvals]
        BY BooksExcept, Zenon
    <2>2. BooksOK([accounts |-> b.accounts, transactions |-> b.transactions,
                   invoices |-> b.invoices, liabilities |-> lia,
                   approvals |-> b.approvals])
        BY <1>1, <1>6, BooksFrom, Zenon
    <2>. QED
        BY <2>1, <2>2, Zenon
<1>7. ASSUME NEW app, IsDict(app, TransactionIds, BOOLEAN)
      PROVE  BooksOK([b EXCEPT !.approvals = app])
    <2>1. [b EXCEPT !.approvals = app] =
            [accounts |-> b.accounts, transactions |-> b.transactions,
             invoices |-> b.invoices, liabilities |-> b.liabilities,
             approvals |-> app]
        BY BooksExcept, Zenon
    <2>2. BooksOK([accounts |-> b.accounts, transactions |-> b.transactions,
                   invoices |-> b.invoices, liabilities |-> b.liabilities,
                   approvals |-> app])
        BY <1>1, <1>7, BooksFrom, Zenon
    <2>. QED
        BY <2>1, <2>2, Zenon
<1>8. CASE e \in InvoiceEvents
    <2>1. e.operation = "CREATE_INVOICE" /\ e.invoice \in InvoiceIds
        BY <1>8 DEF InvoiceEvents
    <2>2. IsDict(Put(b.invoices, e.invoice, "ISSUED"), InvoiceIds, {"ISSUED", "PAID"})
        BY <1>1, <2>1 DEF IsDict, Put
    <2>3. Effect(b, e) = [b EXCEPT !.invoices = Put(b.invoices, e.invoice, "ISSUED")]
        BY <2>1 DEF Effect, CreateInvoice
    <2>. QED
        BY <1>5, <2>2, <2>3, Zenon
<1>9. CASE e \in PaymentEvents
    <2>. DEFINE inv == IF e.invoice \in DOMAIN b.invoices
                         THEN [b.invoices EXCEPT ![e.invoice] = "PAID"] ELSE b.invoices
    <2>1. e.operation = "RECORD_PAYMENT" /\ e.invoice \in InvoiceIds
        BY <1>9 DEF PaymentEvents
    <2>2. IsDict(inv, InvoiceIds, {"ISSUED", "PAID"})
        BY <1>1 DEF IsDict
    <2>3. Effect(b, e) = [b EXCEPT !.invoices = inv]
        BY <2>1 DEF Effect, RecordPayment
    <2>. HIDE DEF inv
    <2>. QED
        BY <1>5, <2>2, <2>3, Zenon
<1>10. CASE e \in ObligationEvents
    <2>1. e.operation = "CREATE_OBLIGATION" /\ e.obligation \in ObligationIds
        BY <1>10 DEF ObligationEvents
    <2>2. b.liabilities \cup {e.obligation} \subseteq ObligationIds
        BY <1>1, <2>1
    <2>3. Effect(b, e) = [b EXCEPT !.liabilities = b.liabilities \cup {e.obligation}]
        BY <2>1 DEF Effect, CreateObligation
    <2>. QED
        BY <1>6, <2>2, <2>3, Zenon
<1>11. CASE e \in ApproveEvents \cup RejectEvents
    <2>1. /\ e.operation \in {"APPROVE_TRANSACTION", "REJECT_TRANSACTION"}
          /\ e.transaction \in TransactionIds
        BY <1>11 DEF ApproveEvents, RejectEvents
    <2>2. ASSUME NEW v \in BOOLEAN
          PROVE  BooksOK([b EXCEPT !.approvals = Put(b.approvals, e.transaction, v)])
        <3>1. IsDict(Put(b.approvals, e.transaction, v), TransactionIds, BOOLEAN)
            BY <1>1, <2>1, PutIsDict, Zenon
        <3>. QED
            BY <1>7, <3>1, Zenon
    <2>3. \/ Effect(b, e) = [b EXCEPT !.approvals = Put(b.approvals, e.transaction, TRUE)]
          \/ Effect(b, e) = [b EXCEPT !.approvals = Put(b.approvals, e.transaction, FALSE)]
        BY <2>1 DEF Effect, Decide
    <2>4. TRUE \in BOOLEAN /\ FALSE \in BOOLEAN
        OBVIOUS
    <2>. QED
        BY <2>2, <2>3, <2>4, Zenon
<1>12. e # Malformed
    BY DEF Accepts, Malformed
<1>. QED
    BY <1>2, <1>3, <1>4, <1>8, <1>9, <1>10, <1>11, <1>12 DEF Events

-----------------------------------------------------------------------------
(***************************************************************************)
(* What the steps do to the accounts and to the transactions in force, for *)
(* the sums over them.                                                     *)
(***************************************************************************)
Posted(b) == {t \in DOMAIN b.transactions : b.transactions[t].status = "POSTED"}

\* An account is opened with the balance that is written down.
Opening ==
    \E a : /\ a \notin DOMAIN books.accounts
           /\ DOMAIN books'.accounts = DOMAIN books.accounts \cup {a}
           /\ \A x \in DOMAIN books.accounts : books'.accounts[x] = books.accounts[x]
           /\ books'.transactions = books.transactions
           /\ opened' = Put(opened, a, books'.accounts[a])

\* c has one transaction in force more than b, and the money of it moved.
Paying(b, c) ==
    \E id, from, to, amount :
        /\ amount \in Nat /\ from # to
        /\ DOMAIN c.accounts = DOMAIN b.accounts /\ {from, to} \subseteq DOMAIN b.accounts
        /\ c.accounts[from] = b.accounts[from] - amount
        /\ c.accounts[to] = b.accounts[to] + amount
        /\ \A x \in DOMAIN b.accounts \ {from, to} : c.accounts[x] = b.accounts[x]
        /\ id \notin Posted(b) /\ Posted(c) = Posted(b) \cup {id}
        /\ \A t \in Posted(b) : /\ c.transactions[t].from = b.transactions[t].from
                                /\ c.transactions[t].to = b.transactions[t].to
                                /\ c.transactions[t].amount = b.transactions[t].amount
        /\ c.transactions[id].from = from /\ c.transactions[id].to = to
        /\ Quantize(c.transactions[id].amount) = amount

Untouched ==
    /\ books'.accounts = books.accounts /\ books'.transactions = books.transactions
    /\ opened' = opened

-----------------------------------------------------------------------------
LEMMA InitInvariant == Init => IInv
<1>. SUFFICES ASSUME Init PROVE IInv
    OBVIOUS
<1>1. /\ books = EmptyBooks
      /\ books.accounts = EmptyDict /\ books.transactions = EmptyDict
      /\ books.invoices = EmptyDict /\ books.liabilities = {}
      /\ books.approvals = EmptyDict /\ opened = EmptyDict
    BY DEF Init, EmptyBooks
<1>2. books = [accounts |-> books.accounts, transactions |-> books.transactions,
               invoices |-> books.invoices, liabilities |-> books.liabilities,
               approvals |-> books.approvals]
    BY <1>1, Zenon DEF EmptyBooks
<1>3. TypeOK
    BY <1>1, <1>2, EmptyIsDict, Zenon DEF TypeOK, BooksOK
<1>4. TransfersSound
    BY <1>1 DEF TransfersSound, EmptyDict
<1>. QED
    BY <1>3, <1>4 DEF IInv

\* Types of what the books hold.
LEMMA BookEntries ==
    ASSUME IInv
    PROVE  /\ BooksOK(books)
           /\ IsDict(opened, AccountIds, Nat)
           /\ \A a \in DOMAIN books.accounts : books.accounts[a] \in Nat
           /\ \A t \in DOMAIN books.transactions :
                 LET tx == books.transactions[t]
                 IN  /\ tx \in Transfers
                     /\ tx.amount \in RawAmounts
                     /\ Quantizable(tx.amount)
                     /\ Quantize(tx.amount) \in Nat
                     /\ tx.from \in DOMAIN books.accounts
                     /\ tx.to \in DOMAIN books.accounts
                     /\ tx.from # tx.to
<1>1. BooksOK(books) /\ IsDict(opened, AccountIds, Nat)
    BY DEF IInv, TypeOK
<1>2. \A a \in DOMAIN books.accounts : books.accounts[a] \in Nat
    BY <1>1 DEF BooksOK, IsDict
<1>3. ASSUME NEW t \in DOMAIN books.transactions
      PROVE  LET tx == books.transactions[t]
             IN  /\ tx \in Transfers
                 /\ tx.amount \in RawAmounts
                 /\ Quantizable(tx.amount)
                 /\ Quantize(tx.amount) \in Nat
                 /\ tx.from \in DOMAIN books.accounts
                 /\ tx.to \in DOMAIN books.accounts
                 /\ tx.from # tx.to
    <2>. DEFINE tx == books.transactions[t]
    <2>1. tx \in Transfers
        BY <1>1 DEF BooksOK, IsDict
    <2>2. tx.amount \in RawAmounts
        BY <2>1 DEF Transfers
    <2>3. /\ {tx.from, tx.to} \subseteq DOMAIN books.accounts
          /\ tx.from # tx.to
          /\ Quantizable(tx.amount)
        BY DEF IInv, TransfersSound
    <2>4. Quantize(tx.amount) \in Nat
        BY <2>2, <2>3, QuantizeNat
    <2>. QED
        BY <2>1, <2>2, <2>3, <2>4
<1>. QED
    BY <1>1, <1>2, <1>3

\* Operations that leave accounts and transactions alone keep the invariant
\* and both step properties, whatever they do to the rest of the books.
LEMMA OtherFields ==
    ASSUME IInv, BooksOK(books'), UNCHANGED opened,
           books'.accounts = books.accounts,
           books'.transactions = books.transactions
    PROVE  IInv' /\ MovesMoney /\ KeepsTransactions /\ Untouched
<1>1. IInv'
    BY DEF IInv, TypeOK, TransfersSound
<1>2. MovesMoney
    BY DEF MovesMoney
<1>3. KeepsTransactions
    BY DEF KeepsTransactions
<1>. QED
    BY <1>1, <1>2, <1>3 DEF Untouched

LEMMA OpenAccountStep ==
    ASSUME IInv, NEW e \in CreateAccountEvents, OpenAccount(e)
    PROVE  IInv' /\ MovesMoney /\ KeepsTransactions /\ Opening
<1>. DEFINE balance == Quantize(e.balance)
            accounts == Put(books.accounts, e.account, balance)
<1>1. e.account \in AccountIds /\ e.balance \in RawAmounts
    BY DEF CreateAccountEvents
<1>2. e.account \notin DOMAIN books.accounts /\ balance \in Nat
    BY <1>1, QuantizeNat DEF OpenAccount, CanCreateAccount
<1>3. BooksOK(books) /\ IsDict(opened, AccountIds, Nat)
    BY BookEntries
<1>4. books' = [books EXCEPT !.accounts = accounts]
    BY Zenon DEF OpenAccount, CreateAccount
<1>. HIDE DEF balance, accounts
<1>5. books' = [accounts |-> accounts, transactions |-> books.transactions,
                invoices |-> books.invoices, liabilities |-> books.liabilities,
                approvals |-> books.approvals]
    BY <1>3, <1>4, BooksExcept, Zenon
<1>6. IsDict(books.accounts, AccountIds, Nat)
    BY <1>3 DEF BooksOK
<1>7. /\ IsDict(accounts, AccountIds, Nat)
      /\ DOMAIN accounts = DOMAIN books.accounts \cup {e.account}
      /\ \A a \in DOMAIN books.accounts : accounts[a] = books.accounts[a]
    <2>1. IsDict(accounts, AccountIds, Nat)
        BY <1>1, <1>2, <1>6, PutIsDict, Zenon DEF accounts
    <2>2. /\ DOMAIN accounts = DOMAIN books.accounts \cup {e.account}
          /\ \A a \in DOMAIN books.accounts \ {e.account} :
                accounts[a] = books.accounts[a]
        BY DEF Put, accounts
    <2>. QED
        BY <1>2, <2>1, <2>2
<1>8. IsDict(opened', AccountIds, Nat)
    BY <1>1, <1>2, <1>3, PutIsDict DEF OpenAccount, balance
<1>9. BooksOK(books')
    BY <1>3, <1>5, <1>7, BooksFrom, Zenon DEF BooksOK
<1>10. TransfersSound'
    BY <1>5, <1>7 DEF IInv, TransfersSound
<1>11. MovesMoney
    BY <1>5, <1>7 DEF MovesMoney
<1>12. KeepsTransactions
    BY <1>5 DEF KeepsTransactions
<1>13. Opening
    <2>1. accounts[e.account] = balance
        BY DEF Put, accounts
    <2>2. opened' = Put(opened, e.account, balance)
        BY DEF OpenAccount, balance
    <2>. QED
        BY <1>2, <1>5, <1>7, <2>1, <2>2 DEF Opening
<1>. QED
    BY <1>8, <1>9, <1>10, <1>11, <1>12, <1>13 DEF IInv, TypeOK

LEMMA PostTransactionStep ==
    ASSUME IInv, NEW e \in PostEvents, PostTransaction(e)
    PROVE  IInv' /\ MovesMoney /\ KeepsTransactions /\ Paying(books, books')
<1>. DEFINE amount == Quantize(e.amount)
            accounts == Move(books.accounts, e.from, e.to, amount)
            tx == [from |-> e.from, to |-> e.to,
                   amount |-> e.amount, status |-> "POSTED"]
            txs == Put(books.transactions, e.transaction, tx)
<1>1. /\ e.transaction \in TransactionIds
      /\ e.from \in AccountIds /\ e.to \in AccountIds
      /\ e.amount \in RawAmounts
    BY DEF PostEvents
<1>2. /\ e.transaction \notin DOMAIN books.transactions
      /\ Quantizable(e.amount)
      /\ e.from \in DOMAIN books.accounts
      /\ e.to \in DOMAIN books.accounts
      /\ e.from # e.to
      /\ books.accounts[e.from] >= amount
      /\ amount <= MaxTransaction
    BY DEF PostTransaction, CanPost
<1>3. amount \in Nat
    BY <1>1, <1>2, QuantizeNat
<1>4. BooksOK(books) /\ IsDict(opened, AccountIds, Nat)
    BY BookEntries
<1>5. /\ IsDict(books.accounts, AccountIds, Nat)
      /\ IsDict(books.transactions, TransactionIds, Transfers)
    BY <1>4 DEF BooksOK
<1>6. books' = [accounts |-> accounts, transactions |-> txs,
                invoices |-> books.invoices, liabilities |-> books.liabilities,
                approvals |-> books.approvals]
    BY <1>4, PostFields, Zenon DEF PostTransaction
<1>7. tx \in Transfers
    BY <1>1 DEF Transfers
<1>8. tx.from = e.from /\ tx.to = e.to /\ tx.amount = e.amount
    OBVIOUS
<1>. HIDE DEF amount, accounts, tx, txs
<1>8a. accounts = Move(books.accounts, e.from, e.to, amount)
    BY Zenon DEF accounts
<1>9. /\ IsDict(accounts, AccountIds, Nat)
      /\ DOMAIN accounts = DOMAIN books.accounts
      /\ accounts[e.from] = books.accounts[e.from] - amount
      /\ accounts[e.to] = books.accounts[e.to] + amount
      /\ \A a \in DOMAIN books.accounts \ {e.from, e.to} :
            accounts[a] = books.accounts[a]
    BY <1>2, <1>3, <1>5, <1>8a, MoveIsDict
<1>10. IsDict(txs, TransactionIds, Transfers)
    BY <1>1, <1>5, <1>7, PutIsDict, Zenon DEF txs
<1>11. /\ DOMAIN txs = DOMAIN books.transactions \cup {e.transaction}
       /\ txs[e.transaction] = tx
       /\ \A t \in DOMAIN books.transactions : txs[t] = books.transactions[t]
    BY <1>2 DEF txs, Put
<1>12. BooksOK(books')
    BY <1>4, <1>6, <1>9, <1>10, BooksFrom, Zenon DEF BooksOK
<1>13. TypeOK'
    BY <1>4, <1>12 DEF TypeOK, PostTransaction
<1>14. books'.accounts = accounts /\ books'.transactions = txs
    BY <1>6
<1>15. TransfersSound'
    <2>1. \A t \in DOMAIN txs :
            /\ {txs[t].from, txs[t].to} \subseteq DOMAIN accounts
            /\ txs[t].from # txs[t].to
            /\ Quantizable(txs[t].amount)
            /\ Quantize(txs[t].amount) <= MaxTransaction
        <3>1. ASSUME NEW t \in DOMAIN books.transactions
              PROVE  /\ {txs[t].from, txs[t].to} \subseteq DOMAIN accounts
                     /\ txs[t].from # txs[t].to
                     /\ Quantizable(txs[t].amount)
                     /\ Quantize(txs[t].amount) <= MaxTransaction
            BY <1>9, <1>11 DEF IInv, TransfersSound
        <3>2. /\ {tx.from, tx.to} \subseteq DOMAIN accounts
              /\ tx.from # tx.to
              /\ Quantizable(tx.amount)
              /\ Quantize(tx.amount) <= MaxTransaction
            BY <1>2, <1>8, <1>9 DEF amount
        <3>. QED
            BY <1>11, <3>1, <3>2
    <2>. QED
        BY <1>14, <2>1 DEF TransfersSound
<1>16. MovesMoney
    <2>1. books.accounts[e.from] \in Nat /\ books.accounts[e.to] \in Nat
        BY <1>2, BookEntries
    <2>2. books.accounts[e.from] - accounts[e.from]
            = accounts[e.to] - books.accounts[e.to]
        BY <1>3, <1>9, <2>1
    <2>. QED
        BY <1>2, <1>9, <1>14, <2>2 DEF MovesMoney
<1>17. KeepsTransactions
    BY <1>11, <1>14 DEF KeepsTransactions
<1>18. Paying(books, books')
    <2>1. tx.status = "POSTED" /\ Quantize(tx.amount) = amount
        BY DEF tx, amount
    <2>2. /\ e.transaction \notin Posted(books)
          /\ Posted(books') = Posted(books) \cup {e.transaction}
        BY <1>2, <1>11, <1>14, <2>1 DEF Posted
    <2>3. \A t \in Posted(books) : txs[t] = books.transactions[t]
        BY <1>11 DEF Posted
    <2>. QED
        BY <1>2, <1>3, <1>8, <1>9, <1>11, <1>14, <2>1, <2>2, <2>3 DEF Paying
<1>. QED
    BY <1>13, <1>15, <1>16, <1>17, <1>18 DEF IInv

LEMMA ReverseTransactionStep ==
    ASSUME IInv, NEW e \in ReverseEvents, ReverseTransaction(e)
    PROVE  IInv' /\ MovesMoney /\ KeepsTransactions /\ Paying(books', books)
<1>. DEFINE id == e.transaction
            tx == books.transactions[id]
            amount == Quantize(tx.amount)
            accounts == Move(books.accounts, tx.to, tx.from, amount)
            reversed == [tx EXCEPT !.status = "REVERSED"]
            txs == [books.transactions EXCEPT ![id].status = "REVERSED"]
<1>1. id \in DOMAIN books.transactions /\ BalanceOf(books, tx.to) >= amount
    BY DEF ReverseTransaction, CanReverse
<1>2. /\ tx \in Transfers /\ amount \in Nat
      /\ tx.from \in DOMAIN books.accounts
      /\ tx.to \in DOMAIN books.accounts
      /\ tx.from # tx.to
    BY <1>1, BookEntries
<1>3. books.accounts[tx.to] >= amount
    BY <1>1, <1>2 DEF BalanceOf
<1>4. BooksOK(books) /\ IsDict(opened, AccountIds, Nat)
    BY BookEntries
<1>5. /\ IsDict(books.accounts, AccountIds, Nat)
      /\ IsDict(books.transactions, TransactionIds, Transfers)
    BY <1>4 DEF BooksOK
<1>6. books' = [accounts |-> accounts, transactions |-> txs,
                invoices |-> books.invoices, liabilities |-> books.liabilities,
                approvals |-> books.approvals]
    BY <1>4, ReverseFields, Zenon DEF ReverseTransaction
<1>7. /\ reversed \in Transfers
      /\ reversed.from = tx.from /\ reversed.to = tx.to
      /\ reversed.amount = tx.amount
    BY <1>2 DEF Transfers
<1>8. /\ txs = [books.transactions EXCEPT ![id] = reversed]
      /\ DOMAIN txs = DOMAIN books.transactions
      /\ txs[id] = reversed
      /\ \A t \in DOMAIN books.transactions \ {id} : txs[t] = books.transactions[t]
    BY <1>1
<1>9. accounts = Move(books.accounts, tx.to, tx.from, amount)
    OBVIOUS
<1>. HIDE DEF amount, accounts, txs, reversed
<1>10. /\ IsDict(accounts, AccountIds, Nat)
       /\ DOMAIN accounts = DOMAIN books.accounts
       /\ accounts[tx.to] = books.accounts[tx.to] - amount
       /\ accounts[tx.from] = books.accounts[tx.from] + amount
       /\ \A a \in DOMAIN books.accounts \ {tx.to, tx.from} :
             accounts[a] = books.accounts[a]
    BY <1>2, <1>3, <1>5, <1>9, MoveIsDict
<1>11. IsDict(txs, TransactionIds, Transfers)
    BY <1>1, <1>5, <1>7, <1>8, ExceptIsDict, Zenon
<1>12. BooksOK(books')
    BY <1>4, <1>6, <1>10, <1>11, BooksFrom, Zenon DEF BooksOK
<1>13. TypeOK'
    BY <1>4, <1>12 DEF TypeOK, ReverseTransaction
<1>14. books'.accounts = accounts /\ books'.transactions = txs
    BY <1>6
<1>15. TransfersSound'
    <2>1. ASSUME NEW t \in DOMAIN txs
          PROVE  /\ {txs[t].from, txs[t].to} \subseteq DOMAIN accounts
                 /\ txs[t].from # txs[t].to
                 /\ Quantizable(txs[t].amount)
                 /\ Quantize(txs[t].amount) <= MaxTransaction
        <3>1. /\ txs[t].from = books.transactions[t].from
              /\ txs[t].to = books.transactions[t].to
              /\ txs[t].amount = books.transactions[t].amount
            BY <1>7, <1>8
        <3>. QED
            BY <1>8, <1>10, <3>1 DEF IInv, TransfersSound
    <2>. QED
        BY <1>14, <2>1 DEF TransfersSound
<1>16. MovesMoney
    <2>1. books.accounts[tx.from] \in Nat /\ books.accounts[tx.to] \in Nat
        BY <1>2, BookEntries
    <2>2. books.accounts[tx.to] - accounts[tx.to]
            = accounts[tx.from] - books.accounts[tx.from]
        BY <1>2, <1>10, <2>1
    <2>. QED
        BY <1>2, <1>10, <1>14, <2>2 DEF MovesMoney
<1>17. KeepsTransactions
    BY <1>8, <1>10, <1>14 DEF KeepsTransactions, amount, reversed
<1>18. Paying(books', books)
    <2>1. tx.status = "POSTED" /\ Quantize(tx.amount) = amount
        <3>1. tx.status # "REVERSED"
            BY DEF ReverseTransaction, CanReverse
        <3>. QED
            BY <1>2, <3>1 DEF Transfers, amount
    <2>2. reversed.status # "POSTED"
        BY <1>2 DEF reversed, Transfers
    <2>3. /\ id \notin Posted(books')
          /\ Posted(books) = Posted(books') \cup {id}
        BY <1>1, <1>8, <1>14, <2>1, <2>2 DEF Posted
    <2>4. \A t \in Posted(books') : txs[t] = books.transactions[t]
        BY <1>8, <1>14, <2>3 DEF Posted
    <2>5. /\ books.accounts[tx.from] = accounts[tx.from] - amount
          /\ books.accounts[tx.to] = accounts[tx.to] + amount
        <3>1. books.accounts[tx.from] \in Nat /\ books.accounts[tx.to] \in Nat
            BY <1>2, BookEntries
        <3>. QED
            BY <1>2, <1>10, <3>1
    <2>. QED
        <3> DEFINE from == tx.from
                   to == tx.to
        <3>1. /\ amount \in Nat /\ from # to
              /\ DOMAIN books.accounts = DOMAIN books'.accounts
              /\ {from, to} \subseteq DOMAIN books'.accounts
              /\ books.accounts[from] = books'.accounts[from] - amount
              /\ books.accounts[to] = books'.accounts[to] + amount
              /\ \A x \in DOMAIN books'.accounts \ {from, to} : books.accounts[x] = books'.accounts[x]
            BY <1>2, <1>10, <1>14, <2>5
        <3>2. /\ \A t \in Posted(books') : /\ books.transactions[t].from = books'.transactions[t].from
                                           /\ books.transactions[t].to = books'.transactions[t].to
                                           /\ books.transactions[t].amount = books'.transactions[t].amount
            BY <1>14, <2>4
        <3>3. /\ books.transactions[id].from = from /\ books.transactions[id].to = to
              /\ Quantize(books.transactions[id].amount) = amount
            BY <2>1
        <3> HIDE DEF from, to, tx, id
        <3> QED
            BY <2>3, <3>1, <3>2, <3>3 DEF Paying
<1>. QED
    BY <1>13, <1>15, <1>16, <1>17, <1>18 DEF IInv

\* The five operations that move no money.
LEMMA RecordKeepingStep ==
    ASSUME IInv,
           \/ \E e \in InvoiceEvents : IssueInvoice(e)
           \/ \E e \in PaymentEvents : PayInvoice(e)
           \/ \E e \in ObligationEvents : Oblige(e)
           \/ \E e \in ApproveEvents : ApproveTransaction(e)
           \/ \E e \in RejectEvents : RejectTransaction(e)
    PROVE  IInv' /\ MovesMoney /\ KeepsTransactions /\ Untouched
<1>1. BooksOK(books)
    BY BookEntries
<1>2. /\ IsDict(books.accounts, AccountIds, Nat)
      /\ IsDict(books.transactions, TransactionIds, Transfers)
      /\ IsDict(books.invoices, InvoiceIds, {"ISSUED", "PAID"})
      /\ books.liabilities \subseteq ObligationIds
      /\ IsDict(books.approvals, TransactionIds, BOOLEAN)
    BY <1>1 DEF BooksOK
<1>3. ASSUME NEW inv, IsDict(inv, InvoiceIds, {"ISSUED", "PAID"}),
             books' = [books EXCEPT !.invoices = inv], UNCHANGED opened
      PROVE  IInv' /\ MovesMoney /\ KeepsTransactions /\ Untouched
    <2>1. books' = [accounts |-> books.accounts,
                    transactions |-> books.transactions, invoices |-> inv,
                    liabilities |-> books.liabilities,
                    approvals |-> books.approvals]
        BY <1>1, <1>3, BooksExcept, Zenon
    <2>2. BooksOK(books')
        BY <1>2, <1>3, <2>1, BooksFrom, Zenon DEF BooksOK
    <2>3. books'.accounts = books.accounts /\ books'.transactions = books.transactions
        BY <2>1
    <2>. QED
        BY <1>3, <2>2, <2>3, OtherFields
<1>4. ASSUME NEW lia, lia \subseteq ObligationIds,
             books' = [books EXCEPT !.liabilities = lia], UNCHANGED opened
      PROVE  IInv' /\ MovesMoney /\ KeepsTransactions /\ Untouched
    <2>1. books' = [accounts |-> books.accounts,
                    transactions |-> books.transactions,
                    invoices |-> books.invoices,
                    liabilities |-> lia, approvals |-> books.approvals]
        BY <1>1, <1>4, BooksExcept, Zenon
    <2>2. BooksOK(books')
        BY <1>2, <1>4, <2>1, BooksFrom, Zenon DEF BooksOK
    <2>3. books'.accounts = books.accounts /\ books'.transactions = books.transactions
        BY <2>1
    <2>. QED
        BY <1>4, <2>2, <2>3, OtherFields
<1>5. ASSUME NEW app, IsDict(app, TransactionIds, BOOLEAN),
             books' = [books EXCEPT !.approvals = app], UNCHANGED opened
      PROVE  IInv' /\ MovesMoney /\ KeepsTransactions /\ Untouched
    <2>1. books' = [accounts |-> books.accounts,
                    transactions |-> books.transactions,
                    invoices |-> books.invoices,
                    liabilities |-> books.liabilities, approvals |-> app]
        BY <1>1, <1>5, BooksExcept, Zenon
    <2>2. BooksOK(books')
        BY <1>2, <1>5, <2>1, BooksFrom, Zenon DEF BooksOK
    <2>3. books'.accounts = books.accounts /\ books'.transactions = books.transactions
        BY <2>1
    <2>. QED
        BY <1>5, <2>2, <2>3, OtherFields
<1>6. ASSUME NEW e \in InvoiceEvents, IssueInvoice(e)
      PROVE  IInv' /\ MovesMoney /\ KeepsTransactions /\ Untouched
    <2>1. e.invoice \in InvoiceIds
        BY DEF InvoiceEvents
    <2>2. IsDict(Put(books.invoices, e.invoice, "ISSUED"), InvoiceIds, {"ISSUED", "PAID"})
        BY <1>2, <2>1 DEF IsDict, Put
    <2>. QED
        BY <1>3, <1>6, <2>2, Zenon DEF IssueInvoice, CreateInvoice
<1>7. ASSUME NEW e \in PaymentEvents, PayInvoice(e)
      PROVE  IInv' /\ MovesMoney /\ KeepsTransactions /\ Untouched
    <2>. DEFINE inv == IF e.invoice \in DOMAIN books.invoices
                         THEN [books.invoices EXCEPT ![e.invoice] = "PAID"]
                         ELSE books.invoices
    <2>1. IsDict(inv, InvoiceIds, {"ISSUED", "PAID"})
        BY <1>2 DEF IsDict
    <2>2. books' = [books EXCEPT !.invoices = inv] /\ UNCHANGED opened
        BY <1>7, Zenon DEF PayInvoice, RecordPayment
    <2>. HIDE DEF inv
    <2>. QED
        BY <1>3, <2>1, <2>2, Zenon
<1>8. ASSUME NEW e \in ObligationEvents, Oblige(e)
      PROVE  IInv' /\ MovesMoney /\ KeepsTransactions /\ Untouched
    <2>1. books.liabilities \cup {e.obligation} \subseteq ObligationIds
        BY <1>2 DEF ObligationEvents
    <2>. QED
        BY <1>4, <1>8, <2>1, Zenon DEF Oblige, CreateObligation
<1>9. ASSUME NEW id \in TransactionIds, NEW approved \in BOOLEAN
      PROVE  IsDict(Put(books.approvals, id, approved), TransactionIds, BOOLEAN)
    BY <1>2, PutIsDict, Zenon
<1>10. ASSUME NEW e \in ApproveEvents, ApproveTransaction(e)
       PROVE  IInv' /\ MovesMoney /\ KeepsTransactions /\ Untouched
    <2>1. e.transaction \in TransactionIds
        BY DEF ApproveEvents
    <2>2. IsDict(Put(books.approvals, e.transaction, TRUE), TransactionIds, BOOLEAN)
        BY <1>9, <2>1, Zenon
    <2>. QED
        BY <1>5, <1>10, <2>2, Zenon DEF ApproveTransaction, Decide
<1>11. ASSUME NEW e \in RejectEvents, RejectTransaction(e)
       PROVE  IInv' /\ MovesMoney /\ KeepsTransactions /\ Untouched
    <2>1. e.transaction \in TransactionIds
        BY DEF RejectEvents
    <2>2. IsDict(Put(books.approvals, e.transaction, FALSE), TransactionIds, BOOLEAN)
        BY <1>9, <2>1, Zenon
    <2>. QED
        BY <1>5, <1>11, <2>2, Zenon DEF RejectTransaction, Decide
<1>. QED
    BY <1>6, <1>7, <1>8, <1>10, <1>11

-----------------------------------------------------------------------------
\* The recursive function that computes the sums over the parts of U.
AddsUp(g, f, U) ==
    g = [s \in SUBSET U |-> IF s = {} THEN 0
                            ELSE f[CHOOSE x \in s : TRUE] + g[s \ {CHOOSE x \in s : TRUE}]]

\* There is such a function: for the parts of no more than k members, for every k.
LEMMA SumsExist ==
    ASSUME NEW f, NEW U, IsFiniteSet(U)
    PROVE  \E g : AddsUp(g, f, U)
<1> DEFINE upto(k) == {s \in SUBSET U : Cardinality(s) <= k}
           solves(g, k) == g = [s \in upto(k) |->
                                   IF s = {} THEN 0
                                   ELSE f[CHOOSE x \in s : TRUE] + g[s \ {CHOOSE x \in s : TRUE}]]
           T == {k \in Nat : ~\E g : solves(g, k)}
<1>0. \A s \in SUBSET U : IsFiniteSet(s) /\ Cardinality(s) \in Nat  BY FS_Subset, FS_CardinalityType
<1>1. \E g : solves(g, 0)
  <2> DEFINE g == [s \in upto(0) |-> 0]
  <2>1. \A s \in upto(0) : s = {}
    <3> TAKE s \in upto(0)
    <3>1. IsFiniteSet(s) /\ Cardinality(s) = 0  BY <1>0
    <3> QED  BY <3>1, FS_EmptySet
  <2>2. solves(g, 0)  BY <2>1
  <2> QED  BY <2>2
<1>2. ASSUME NEW k \in Nat, NEW g, solves(g, k) PROVE \E h : solves(h, k + 1)
  <2> DEFINE h == [s \in upto(k + 1) |-> IF s = {} THEN 0
                       ELSE f[CHOOSE x \in s : TRUE] + g[s \ {CHOOSE x \in s : TRUE}]]
  <2>1. \A s \in upto(k) : s \in upto(k + 1) /\ g[s] = h[s]
    <3> TAKE s \in upto(k)
    <3>1. s \in upto(k + 1)  BY <1>0
    <3>2. g[s] = IF s = {} THEN 0 ELSE f[CHOOSE x \in s : TRUE] + g[s \ {CHOOSE x \in s : TRUE}]
      BY <1>2
    <3> QED  BY <3>1, <3>2
  <2>2. \A s \in upto(k + 1) : s # {} => s \ {CHOOSE x \in s : TRUE} \in upto(k)
    <3> SUFFICES ASSUME NEW s \in upto(k + 1), s # {} PROVE s \ {CHOOSE x \in s : TRUE} \in upto(k)  OBVIOUS
    <3>1. (CHOOSE x \in s : TRUE) \in s  OBVIOUS
    <3>2. IsFiniteSet(s) /\ Cardinality(s) \in Nat /\ Cardinality(s) <= k + 1  BY <1>0
    <3>3. Cardinality(s \ {CHOOSE x \in s : TRUE}) = Cardinality(s) - 1  BY <3>1, <3>2, FS_RemoveElement
    <3> QED  BY <3>2, <3>3
  <2>3. \A s \in upto(k + 1) : s # {} =>
          g[s \ {CHOOSE x \in s : TRUE}] = h[s \ {CHOOSE x \in s : TRUE}]
    BY <2>1, <2>2
  <2> DEFINE rec(q, s) == IF s = {} THEN 0
                          ELSE f[CHOOSE x \in s : TRUE] + q[s \ {CHOOSE x \in s : TRUE}]
  <2>6. h = [s \in upto(k + 1) |-> rec(g, s)]  OBVIOUS
  <2> HIDE DEF h
  <2>5. \A s \in upto(k + 1) : rec(g, s) = rec(h, s)
    <3> TAKE s \in upto(k + 1)
    <3>1. CASE s = {}  BY <3>1
    <3>2. CASE s # {}
      <4>1. g[s \ {CHOOSE x \in s : TRUE}] = h[s \ {CHOOSE x \in s : TRUE}]  BY <2>3, <3>2
      <4> QED  BY <4>1
    <3> QED  BY <3>1, <3>2
  <2> HIDE DEF rec
  <2>7. h = [s \in upto(k + 1) |-> rec(h, s)]  BY <2>5, <2>6
  <2>4. solves(h, k + 1)  BY <2>7 DEF rec
  <2> QED  BY <2>4
<1> HIDE DEF solves
<1>3. T = {}
  <2> SUFFICES ASSUME T # {} PROVE FALSE  OBVIOUS
  <2>1. PICK k \in T : \A j \in T : k <= j  BY LeastOf
  <2>2. k # 0  BY <1>1, <2>1
  <2>3. k - 1 \in Nat /\ ~(k <= k - 1)  BY <2>2
  <2>4. \E g : solves(g, k - 1)  BY <2>1, <2>3
  <2>5. (k - 1) + 1 = k  BY <2>3
  <2> QED  BY <1>2, <2>3, <2>4, <2>5
<1>4. Cardinality(U) \in Nat  BY FS_CardinalityType
<1>5. PICK g : solves(g, Cardinality(U))  BY <1>3, <1>4
<1>6. upto(Cardinality(U)) = SUBSET U
  <2>1. \A s \in SUBSET U : Cardinality(s) <= Cardinality(U)  BY FS_Subset
  <2> QED  BY <2>1
<1>7. AddsUp(g, f, U)  BY <1>5, <1>6 DEF solves, AddsUp
<1> QED  BY <1>7

LEMMA SumIs ==
    ASSUME NEW f, NEW U, IsFiniteSet(U)
    PROVE  \E g : AddsUp(g, f, U) /\ SumOver(f, U) = g[U]
<1> DEFINE iter == CHOOSE g : AddsUp(g, f, U)
<1>1. AddsUp(iter, f, U)  BY SumsExist, Zenon
<1>2. SumOver(f, U) = iter[U]
  BY Zenon DEF SumOver, MapThenSumSet, MapThenFoldSet, AddsUp
<1> HIDE DEF iter
<1> QED  BY <1>1, <1>2

\* Such functions agree where they add up the same.
LEMMA SumsAgree ==
    ASSUME NEW f, NEW g, NEW U, AddsUp(g, f, U), NEW e, NEW h, NEW V, AddsUp(h, e, V),
           NEW S, IsFiniteSet(S), S \subseteq U, S \subseteq V, \A x \in S : f[x] = e[x]
    PROVE  g[S] = h[S]
<1> DEFINE F == {s \in SUBSET S : g[s] # h[s]}
<1> SUFFICES ASSUME F # {} PROVE FALSE  OBVIOUS
<1>1. F \subseteq SUBSET S  OBVIOUS
<1>2. PICK s \in F : \A y \in F : y \subseteq s => y = s
  <2> HIDE DEF F
  <2> QED  BY <1>1, SmallestPart
<1>3. s \in SUBSET U /\ s \in SUBSET V /\ s \subseteq S  OBVIOUS
<1> DEFINE x == CHOOSE z \in s : TRUE
<1>4. /\ g[s] = IF s = {} THEN 0 ELSE f[x] + g[s \ {x}]
      /\ h[s] = IF s = {} THEN 0 ELSE e[x] + h[s \ {x}]
  BY <1>3 DEF AddsUp
<1>5. s # {}  BY <1>4
<1>6. x \in s  BY <1>5
<1>7. s \ {x} \notin F
  <2> HIDE DEF F, x
  <2> QED  BY <1>2, <1>6
<1>8. g[s \ {x}] = h[s \ {x}] /\ f[x] = e[x]  BY <1>3, <1>6, <1>7
<1> QED  BY <1>4, <1>5, <1>8

\* A sum is an integer; one member more adds what the function gives it.
LEMMA SumType ==
    ASSUME NEW f, NEW U, IsFiniteSet(U), \A x \in U : f[x] \in Int
    PROVE  SumOver(f, U) \in Int
<1>1. PICK g : AddsUp(g, f, U) /\ SumOver(f, U) = g[U]  BY SumIs
<1> DEFINE F == {s \in SUBSET U : g[s] \notin Int}
<1> SUFFICES ASSUME F # {} PROVE FALSE  BY <1>1
<1>2. PICK s \in F : \A y \in F : y \subseteq s => y = s
  <2>1. F \subseteq SUBSET U  OBVIOUS
  <2> HIDE DEF F
  <2> QED  BY <2>1, SmallestPart
<1> DEFINE x == CHOOSE z \in s : TRUE
<1>3. g[s] = IF s = {} THEN 0 ELSE f[x] + g[s \ {x}]  BY <1>1 DEF AddsUp
<1>4. s # {} /\ x \in s  BY <1>3
<1>5. s \ {x} \notin F
  <2> HIDE DEF F, x
  <2> QED  BY <1>2, <1>4
<1>6. g[s \ {x}] \in Int /\ f[x] \in Int  BY <1>4, <1>5
<1> QED  BY <1>3, <1>4, <1>6

LEMMA SumMore ==
    ASSUME NEW f, NEW S, IsFiniteSet(S), NEW a, a \notin S, \A x \in S \cup {a} : f[x] \in Int
    PROVE  SumOver(f, S \cup {a}) = SumOver(f, S) + f[a]
<1> DEFINE U == S \cup {a}
<1>1. IsFiniteSet(U)  BY FS_AddElement
<1>2. PICK g : AddsUp(g, f, U) /\ SumOver(f, U) = g[U]  BY <1>1, SumIs
<1>3. PICK h : AddsUp(h, f, S) /\ SumOver(f, S) = h[S]  BY SumIs
<1>4. h[S] = g[S]  BY <1>2, <1>3, SumsAgree
<1>i. \A s \in SUBSET U : g[s] \in Int
  <2> TAKE s \in SUBSET U
  <2>1. IsFiniteSet(s)  BY <1>1, FS_Subset
  <2>2. PICK k : AddsUp(k, f, s) /\ SumOver(f, s) = k[s]  BY <2>1, SumIs
  <2>3. k[s] = g[s]  BY <1>2, <2>1, <2>2, SumsAgree
  <2>4. SumOver(f, s) \in Int  BY <2>1, SumType
  <2> QED  BY <2>2, <2>3, <2>4
<1> DEFINE F == {s \in SUBSET U : \E y \in s : g[s] # g[s \ {y}] + f[y]}
<1>5. F = {}
  <2> SUFFICES ASSUME F # {} PROVE FALSE  OBVIOUS
  <2>1. PICK s \in F : \A y \in F : y \subseteq s => y = s
    <3>1. F \subseteq SUBSET U  OBVIOUS
    <3> HIDE DEF F, U
    <3> QED  BY <3>1, <1>1, SmallestPart
  <2>2. PICK y \in s : g[s] # g[s \ {y}] + f[y]  BY <2>1
  <2> DEFINE x == CHOOSE z \in s : TRUE
  <2>3. x \in s  BY <2>2
  <2>4. g[s] = f[x] + g[s \ {x}]
    <3>1. s \in SUBSET U  BY <2>1
    <3> HIDE DEF U
    <3> QED  BY <3>1, <2>2, <1>2 DEF AddsUp
  <2> HIDE DEF x
  <2>5. x \in U /\ y \in U /\ f[x] \in Int /\ f[y] \in Int  BY <2>1, <2>2, <2>3
  <2>6. x # y
    <3> SUFFICES ASSUME x = y PROVE FALSE  OBVIOUS
    <3>1. s \ {y} \in SUBSET U  BY <2>1
    <3>2. g[s \ {y}] \in Int
      <4> HIDE DEF U
      <4> QED  BY <1>i, <3>1
    <3>3. g[s] = f[y] + g[s \ {y}]  BY <2>4
    <3>4. \A i, j \in Int : i + j = j + i  OBVIOUS
    <3> QED  BY <2>2, <2>5, <3>2, <3>3, <3>4
  <2>7. s \ {x} \notin F /\ s \ {y} \notin F  
    <3> HIDE DEF F
    <3> QED  BY <2>1, <2>2, <2>3
  <2>8. g[s \ {x}] = g[(s \ {x}) \ {y}] + f[y]  BY <2>1, <2>2, <2>6, <2>7
  <2>9. g[s \ {y}] = g[(s \ {y}) \ {x}] + f[x]  BY <2>1, <2>3, <2>6, <2>7
  <2>10. (s \ {x}) \ {y} = (s \ {y}) \ {x}  OBVIOUS
  <2>11. g[(s \ {x}) \ {y}] \in Int  BY <1>i, <2>1
  <2> DEFINE rest == g[(s \ {x}) \ {y}]
  <2>12. g[s] = f[x] + (rest + f[y]) /\ g[s \ {y}] = rest + f[x]  BY <2>4, <2>8, <2>9, <2>10
  <2> HIDE DEF rest
  <2>13. \A i, j, k \in Int : i + (k + j) = (k + i) + j  OBVIOUS
  <2>14. g[s] = (rest + f[x]) + f[y]  BY <2>5, <2>11, <2>12, <2>13 DEF rest
  <2> QED  BY <2>2, <2>12, <2>14
<1>6. U \ {a} = S /\ a \in U  OBVIOUS
<1>7. g[U] = g[U \ {a}] + f[a]
  <2>1. U \notin F  BY <1>5
  <2> QED  BY <2>1
<1> QED  BY <1>2, <1>3, <1>4, <1>6, <1>7

\* Only what the function gives the members of the set counts.
LEMMA SumSame ==
    ASSUME NEW f, NEW e, NEW S, IsFiniteSet(S), \A x \in S : f[x] = e[x]
    PROVE  SumOver(f, S) = SumOver(e, S)
<1>1. PICK g : AddsUp(g, f, S) /\ SumOver(f, S) = g[S]  BY SumIs
<1>2. PICK h : AddsUp(h, e, S) /\ SumOver(e, S) = h[S]  BY SumIs
<1> QED  BY <1>1, <1>2, SumsAgree

LEMMA SumNone == ASSUME NEW f PROVE SumOver(f, {}) = 0
<1>1. PICK g : AddsUp(g, f, {}) /\ SumOver(f, {}) = g[{}]  BY SumIs, FS_EmptySet
<1> QED  BY <1>1 DEF AddsUp

-----------------------------------------------------------------------------

(***************************************************************************)
(* Why balances are explained.                                             *)
(***************************************************************************)
AmountsOf(b) == [t \in DOMAIN b.transactions |-> Quantize(b.transactions[t].amount)]
Outgoing(b, a) == {t \in Posted(b) : b.transactions[t].from = a}
Incoming(b, a) == {t \in Posted(b) : b.transactions[t].to = a}
Explains(b, o) ==
    \A a \in DOMAIN b.accounts :
        b.accounts[a] + SumOver(AmountsOf(b), Outgoing(b, a)) = o[a] + SumOver(AmountsOf(b), Incoming(b, a))

LEMMA ExplainsIs == BalancesExplained <=> Explains(books, opened)
BY DEF BalancesExplained, Explains, Total, InForce, AmountsOf, Outgoing, Incoming, Posted

\* A payment keeps the balances explained, and so does taking it back.
LEMMA PayingExplains ==
    ASSUME NEW b, NEW c, Paying(b, c), NEW o, IsFiniteSet(Posted(b)),
           \A a \in DOMAIN b.accounts : b.accounts[a] \in Int /\ c.accounts[a] \in Int /\ o[a] \in Int,
           \A t \in Posted(c) : Quantize(c.transactions[t].amount) \in Nat
    PROVE  Explains(b, o) <=> Explains(c, o)
<1>1. PICK id, from, to, amount :
        /\ amount \in Nat /\ from # to
        /\ DOMAIN c.accounts = DOMAIN b.accounts /\ {from, to} \subseteq DOMAIN b.accounts
        /\ c.accounts[from] = b.accounts[from] - amount
        /\ c.accounts[to] = b.accounts[to] + amount
        /\ \A x \in DOMAIN b.accounts \ {from, to} : c.accounts[x] = b.accounts[x]
        /\ id \notin Posted(b) /\ Posted(c) = Posted(b) \cup {id}
        /\ \A t \in Posted(b) : /\ c.transactions[t].from = b.transactions[t].from
                                /\ c.transactions[t].to = b.transactions[t].to
                                /\ c.transactions[t].amount = b.transactions[t].amount
        /\ c.transactions[id].from = from /\ c.transactions[id].to = to
        /\ Quantize(c.transactions[id].amount) = amount
  BY DEF Paying
<1>2. \A a : /\ Outgoing(c, a) = IF a = from THEN Outgoing(b, a) \cup {id} ELSE Outgoing(b, a)
             /\ Incoming(c, a) = IF a = to THEN Incoming(b, a) \cup {id} ELSE Incoming(b, a)
  BY <1>1 DEF Outgoing, Incoming
<1>3. ASSUME NEW S, S \subseteq Posted(b)
      PROVE  /\ SumOver(AmountsOf(b), S) \in Int
             /\ SumOver(AmountsOf(c), S) = SumOver(AmountsOf(b), S)
             /\ SumOver(AmountsOf(c), S \cup {id}) = SumOver(AmountsOf(b), S) + amount
  <2>1. IsFiniteSet(S) /\ id \notin S /\ S \cup {id} \subseteq Posted(c)
    BY <1>1, <1>3, FS_Subset
  <2>2. \A t \in Posted(c) : AmountsOf(c)[t] \in Int
                             /\ AmountsOf(c)[t] = Quantize(c.transactions[t].amount)
    BY DEF AmountsOf, Posted
  <2>3. \A t \in S : AmountsOf(b)[t] = AmountsOf(c)[t]
    <3> TAKE t \in S
    <3>1. t \in Posted(b) /\ t \in Posted(c)  BY <1>3, <2>1
    <3>2. t \in DOMAIN b.transactions /\ t \in DOMAIN c.transactions  BY <3>1 DEF Posted
    <3>3. c.transactions[t].amount = b.transactions[t].amount  BY <1>1, <3>1
    <3> QED  BY <3>2, <3>3 DEF AmountsOf
  <2>4. SumOver(AmountsOf(c), S) = SumOver(AmountsOf(b), S)  BY <2>1, <2>3, SumSame
  <2>5. SumOver(AmountsOf(c), S) \in Int  BY <2>1, <2>2, SumType
  <2>6. \A t \in S \cup {id} : AmountsOf(c)[t] \in Int  BY <2>1, <2>2
  <2>7. SumOver(AmountsOf(c), S \cup {id}) = SumOver(AmountsOf(c), S) + AmountsOf(c)[id]
    BY <2>1, <2>6, SumMore
  <2>8. AmountsOf(c)[id] = amount  BY <1>1, <2>1, <2>2
  <2> QED  BY <2>4, <2>5, <2>7, <2>8
<1>4. ASSUME NEW a \in DOMAIN b.accounts
      PROVE  b.accounts[a] + SumOver(AmountsOf(b), Outgoing(b, a)) = o[a] + SumOver(AmountsOf(b), Incoming(b, a))
             <=> c.accounts[a] + SumOver(AmountsOf(c), Outgoing(c, a)) = o[a] + SumOver(AmountsOf(c), Incoming(c, a))
  <2> DEFINE out == SumOver(AmountsOf(b), Outgoing(b, a))
             in == SumOver(AmountsOf(b), Incoming(b, a))
             outc == SumOver(AmountsOf(c), Outgoing(c, a))
             inc == SumOver(AmountsOf(c), Incoming(c, a))
  <2>1. Outgoing(b, a) \subseteq Posted(b) /\ Incoming(b, a) \subseteq Posted(b)  BY DEF Outgoing, Incoming
  <2>2. out \in Int /\ in \in Int  BY <1>3, <2>1
  <2>3. outc = IF a = from THEN out + amount ELSE out  BY <1>2, <1>3, <2>1
  <2>4. inc = IF a = to THEN in + amount ELSE in  BY <1>2, <1>3, <2>1
  <2>5. b.accounts[a] \in Int /\ c.accounts[a] \in Int /\ o[a] \in Int  OBVIOUS
  <2> HIDE DEF out, in, outc, inc
  <2>6. b.accounts[a] + out = o[a] + in <=> c.accounts[a] + outc = o[a] + inc
    <3>1. CASE a = from
      <4>1. c.accounts[a] = b.accounts[a] - amount /\ outc = out + amount /\ inc = in  BY <1>1, <2>3, <2>4, <3>1
      <4> QED  BY <4>1, <1>1, <2>2, <2>5
    <3>2. CASE a = to
      <4>1. c.accounts[a] = b.accounts[a] + amount /\ outc = out /\ inc = in + amount  BY <1>1, <2>3, <2>4, <3>2
      <4> QED  BY <4>1, <1>1, <2>2, <2>5
    <3>3. CASE a # from /\ a # to
      <4>1. c.accounts[a] = b.accounts[a] /\ outc = out /\ inc = in  BY <1>1, <2>3, <2>4, <3>3
      <4> QED  BY <4>1
    <3> QED  BY <3>1, <3>2, <3>3
  <2> QED  BY <2>6 DEF out, in, outc, inc
<1> QED  BY <1>1, <1>4 DEF Explains


ExplainedInv ==
    /\ IInv
    /\ IsFiniteSet(Posted(books))
    /\ DOMAIN opened = DOMAIN books.accounts
    /\ BalancesExplained

LEMMA ExplainedStart == ASSUME Init PROVE ExplainedInv
<1>1. IInv  BY InitInvariant
<1>2. /\ DOMAIN books.accounts = {} /\ DOMAIN books.transactions = {} /\ DOMAIN opened = {}
  BY DEF Init, EmptyBooks, EmptyDict
<1>3. Posted(books) = {}  BY <1>2 DEF Posted
<1>4. IsFiniteSet(Posted(books))  BY <1>3, FS_EmptySet
<1> QED  BY <1>1, <1>2, <1>4 DEF ExplainedInv, BalancesExplained

\* Amounts of the transactions that are there are natural numbers when rounded.
LEMMA EntriesAre ==
    ASSUME IInv
    PROVE  /\ \A t \in Posted(books) : Quantize(books.transactions[t].amount) \in Nat
           /\ \A a \in DOMAIN books.accounts : books.accounts[a] \in Nat
           /\ \A a \in DOMAIN opened : opened[a] \in Nat
<1>1. IsDict(opened, AccountIds, Nat)  BY BookEntries
<1> QED  BY <1>1, BookEntries DEF Posted, IsDict

LEMMA ExplainedOpening ==
    ASSUME ExplainedInv, IInv', Opening PROVE ExplainedInv'
<1>1. PICK new :
        /\ new \notin DOMAIN books.accounts
        /\ DOMAIN books'.accounts = DOMAIN books.accounts \cup {new}
        /\ \A x \in DOMAIN books.accounts : books'.accounts[x] = books.accounts[x]
        /\ books'.transactions = books.transactions
        /\ opened' = Put(opened, new, books'.accounts[new])
  BY DEF Opening
<1>2. /\ DOMAIN opened' = DOMAIN opened \cup {new} /\ opened'[new] = books'.accounts[new]
      /\ \A x \in DOMAIN opened \ {new} : opened'[x] = opened[x]
  BY <1>1 DEF Put
<1>3. DOMAIN opened' = DOMAIN books'.accounts  BY <1>1, <1>2 DEF ExplainedInv
<1>4. Posted(books') = Posted(books) /\ AmountsOf(books') = AmountsOf(books)
  BY <1>1 DEF Posted, AmountsOf
<1>5. \A a : Outgoing(books', a) = Outgoing(books, a) /\ Incoming(books', a) = Incoming(books, a)
  BY <1>1, <1>4 DEF Outgoing, Incoming
<1>6. \A a \in DOMAIN books.accounts :
        books.accounts[a] + SumOver(AmountsOf(books), Outgoing(books, a))
          = opened[a] + SumOver(AmountsOf(books), Incoming(books, a))
  BY ExplainsIs DEF ExplainedInv, Explains
<1>7. ASSUME NEW a \in DOMAIN books'.accounts
      PROVE  books'.accounts[a] + SumOver(AmountsOf(books'), Outgoing(books', a))
               = opened'[a] + SumOver(AmountsOf(books'), Incoming(books', a))
  <2>1. CASE a = new
    <3>1. Outgoing(books, new) = {} /\ Incoming(books, new) = {}
      <4>1. IInv  BY DEF ExplainedInv
      <4> QED  BY <4>1, <1>1, BookEntries DEF Outgoing, Incoming, Posted
    <3> QED  BY <2>1, <3>1, <1>2, <1>4, <1>5
  <2>2. CASE a # new
    <3>1. a \in DOMAIN books.accounts /\ books'.accounts[a] = books.accounts[a] /\ opened'[a] = opened[a]
      BY <2>2, <1>1, <1>2 DEF ExplainedInv
    <3> QED  BY <3>1, <1>4, <1>5, <1>6
  <2> QED  BY <2>1, <2>2
<1>8. Explains(books', opened')  BY <1>7 DEF Explains
<1>9. BalancesExplained'
  BY <1>8 DEF BalancesExplained, Explains, Total, InForce, AmountsOf, Outgoing, Incoming, Posted
<1> QED  BY <1>3, <1>4, <1>9 DEF ExplainedInv

\* A posting adds a transaction in force and a reversal takes one away.
LEMMA ExplainedPaying ==
    ASSUME ExplainedInv, IInv', UNCHANGED opened,
           Paying(books, books') \/ Paying(books', books)
    PROVE  ExplainedInv'
<1>1. IInv /\ IsFiniteSet(Posted(books)) /\ DOMAIN opened = DOMAIN books.accounts
    BY DEF ExplainedInv
<1>2. /\ \A t \in Posted(books) : Quantize(books.transactions[t].amount) \in Nat
      /\ \A a \in DOMAIN books.accounts : books.accounts[a] \in Nat
      /\ \A a \in DOMAIN opened : opened[a] \in Nat
    BY <1>1, EntriesAre
<1>3. /\ \A t \in DOMAIN books'.transactions : Quantize(books'.transactions[t].amount) \in Nat
      /\ \A a \in DOMAIN books'.accounts : books'.accounts[a] \in Nat
    <2>1. BooksOK(books') /\ TransfersSound'
        BY DEF IInv, TypeOK
    <2>2. IsDict(books'.accounts, AccountIds, Nat) /\ IsDict(books'.transactions, TransactionIds, Transfers)
        BY <2>1 DEF BooksOK
    <2>3. \A t \in DOMAIN books'.transactions : books'.transactions[t] \in Transfers
        BY <2>2 DEF IsDict
    <2>4. \A t \in DOMAIN books'.transactions : books'.transactions[t].amount \in RawAmounts
        BY <2>3 DEF Transfers
    <2>5. \A t \in DOMAIN books'.transactions : Quantizable(books'.transactions[t].amount)
        BY <2>1 DEF TransfersSound
    <2>6. \A a \in DOMAIN books'.accounts : books'.accounts[a] \in Nat
        BY <2>2 DEF IsDict
    <2>. QED
        BY <2>4, <2>5, <2>6, QuantizeNat
<1>4. \A t \in Posted(books') : Quantize(books'.transactions[t].amount) \in Nat
    BY <1>3 DEF Posted
<1>5. DOMAIN books'.accounts = DOMAIN books.accounts
    BY DEF Paying
<1>6. IsFiniteSet(Posted(books'))
    <2>1. PICK id : \/ Posted(books') = Posted(books) \cup {id}
                    \/ Posted(books) = Posted(books') \cup {id}
        BY DEF Paying
    <2>2. \/ Posted(books') = Posted(books) \cup {id}
          \/ Posted(books') \subseteq Posted(books)
        BY <2>1
    <2>. QED
        BY <1>1, <2>2, FS_AddElement, FS_Subset
<1>7. \A a \in DOMAIN books.accounts :
        books.accounts[a] \in Int /\ books'.accounts[a] \in Int /\ opened[a] \in Int
    BY <1>1, <1>2, <1>3, <1>5
<1>8. Explains(books, opened)
    BY ExplainsIs DEF ExplainedInv
<1>9. Explains(books', opened)
    <2>1. CASE Paying(books, books')
        BY <1>1, <1>4, <1>7, <1>8, <2>1, PayingExplains
    <2>2. CASE Paying(books', books)
        BY <1>2, <1>5, <1>6, <1>7, <1>8, <2>2, PayingExplains
    <2>. QED
        BY <2>1, <2>2
<1>10. Explains(books', opened')
    BY <1>9
<1>11. BalancesExplained'
    BY <1>10 DEF BalancesExplained, Explains, Total, InForce, AmountsOf, Outgoing, Incoming, Posted
<1>. QED
    BY <1>1, <1>5, <1>6, <1>11 DEF ExplainedInv

\* Steps that leave the accounts and the transactions alone.
LEMMA ExplainedUntouched ==
    ASSUME ExplainedInv, IInv', UNCHANGED opened, Untouched
    PROVE  ExplainedInv'
<1>1. books'.accounts = books.accounts /\ books'.transactions = books.transactions
    BY DEF Untouched
<1>2. Posted(books') = Posted(books)
    BY <1>1 DEF Posted
<1>3. AmountsOf(books') = AmountsOf(books)
    BY <1>1 DEF AmountsOf
<1>4. \A a : Outgoing(books', a) = Outgoing(books, a) /\ Incoming(books', a) = Incoming(books, a)
    BY <1>1, <1>2 DEF Outgoing, Incoming
<1>5. Explains(books, opened)
    BY ExplainsIs DEF ExplainedInv
<1>6. Explains(books', opened')
    BY <1>1, <1>3, <1>4, <1>5 DEF Explains
<1>7. BalancesExplained'
    BY <1>6 DEF BalancesExplained, Explains, Total, InForce, AmountsOf, Outgoing, Incoming, Posted
<1>. QED
    BY <1>1, <1>2, <1>7 DEF ExplainedInv

-----------------------------------------------------------------------------
\* What a step of the books does to the accounts and the transactions.
Accounted ==
    \/ Opening
    \/ UNCHANGED opened /\ (Untouched \/ Paying(books, books') \/ Paying(books', books))

LEMMA EveryStep ==
    ASSUME IInv, [Next]_vars
    PROVE  IInv' /\ (UNCHANGED vars \/ (MovesMoney /\ KeepsTransactions)) /\ Accounted
<1>1. CASE \E e \in CreateAccountEvents : OpenAccount(e)
    BY <1>1, OpenAccountStep DEF Accounted
<1>2. CASE \E e \in PostEvents : PostTransaction(e)
    <2>1. UNCHANGED opened
        BY <1>2 DEF PostTransaction
    <2>. QED
        BY <1>2, <2>1, PostTransactionStep DEF Accounted
<1>3. CASE \E e \in ReverseEvents : ReverseTransaction(e)
    <2>1. UNCHANGED opened
        BY <1>3 DEF ReverseTransaction
    <2>. QED
        BY <1>3, <2>1, ReverseTransactionStep DEF Accounted
<1>4. CASE \/ \E e \in InvoiceEvents : IssueInvoice(e)
           \/ \E e \in PaymentEvents : PayInvoice(e)
           \/ \E e \in ObligationEvents : Oblige(e)
           \/ \E e \in ApproveEvents : ApproveTransaction(e)
           \/ \E e \in RejectEvents : RejectTransaction(e)
    <2>1. UNCHANGED opened
        BY <1>4 DEF IssueInvoice, PayInvoice, Oblige, ApproveTransaction, RejectTransaction
    <2>. QED
        BY <1>4, <2>1, RecordKeepingStep DEF Accounted
<1>5. CASE UNCHANGED vars
    BY <1>5 DEF vars, IInv, TypeOK, TransfersSound, Accounted, Untouched
<1>. QED
    BY <1>1, <1>2, <1>3, <1>4, <1>5 DEF Next

\* Balances are natural numbers in every reachable state: no account is ever
\* overdrawn, by a posting or by the reversal of one, and every transaction
\* names two different accounts that exist and an amount that rounds.
THEOREM BooksSound == Spec => []IInv
<1>1. Init => IInv
    BY InitInvariant
<1>2. IInv /\ [Next]_vars => IInv'
    BY EveryStep
<1>. QED
    BY <1>1, <1>2, PTL DEF Spec

\* Money only moves between two existing accounts.
THEOREM MoneyOnlyMoves == Spec => DoubleEntry
<1>1. IInv /\ [Next]_vars => [MovesMoney]_vars
    BY EveryStep
<1>. QED
    BY <1>1, BooksSound, PTL DEF Spec, DoubleEntry

\* A posted transaction is a record for good and is reversed at most once.
THEOREM ReversedOnce == Spec => TransactionsFinal
<1>1. IInv /\ [Next]_vars => [KeepsTransactions]_vars
    BY EveryStep
<1>. QED
    BY <1>1, BooksSound, PTL DEF Spec, TransactionsFinal

\* What explains the balances holds in every reachable state, with the parts
\* it is inductive with: the accounts opened are those there are, and only
\* finitely many transactions are in force.
THEOREM ExplainedInvariant == Spec => []ExplainedInv
<1>1. Init => ExplainedInv
    BY ExplainedStart
<1>2. ExplainedInv /\ [Next]_vars => ExplainedInv'
    BY EveryStep, ExplainedOpening, ExplainedPaying, ExplainedUntouched
       DEF Accounted, ExplainedInv
<1>. QED
    BY <1>1, <1>2, PTL DEF Spec

\* Every balance is the opening balance plus what the transactions in force
\* paid in, less what they took out: no order of POST_TRANSACTION and
\* REVERSE_TRANSACTION, and no rounding, creates or loses a quantum.
THEOREM EveryBalanceIsExplained == Spec => []BalancesExplained
<1>1. ExplainedInv => BalancesExplained
    BY DEF ExplainedInv
<1>. QED
    BY <1>1, ExplainedInvariant, PTL
=============================================================================
