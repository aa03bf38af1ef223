----------------------------- MODULE Wallet_proofs -----------------------------
(***************************************************************************)
(* Proofs about Wallet, for any accounts, clients, schedulers, keys and    *)
(* amounts, any overdraft floor, and any number of operations, months and  *)
(* deaths.                                                                 *)
(***************************************************************************)
EXTENDS Wallet, SequenceTheorems, TLAPS

-----------------------------------------------------------------------------
(* The inductive invariant.                                                *)

Posting == {"locked", "writing"}

(* The lock is with the transaction that holds it. *)
OneWriter == \A x \in Actors : tx[x].pc \in Posting <=> lock = x

(* What a transaction has written is a beginning of its legs; with it the  *)
(* ledger would agree with the balances it has read and changed, none of   *)
(* them is below its floor, and its key is not in the ledger.              *)
Drafted(x) ==
    LET t == tx[x]
    IN  /\ IsBooks(entries \o t.draft, t.bal)
        /\ Len(t.draft) <= Len(Legs(t))
        /\ \A i \in DOMAIN t.draft :
              /\ t.draft[i].op = t.op /\ t.draft[i].key = t.key
              /\ t.draft[i].acct = Legs(t)[i].acct /\ t.draft[i].amt = Legs(t)[i].amt
              /\ t.op = "charge" => t.draft[i].after >= 0
        /\ \A a \in Accounts :
              /\ t.bal[a] >= -Floor
              /\ (\A i \in DOMAIN t.draft : t.draft[i].acct # a) => t.bal[a] = balance[a]
        /\ t.bal[Vault] >= 0
        /\ t.op \in {"charge", "bill"} => ~ Posted(t.op, t.acct, t.key)

TxSound(x) ==
    /\ tx[x].pc # "idle" => tx[x].acct \in Factories
    /\ tx[x].op = "bill" => tx[x].key \in Nat
    /\ tx[x].pc # "writing" => tx[x].draft = << >>
    /\ tx[x].pc = "writing" => Drafted(x)

MoneyInv ==
    /\ TypeOK
    /\ OneWriter
    /\ LedgerSound
    /\ ChargedOnce
    /\ \A x \in Actors : TxSound(x)

-----------------------------------------------------------------------------
(* Facts about the constants and the operations.                           *)

LEMMA Amounts ==
    /\ Opening \in Nat /\ Opening > 0 /\ Funding \in Nat /\ Funding > 0
    /\ Price \in Nat /\ Price > 0 /\ Fee \in Nat /\ Fee > 0
    /\ Floor \in Nat
    /\ Vault \in Accounts /\ Vault \notin Factories /\ Factories \subseteq Accounts
    /\ Stored \subseteq Factories /\ None \notin Actors
BY WalletAssumption DEF Accounts

Tx == [pc : {"idle", "ready", "locked", "writing"}, op : {"fund", "charge", "bill"},
       acct : Accounts, key : Keys \cup Nat \cup {None},
       bal : [Accounts -> Int], draft : Seq(Entry)]

(* A funding has two legs, from the vault to the factory; a charge and a   *)
(* bill have one, on the factory.                                          *)
LEMMA LegsShape ==
    ASSUME NEW t \in Tx, t.acct \in Factories
    PROVE  /\ t.op = "fund" => /\ Len(Legs(t)) = 2
                               /\ Legs(t)[1].acct = Vault /\ Legs(t)[1].amt = -Funding
                               /\ Legs(t)[2].acct = t.acct /\ Legs(t)[2].amt = Funding
           /\ t.op # "fund" => Len(Legs(t)) = 1 /\ Legs(t)[1].acct = t.acct
                               /\ Legs(t)[1].amt \in Int /\ Legs(t)[1].amt < 0
           /\ Len(Legs(t)) \in 1..2
           /\ \A i \in 1..Len(Legs(t)) : Legs(t)[i].acct \in Accounts /\ Legs(t)[i].amt \in Int
<1>1. t.op \in {"fund", "charge", "bill"}
  BY DEF Tx
<1>2. CASE t.op = "fund"
  <2>1. Legs(t) = << [acct |-> Vault, amt |-> -Funding], [acct |-> t.acct, amt |-> Funding] >>
    BY <1>2 DEF Legs
  <2>. QED
    BY <1>2, <2>1, Amounts
<1>3. CASE t.op = "charge"
  <2>1. Legs(t) = << [acct |-> t.acct, amt |-> -Price] >>
    BY <1>3 DEF Legs
  <2>. QED
    BY <1>3, <2>1, Amounts
<1>4. CASE t.op = "bill"
  <2>1. Legs(t) = << [acct |-> t.acct, amt |-> -Fee] >>
    BY <1>4 DEF Legs
  <2>. QED
    BY <1>4, <2>1, Amounts
<1>. QED
  BY <1>1, <1>2, <1>3, <1>4

(* One more entry that carries on from its account's balance keeps books   *)
(* in agreement.                                                           *)
LEMMA BooksGrow ==
    ASSUME NEW s \in Seq(Entry), NEW b \in [Accounts -> Int], IsBooks(s, b),
           NEW e \in Entry, e.after = b[e.acct] + e.amt
    PROVE  IsBooks(Append(s, e), [b EXCEPT ![e.acct] = e.after])
<1> DEFINE r == Append(s, e)
           n == Len(s)
           c == [b EXCEPT ![e.acct] = e.after]
<1>1. /\ n \in Nat /\ Len(r) = n + 1 /\ DOMAIN r = 1..(n + 1) /\ DOMAIN s = 1..n
      /\ r[n + 1] = e
      /\ \A i \in 1..n : r[i] = s[i]
  OBVIOUS
<1>2. e.acct \in Accounts /\ e.amt \in Int /\ b[e.acct] \in Int
  BY DEF Entry
<1>3. \A a \in Accounts, k \in 0..n, v \in Int : BalanceAt(s, a, k, v) => BalanceAt(r, a, k, v)
  <2>. SUFFICES ASSUME NEW a \in Accounts, NEW k \in 0..n, NEW v \in Int, BalanceAt(s, a, k, v)
                PROVE  BalanceAt(r, a, k, v)
    OBVIOUS
  <2>1. \A i \in 1..k : r[i] = s[i]
    BY <1>1
  <2>2. CASE v = 0 /\ \A i \in 1..k : s[i].acct # a
    BY <2>1, <2>2 DEF BalanceAt
  <2>3. ASSUME NEW i \in 1..k, s[i].acct = a, s[i].after = v,
               \A j \in (i + 1)..k : s[j].acct # a
        PROVE  BalanceAt(r, a, k, v)
    <3>1. r[i].acct = a /\ r[i].after = v /\ \A j \in (i + 1)..k : r[j].acct # a
      BY <1>1, <2>1, <2>3
    <3>. QED
      BY <3>1 DEF BalanceAt
  <2>. QED
    BY <2>2, <2>3 DEF BalanceAt
<1>4. \A i \in DOMAIN r : BalanceAt(r, r[i].acct, i - 1, r[i].after - r[i].amt)
  <2>1. ASSUME NEW i \in 1..n
        PROVE  BalanceAt(r, r[i].acct, i - 1, r[i].after - r[i].amt)
    <3>1. s[i] \in Entry /\ i - 1 \in 0..n /\ r[i] = s[i]
      BY <1>1
    <3>2. BalanceAt(s, s[i].acct, i - 1, s[i].after - s[i].amt)
      BY <1>1 DEF IsBooks
    <3>3. s[i].acct \in Accounts /\ s[i].after - s[i].amt \in Int
      BY <3>1 DEF Entry
    <3>4. BalanceAt(r, s[i].acct, i - 1, s[i].after - s[i].amt)
      BY <1>3, <3>1, <3>2, <3>3
    <3>. QED
      BY <3>1, <3>4
  <2>2. BalanceAt(r, e.acct, n, e.after - e.amt)
    <3>1. e.after - e.amt = b[e.acct]
      BY <1>2
    <3>2. BalanceAt(s, e.acct, n, b[e.acct])
      BY <1>2 DEF IsBooks
    <3>3. n \in 0..n
      BY <1>1
    <3>4. BalanceAt(r, e.acct, n, b[e.acct])
      BY <1>2, <1>3, <3>2, <3>3
    <3>. QED
      BY <3>1, <3>4
  <2>3. \A i \in DOMAIN r : i \in 1..n \/ (i = n + 1 /\ i - 1 = n /\ r[i] = e)
    BY <1>1
  <2>. QED
    BY <2>1, <2>2, <2>3
<1>5. \A a \in Accounts : BalanceAt(r, a, n + 1, c[a])
  <2>1. BalanceAt(r, e.acct, n + 1, c[e.acct])
    BY <1>1, <1>2 DEF BalanceAt
  <2>2. ASSUME NEW a \in Accounts, a # e.acct
        PROVE  BalanceAt(r, a, n + 1, c[a])
    <3>1. c[a] = b[a] /\ BalanceAt(s, a, n, b[a])
      BY <2>2 DEF IsBooks
    <3>2. BalanceAt(r, a, n, c[a])
      BY <1>1, <1>3, <3>1
    <3>3. \A j \in 1..(n + 1) : j \in 1..n \/ j = n + 1
      BY <1>1
    <3>4. r[n + 1].acct # a
      BY <1>1, <2>2
    <3>. QED
      BY <1>1, <3>2, <3>3, <3>4 DEF BalanceAt
  <2>. QED
    BY <2>1, <2>2
<1>. QED
  BY <1>1, <1>4, <1>5 DEF IsBooks

-----------------------------------------------------------------------------
(* What a step of one actor leaves alone.                                  *)

(* The committed ledger, and the transaction of whoever did not move.      *)
LEMMA OthersSound ==
    ASSUME NEW x \in Actors, TxSound(x), UNCHANGED << balance, entries >>, tx'[x] = tx[x]
    PROVE  TxSound(x)'
BY DEF TxSound, Drafted, Posted, Legs

(* A rolled-back transaction, or none. *)
LEMMA NoTxSound ==
    ASSUME NEW x \in Actors, tx'[x] = NoTx
    PROVE  TxSound(x)'
BY DEF TxSound, NoTx

LEMMA NoTxType == NoTx \in Tx
BY Amounts DEF NoTx, Tx

(* The ledger as it stands. *)
LEMMA SameLedger ==
    ASSUME LedgerSound, ChargedOnce, UNCHANGED << balance, entries >>
    PROVE  LedgerSound' /\ ChargedOnce'
BY DEF LedgerSound, ChargedOnce, BooksAgree, FundingIsWhole, DebtBounded, IsBooks, BalanceAt

(* A transaction that is given up releases the lock and leaves the ledger. *)
LEMMA RollbackKeeps ==
    ASSUME MoneyInv, NEW x \in Actors, tx[x].pc \in Posting, Rollback(x),
           skipped' \subseteq Accounts \X Nat
    PROVE  MoneyInv'
<1>1. /\ lock' = None /\ tx' = [tx EXCEPT ![x] = NoTx]
      /\ UNCHANGED << balance, entries, month, job, done, ops, deaths >>
  BY DEF Rollback, database, scheduler
<1>2. tx \in [Actors -> Tx] /\ tx' \in [Actors -> Tx]
  BY <1>1, NoTxType DEF MoneyInv, TypeOK, Tx
<1>3. TypeOK'
  BY <1>1, <1>2 DEF MoneyInv, TypeOK, Tx
<1>4. OneWriter'
  <2>1. lock = x /\ \A y \in Actors : y # x => tx[y].pc \notin Posting
    BY DEF MoneyInv, OneWriter
  <2>2. NoTx.pc \notin Posting
    BY DEF NoTx, Posting
  <2>. QED
    BY <1>1, <1>2, <2>1, <2>2, Amounts DEF OneWriter
<1>5. \A y \in Actors : TxSound(y)'
  <2>1. TxSound(x)'
    BY <1>1, <1>2, NoTxSound
  <2>2. ASSUME NEW y \in Actors, y # x PROVE TxSound(y)'
    BY <1>1, <1>2, <2>2, OthersSound DEF MoneyInv
  <2>. QED
    BY <2>1, <2>2
<1>. QED
  BY <1>1, <1>3, <1>4, <1>5, SameLedger DEF MoneyInv

(* What has no part in the money: the clock, the schedulers, the bounds.   *)
RestType ==
    /\ month \in Nat
    /\ job \in [Workers -> [pc : {"off", "due", "billing"}, slot : Nat, per : Nat,
                            todo : SUBSET Stored]]
    /\ done \in [Workers -> Nat]
    /\ ops \in Nat /\ deaths \in Nat
    /\ skipped \subseteq Accounts \X Nat

(* A step that writes one actor's transaction and nothing committed.       *)
LEMMA TxWrite ==
    ASSUME MoneyInv, NEW x \in Actors, NEW new \in Tx, tx' = [tx EXCEPT ![x] = new],
           UNCHANGED << balance, entries >>, RestType',
           lock' = lock \/ (lock = None /\ lock' = x),
           new.pc \in Posting <=> lock' = x,
           TxSound(x)'
    PROVE  MoneyInv'
<1>1. tx \in [Actors -> Tx] /\ tx' \in [Actors -> Tx]
  BY DEF MoneyInv, TypeOK, Tx
<1>2. TypeOK'
  BY <1>1 DEF MoneyInv, TypeOK, Tx, RestType
<1>3. OneWriter'
  BY <1>1, Amounts DEF MoneyInv, OneWriter
<1>4. ASSUME NEW y \in Actors, y # x PROVE TxSound(y)'
  BY <1>1, <1>4, OthersSound DEF MoneyInv
<1>. QED
  BY <1>2, <1>3, <1>4, SameLedger DEF MoneyInv

(* A step that touches no transaction at all. *)
LEMMA MoneyRests ==
    ASSUME MoneyInv, UNCHANGED << balance, entries, lock, tx >>, RestType'
    PROVE  MoneyInv'
<1>1. TypeOK' /\ OneWriter'
  BY DEF MoneyInv, TypeOK, OneWriter, RestType
<1>2. ASSUME NEW y \in Actors PROVE TxSound(y)'
  BY OthersSound DEF MoneyInv
<1>. QED
  BY <1>1, <1>2, SameLedger DEF MoneyInv

LEMMA RestTyped == MoneyInv => RestType
BY DEF MoneyInv, TypeOK, RestType

-----------------------------------------------------------------------------
(* The steps before the commit.                                            *)

LEMMA OpenKeeps ==
    ASSUME MoneyInv, NEW c \in Clients, Open(c)
    PROVE  MoneyInv'
<1>1. c \in Actors /\ tx[c].pc = "idle" /\ lock # c
  BY DEF Open, Actors, MoneyInv, OneWriter, Posting
<1>2. PICK new \in Tx : /\ tx' = [tx EXCEPT ![c] = new]
                        /\ new.pc = "ready" /\ new.acct \in Factories /\ new.draft = << >>
                        /\ new.op # "bill"
  <2>1. CASE \E a \in Factories :
               tx' = [tx EXCEPT ![c] = [NoTx EXCEPT !.pc = "ready", !.op = "fund", !.acct = a]]
    <3>1. PICK a \in Factories :
               tx' = [tx EXCEPT ![c] = [NoTx EXCEPT !.pc = "ready", !.op = "fund", !.acct = a]]
      BY <2>1
    <3>2. [NoTx EXCEPT !.pc = "ready", !.op = "fund", !.acct = a] \in Tx
      BY NoTxType, Amounts DEF Tx
    <3>. QED
      BY <3>1, <3>2 DEF NoTx
  <2>2. CASE \E a \in Factories, k \in Keys :
               tx' = [tx EXCEPT ![c] = [NoTx EXCEPT !.pc = "ready", !.op = "charge",
                                                    !.acct = a, !.key = k]]
    <3>1. PICK a \in Factories, k \in Keys :
               tx' = [tx EXCEPT ![c] = [NoTx EXCEPT !.pc = "ready", !.op = "charge",
                                                    !.acct = a, !.key = k]]
      BY <2>2
    <3>2. [NoTx EXCEPT !.pc = "ready", !.op = "charge", !.acct = a, !.key = k] \in Tx
      BY NoTxType, Amounts DEF Tx
    <3>. QED
      BY <3>1, <3>2 DEF NoTx
  <2>. QED
    BY <2>1, <2>2 DEF Open
<1>3. tx'[c] = new
  BY <1>1, <1>2 DEF MoneyInv, TypeOK
<1>4. TxSound(c)'
  <2>1. /\ tx'[c].pc = "ready" /\ tx'[c].acct \in Factories /\ tx'[c].draft = << >>
        /\ tx'[c].op # "bill"
    BY <1>2, <1>3
  <2>. QED
    BY <2>1 DEF TxSound
<1>5. /\ UNCHANGED << balance, entries, lock, month, job, done, deaths, skipped >>
      /\ ops' = ops + 1
  BY DEF Open, database, scheduler
<1>6. RestType'
  BY <1>5, RestTyped DEF RestType
<1>. QED
  BY <1>1, <1>2, <1>4, <1>5, <1>6, TxWrite DEF Posting

(* A transaction that is given up before it has the lock. *)
LEMMA GivenUpKeeps ==
    ASSUME MoneyInv, NEW x \in Actors, tx[x].pc \notin Posting,
           tx' = [tx EXCEPT ![x] = NoTx],
           UNCHANGED << balance, entries, lock >>, RestType'
    PROVE  MoneyInv'
<1>1. lock # x
  BY DEF MoneyInv, OneWriter
<1>2. NoTx \in Tx /\ NoTx.pc \notin Posting
  BY NoTxType DEF NoTx, Posting
<1>3. tx'[x] = NoTx
  BY DEF MoneyInv, TypeOK
<1>4. TxSound(x)'
  BY <1>3, NoTxSound
<1>. QED
  BY <1>1, <1>2, <1>4, TxWrite

LEMMA BusyKeeps ==
    ASSUME MoneyInv, NEW c \in Clients, Busy(c)
    PROVE  MoneyInv'
<1>1. /\ c \in Actors /\ tx[c].pc \notin Posting /\ tx' = [tx EXCEPT ![c] = NoTx]
      /\ UNCHANGED << balance, entries, lock, month, job, done, ops, deaths, skipped >>
  BY DEF Busy, Actors, Posting, database, scheduler
<1>2. RestType'
  BY <1>1, RestTyped DEF RestType
<1>. QED
  BY <1>1, <1>2, GivenUpKeeps

LEMMA BeginKeeps ==
    ASSUME MoneyInv, NEW x \in Actors, BeginImmediate(x)
    PROVE  MoneyInv'
<1> DEFINE new == [tx[x] EXCEPT !.pc = "locked"]
<1>1. /\ tx[x].pc = "ready" /\ lock = None /\ lock' = x
      /\ tx' = [tx EXCEPT ![x] = new]
  BY DEF BeginImmediate, LockFree
<1>2. tx[x] \in Tx /\ tx'[x] = new
  BY <1>1 DEF MoneyInv, TypeOK, Tx
<1>3. /\ new \in Tx /\ new.pc = "locked" /\ new.acct = tx[x].acct
      /\ new.draft = tx[x].draft /\ new.op = tx[x].op /\ new.key = tx[x].key
  BY <1>2 DEF Tx
<1>4. TxSound(x)'
  <2>1. TxSound(x)
    BY DEF MoneyInv
  <2>. QED
    BY <1>1, <1>2, <1>3, <2>1 DEF TxSound
<1>5. RestType' /\ UNCHANGED << balance, entries >>
  BY RestTyped DEF BeginImmediate, RestType, database, scheduler
<1>. QED
  BY <1>1, <1>3, <1>4, <1>5, TxWrite DEF Posting

(* A check that passes begins to write on the committed balances. *)
LEMMA CheckKeeps ==
    ASSUME MoneyInv, NEW x \in Actors, Check(x)
    PROVE  MoneyInv'
<1>1. tx[x].pc = "locked" /\ tx[x] \in Tx /\ lock = x
  BY DEF Check, MoneyInv, TypeOK, Tx, OneWriter, Posting
<1>2. CASE AlreadyPosted(tx[x]) \/ Delinquent(tx[x])
  <2>1. Rollback(x) /\ skipped' = skipped
    BY <1>2 DEF Check
  <2>. QED
    BY <1>1, <2>1, RollbackKeeps DEF Posting, MoneyInv, TypeOK
<1>3. CASE ~ (AlreadyPosted(tx[x]) \/ Delinquent(tx[x]))
  <2> DEFINE new == [tx[x] EXCEPT !.pc = "writing", !.bal = balance]
  <2>1. tx' = [tx EXCEPT ![x] = new] /\ lock' = lock /\ UNCHANGED << balance, entries >>
    BY <1>3 DEF Check, database
  <2>2. balance \in [Accounts -> Int] /\ entries \in Seq(Entry)
    BY DEF MoneyInv, TypeOK
  <2>3. /\ new \in Tx /\ new.pc = "writing" /\ new.acct = tx[x].acct
        /\ new.draft = tx[x].draft /\ new.bal = balance /\ new.op = tx[x].op
        /\ new.key = tx[x].key
    BY <1>1, <2>2 DEF Tx
  <2>4. tx'[x] = new
    BY <2>1 DEF MoneyInv, TypeOK
  <2>5. /\ tx[x].acct \in Factories /\ tx[x].draft = << >>
        /\ tx[x].op = "bill" => tx[x].key \in Nat
    BY <1>1 DEF MoneyInv, TxSound
  <2>6. entries \o << >> = entries /\ DOMAIN << >> = {} /\ Len(<< >>) = 0
    BY <2>2, ConcatEmptySeq
  <2>7. Len(Legs(new)) \in 1..2
    BY <2>3, <2>5, LegsShape
  <2>8. IsBooks(entries \o << >>, balance)
    BY <2>6 DEF MoneyInv, LedgerSound, BooksAgree
  <2>9. (\A a \in Accounts : balance[a] >= -Floor) /\ balance[Vault] >= 0
    BY DEF MoneyInv, LedgerSound, DebtBounded
  <2>10. new.op \in {"charge", "bill"} => ~ Posted(new.op, new.acct, new.key)
    BY <1>3, <2>3 DEF AlreadyPosted
  <2>11. Drafted(x)'
    <3>1. UNCHANGED << balance, entries >> /\ tx'[x] = new
      BY <2>1, <2>4
    <3>2. IsBooks(entries' \o tx'[x].draft, tx'[x].bal)
      BY <2>3, <2>5, <2>8, <3>1
    <3>. QED
      BY <2>3, <2>5, <2>6, <2>7, <2>9, <2>10, <3>1, <3>2 DEF Drafted, Posted
  <2>12. TxSound(x)'
    BY <2>3, <2>4, <2>5, <2>11 DEF TxSound
  <2>13. RestType'
    BY <1>3, RestTyped DEF Check, RestType, scheduler
  <2>. QED
    BY <1>1, <2>1, <2>3, <2>12, <2>13, TxWrite DEF Posting
<1>. QED
  BY <1>2, <1>3

LEMMA AppendBehind ==
    ASSUME NEW S, NEW s \in Seq(S), NEW t \in Seq(S), NEW e \in S
    PROVE  s \o Append(t, e) = Append(s \o t, e)
OBVIOUS

(* One leg more, on the balance that the transaction sees; or the end of   *)
(* the transaction.                                                        *)
LEMMA WriteKeeps ==
    ASSUME MoneyInv, NEW x \in Actors, Write(x)
    PROVE  MoneyInv'
<1> DEFINE t == tx[x]
           n == Len(t.draft)
           leg == Legs(t)[n + 1]
           after == t.bal[leg.acct] + leg.amt
           e == [acct |-> leg.acct, op |-> t.op, key |-> t.key, amt |-> leg.amt,
                 after |-> after]
           new == [t EXCEPT !.bal[leg.acct] = after, !.draft = Append(@, e)]
<1>1. t.pc = "writing" /\ t \in Tx /\ lock = x /\ tx \in [Actors -> Tx]
  BY DEF Write, MoneyInv, TypeOK, Tx, OneWriter, Posting
<1>2. t.acct \in Factories /\ Drafted(x)
  BY <1>1 DEF MoneyInv, TxSound
<1>3. /\ n \in Nat /\ n < Len(Legs(t)) /\ n + 1 \in 1..Len(Legs(t))
      /\ t.draft \in Seq(Entry) /\ DOMAIN t.draft = 1..n
      /\ t.bal \in [Accounts -> Int] /\ t.op \in {"fund", "charge", "bill"}
      /\ t.key \in Keys \cup Nat \cup {None}
  <2>1. t.draft \in Seq(Entry)
    BY <1>1 DEF Tx
  <2>2. Len(Legs(t)) \in 1..2 /\ n # Len(Legs(t)) /\ n <= Len(Legs(t))
    BY <1>1, <1>2, LegsShape DEF Write, Written, Drafted
  <2>. QED
    BY <1>1, <2>1, <2>2 DEF Tx
<1>4. leg.acct \in Accounts /\ leg.amt \in Int /\ after \in Int
  BY <1>1, <1>2, <1>3, LegsShape
<1>5. CASE ~ Allowed(t.op, leg.amt, after)
  <2>1. Rollback(x) /\ skipped' = Skip(x)
    BY <1>5 DEF Write
  <2>2. t.op = "bill" => t.acct \in Accounts /\ t.key \in Nat
    BY <1>2, Amounts DEF MoneyInv, TxSound
  <2>3. skipped' \subseteq Accounts \X Nat
    BY <2>1, <2>2 DEF Skip, MoneyInv, TypeOK
  <2>. QED
    BY <1>1, <2>1, <2>3, RollbackKeeps DEF Posting
<1>6. CASE Allowed(t.op, leg.amt, after)
  <2>1. tx' = [tx EXCEPT ![x].bal[leg.acct] = after, ![x].draft = Append(@, e)]
        /\ UNCHANGED << balance, entries, lock, month, job, done, ops, deaths, skipped >>
    BY <1>6 DEF Write, database, scheduler
  <2>2. tx' = [tx EXCEPT ![x] = new]
    BY <1>1, <2>1
  <2>3. e \in Entry /\ e.acct = leg.acct /\ e.after = after /\ e.amt = leg.amt
    BY <1>3, <1>4 DEF Entry
  <2> HIDE DEF leg, after, e
  <2>4. [t.bal EXCEPT ![leg.acct] = after] \in [Accounts -> Int]
    BY <1>3, <1>4
  <2>5. Append(t.draft, e) \in Seq(Entry)
    BY <1>3, <2>3
  <2>6. /\ new \in Tx /\ new.pc = "writing" /\ new.op = t.op /\ new.acct = t.acct
        /\ new.key = t.key /\ new.draft = Append(t.draft, e)
        /\ new.bal = [t.bal EXCEPT ![leg.acct] = after]
    BY <1>1, <2>4, <2>5 DEF Tx
  <2> HIDE DEF new
  <2>7. tx'[x] = new
    BY <1>1, <2>2
  <2>8. Legs(new) = Legs(t)
    BY <2>6 DEF Legs
  <2>9. Drafted(x)'
    <3>1. IsBooks(entries \o new.draft, new.bal)
      <4>1. entries \in Seq(Entry) /\ entries \o t.draft \in Seq(Entry)
        BY <1>3, ConcatProperties DEF MoneyInv, TypeOK
      <4>2. entries \o Append(t.draft, e) = Append(entries \o t.draft, e)
        BY <1>3, <2>3, <4>1, AppendBehind, SMTT(30)
      <4>3. IsBooks(entries \o t.draft, t.bal)
        BY <1>2 DEF Drafted
      <4>4. e.after = t.bal[e.acct] + e.amt
        BY <2>3 DEF after
      <4>5. IsBooks(Append(entries \o t.draft, e), [t.bal EXCEPT ![e.acct] = e.after])
        BY <1>3, <2>3, <4>1, <4>3, <4>4, BooksGrow
      <4>. QED
        BY <2>3, <2>6, <4>2, <4>5
    <3>2. /\ Len(new.draft) = n + 1 /\ DOMAIN new.draft = 1..(n + 1)
          /\ new.draft[n + 1] = e /\ \A i \in 1..n : new.draft[i] = t.draft[i]
      BY <1>3, <2>3, <2>6
    <3>3. Len(new.draft) <= Len(Legs(new))
      BY <1>3, <2>8, <3>2
    <3>4. t.op = "charge" => after >= 0
      <4>1. t.op = "charge" => leg.amt < 0 /\ leg.amt \in Int
        BY <1>1, <1>2, <1>3, LegsShape DEF leg
      <4>. QED
        BY <1>6, <4>1 DEF Allowed, MayOverdraw
    <3>5. \A i \in DOMAIN new.draft :
              /\ new.draft[i].op = new.op /\ new.draft[i].key = new.key
              /\ new.draft[i].acct = Legs(new)[i].acct
              /\ new.draft[i].amt = Legs(new)[i].amt
              /\ new.op = "charge" => new.draft[i].after >= 0
      <4>1. ASSUME NEW i \in 1..n
            PROVE  /\ t.draft[i].op = t.op /\ t.draft[i].key = t.key
                   /\ t.draft[i].acct = Legs(t)[i].acct /\ t.draft[i].amt = Legs(t)[i].amt
                   /\ t.op = "charge" => t.draft[i].after >= 0
        BY <1>2, <1>3 DEF Drafted
      <4>2. /\ e.op = t.op /\ e.key = t.key /\ e.acct = Legs(t)[n + 1].acct
            /\ e.amt = Legs(t)[n + 1].amt /\ (t.op = "charge" => e.after >= 0)
        BY <2>3, <3>4 DEF e, leg
      <4>3. \A i \in 1..(n + 1) : i \in 1..n \/ i = n + 1
        BY <1>3
      <4>. QED
        BY <2>6, <2>8, <3>2, <4>1, <4>2, <4>3
    <3>6. after >= -Floor
      BY <1>6 DEF Allowed
    <3>7. \A a \in Accounts :
              /\ new.bal[a] >= -Floor
              /\ (\A i \in DOMAIN new.draft : new.draft[i].acct # a) => new.bal[a] = balance[a]
      <4>1. ASSUME NEW a \in Accounts, a = leg.acct
            PROVE  new.bal[a] >= -Floor /\ \E i \in DOMAIN new.draft : new.draft[i].acct = a
        BY <1>3, <1>4, <2>3, <2>6, <3>2, <3>6, <4>1
      <4>2. ASSUME NEW a \in Accounts, a # leg.acct
            PROVE  /\ new.bal[a] >= -Floor
                   /\ (\A i \in DOMAIN new.draft : new.draft[i].acct # a)
                         => new.bal[a] = balance[a]
        <5>1. new.bal[a] = t.bal[a]
          BY <1>3, <2>6, <4>2
        <5>2. /\ t.bal[a] >= -Floor
              /\ (\A i \in DOMAIN t.draft : t.draft[i].acct # a) => t.bal[a] = balance[a]
          BY <1>2 DEF Drafted
        <5>3. \A i \in DOMAIN t.draft : i \in DOMAIN new.draft /\ new.draft[i] = t.draft[i]
          BY <1>3, <3>2
        <5>. QED
          BY <5>1, <5>2, <5>3
      <4>. QED
        BY <4>1, <4>2
    <3>8. new.bal[Vault] >= 0
      <4>1. t.bal[Vault] >= 0
        BY <1>2 DEF Drafted
      <4>2. CASE leg.acct = Vault
        <5>1. t.op = "fund" /\ leg.amt = -Funding
          BY <1>1, <1>2, <1>3, <4>2, LegsShape, Amounts, SMTT(30) DEF leg
        <5>2. after >= 0
          BY <1>4, <1>6, <5>1, Amounts DEF Allowed, MayOverdraw
        <5>. QED
          BY <1>3, <1>4, <2>6, <4>2, <5>2
      <4>3. CASE leg.acct # Vault
        BY <1>3, <2>6, <4>1, <4>3, Amounts
      <4>. QED
        BY <4>2, <4>3
    <3>9. new.op \in {"charge", "bill"} => ~ Posted(new.op, new.acct, new.key)
      BY <1>2, <2>6 DEF Drafted
    <3>10. UNCHANGED << balance, entries >>
      BY <2>1
    <3>. QED
      BY <2>7, <3>1, <3>3, <3>5, <3>7, <3>8, <3>9, <3>10 DEF Drafted, Posted
  <2>10. TxSound(x)' /\ RestType'
    <3>1. tx'[x].pc = "writing" /\ tx'[x].acct \in Factories
      BY <1>2, <2>6, <2>7
    <3>3. t.op = "bill" => t.key \in Nat
      BY DEF MoneyInv, TxSound
    <3>2. TxSound(x)'
      BY <2>6, <2>7, <2>9, <3>1, <3>3 DEF TxSound
    <3>. QED
      BY <2>1, <3>2, RestTyped DEF RestType
  <2>. QED
    BY <1>1, <2>1, <2>2, <2>6, <2>10, TxWrite DEF Posting
<1>. QED
  BY <1>5, <1>6

-----------------------------------------------------------------------------
(* The commit, and the ways a transaction ends without one.                *)

(* What the commit makes of the ledger, entry by entry. *)
LEMMA CommitShape ==
    ASSUME MoneyInv, NEW x \in Actors, Commit(x)
    PROVE  /\ tx[x] \in Tx /\ lock = x /\ tx[x].acct \in Factories /\ Drafted(x)
           /\ Len(entries) \in Nat /\ Len(tx[x].draft) \in 1..2
           /\ Len(tx[x].draft) = Len(Legs(tx[x]))
           /\ DOMAIN tx[x].draft = 1..Len(tx[x].draft)
           /\ entries' \in Seq(Entry)
           /\ DOMAIN entries = 1..Len(entries)
           /\ DOMAIN entries' = 1..(Len(entries) + Len(tx[x].draft))
           /\ \A i \in 1..Len(entries) : entries'[i] = entries[i]
           /\ \A k \in 1..Len(tx[x].draft) : entries'[Len(entries) + k] = tx[x].draft[k]
           /\ balance' = tx[x].bal
<1>1. tx[x].pc = "writing" /\ tx[x] \in Tx /\ lock = x
  BY DEF Commit, MoneyInv, TypeOK, Tx, OneWriter, Posting
<1>2. tx[x].acct \in Factories /\ Drafted(x)
  BY <1>1 DEF MoneyInv, TxSound
<1>3. Len(tx[x].draft) = Len(Legs(tx[x])) /\ Len(Legs(tx[x])) \in 1..2
  BY <1>1, <1>2, LegsShape DEF Commit, Written
<1>4. entries \in Seq(Entry) /\ tx[x].draft \in Seq(Entry)
  BY <1>1 DEF MoneyInv, TypeOK, Tx
<1>5. entries' = entries \o tx[x].draft
  BY DEF Commit
<1> DEFINE d == tx[x].draft
<1>6. /\ entries' \in Seq(Entry) /\ Len(entries') = Len(entries) + Len(d)
      /\ \A i \in 1..(Len(entries) + Len(d)) :
            entries'[i] = IF i <= Len(entries) THEN entries[i] ELSE d[i - Len(entries)]
  BY <1>4, <1>5, ConcatProperties
<1>7. balance' = tx[x].bal
  <2>1. \A a \in Accounts : (\A i \in DOMAIN d : d[i].acct # a) => tx[x].bal[a] = balance[a]
    BY <1>2 DEF Drafted
  <2>2. tx[x].bal \in [Accounts -> Int]
    BY <1>1 DEF Tx
  <2>3. balance' = [a \in Accounts |-> IF \E i \in DOMAIN d : d[i].acct = a
                                       THEN tx[x].bal[a] ELSE balance[a]]
    BY DEF Commit
  <2>4. balance' = [a \in Accounts |-> tx[x].bal[a]]
    BY <2>1, <2>3
  <2>. QED
    BY <2>2, <2>4
<1> HIDE DEF d
<1>8. Len(entries) \in Nat /\ Len(d) \in 1..2 /\ DOMAIN d = 1..Len(d)
      /\ DOMAIN entries = 1..Len(entries)
      /\ DOMAIN entries' = 1..(Len(entries) + Len(d))
  BY <1>3, <1>4, <1>6 DEF d
<1>9. \A i \in 1..Len(entries) : entries'[i] = entries[i]
  BY <1>6, <1>8
<1>10. \A k \in 1..Len(d) : entries'[Len(entries) + k] = d[k]
  <2>. SUFFICES ASSUME NEW k \in 1..Len(d) PROVE entries'[Len(entries) + k] = d[k]
    OBVIOUS
  <2>1. /\ Len(entries) + k \in 1..(Len(entries) + Len(d)) /\ ~ (Len(entries) + k <= Len(entries))
        /\ (Len(entries) + k) - Len(entries) = k
    BY <1>8
  <2>. QED
    BY <1>6, <2>1
<1>. QED
  BY <1>1, <1>2, <1>3, <1>6, <1>7, <1>8, <1>9, <1>10 DEF d

LEMMA CommitKeeps ==
    ASSUME MoneyInv, NEW x \in Actors, Commit(x)
    PROVE  MoneyInv'
<1> DEFINE t == tx[x]
           n == Len(entries)
           m == Len(t.draft)
<1>1. /\ t \in Tx /\ lock = x /\ t.acct \in Factories /\ Drafted(x)
      /\ n \in Nat /\ m \in 1..2 /\ m = Len(Legs(t)) /\ DOMAIN t.draft = 1..m
      /\ entries' \in Seq(Entry) /\ DOMAIN entries = 1..n /\ DOMAIN entries' = 1..(n + m)
      /\ \A i \in 1..n : entries'[i] = entries[i]
      /\ \A k \in 1..m : entries'[n + k] = t.draft[k]
      /\ balance' = t.bal
  BY CommitShape
<1>2. /\ t.op = "fund" => /\ m = 2
                          /\ Legs(t)[1].acct = Vault /\ Legs(t)[1].amt = -Funding
                          /\ Legs(t)[2].acct = t.acct /\ Legs(t)[2].amt = Funding
      /\ t.op # "fund" => m = 1 /\ Legs(t)[1].acct = t.acct
  BY <1>1, LegsShape
<1>3. \A k \in 1..m : /\ t.draft[k].op = t.op /\ t.draft[k].key = t.key
                      /\ t.draft[k].acct = Legs(t)[k].acct
                      /\ t.draft[k].amt = Legs(t)[k].amt
                      /\ t.op = "charge" => t.draft[k].after >= 0
  BY <1>1 DEF Drafted
<1>4. t.op \in {"charge", "bill"} => ~ Posted(t.op, t.acct, t.key)
  BY <1>1 DEF Drafted
<1>5. BooksAgree'
  <2>1. IsBooks(entries \o t.draft, t.bal)
    BY <1>1 DEF Drafted
  <2>2. entries' = entries \o t.draft
    BY DEF Commit
  <2>3. IsBooks(entries', balance')
    BY <1>1, <2>1, <2>2
  <2>. QED
    BY <2>3 DEF BooksAgree, IsBooks, BalanceAt
<1>6. DebtBounded'
  <2>1. (\A a \in Accounts : balance'[a] >= -Floor) /\ balance'[Vault] >= 0
    BY <1>1 DEF Drafted
  <2>2. \A i \in 1..n : entries[i].op = "charge" => entries[i].after >= 0
    BY <1>1 DEF MoneyInv, LedgerSound, DebtBounded
  <2> HIDE DEF t, n, m
  <2>3. \A i \in 1..(n + m) : i \in 1..n \/ \E k \in 1..m : i = n + k
    <3>1. \A i \in 1..(n + m) : i \in 1..n \/ (i - n \in 1..m /\ i = n + (i - n))
      BY <1>1
    <3>. QED
      BY <3>1
  <2>4. ASSUME NEW i \in 1..(n + m), entries'[i].op = "charge"
        PROVE  entries'[i].after >= 0
    <3>1. CASE i \in 1..n
      BY <1>1, <2>2, <2>4, <3>1
    <3>2. ASSUME NEW k \in 1..m, i = n + k PROVE entries'[i].after >= 0
      <4>1. entries'[i] = t.draft[k]
        BY <1>1, <3>2
      <4>. QED
        BY <1>3, <2>4, <4>1
    <3>. QED
      BY <2>3, <3>1, <3>2
  <2>. QED
    BY <1>1, <2>1, <2>4 DEF DebtBounded
<1>7. FundingIsWhole'
  <2>0. ASSUME NEW i \in 1..n, entries[i].op = "fund"
        PROVE  LET other == IF entries[i].acct = Vault THEN i + 1 ELSE i - 1
               IN  /\ other \in 1..n /\ entries[other].op = "fund"
                   /\ entries[other].amt = -entries[i].amt
                   /\ (entries[other].acct = Vault) # (entries[i].acct = Vault)
    BY <1>1, <2>0 DEF MoneyInv, LedgerSound, FundingIsWhole
  <2> HIDE DEF t, n, m
  <2>1. ASSUME NEW i \in 1..n, entries'[i].op = "fund"
        PROVE  LET other == IF entries'[i].acct = Vault THEN i + 1 ELSE i - 1
               IN  /\ other \in 1..(n + m) /\ entries'[other].op = "fund"
                   /\ entries'[other].amt = -entries'[i].amt
                   /\ (entries'[other].acct = Vault) # (entries'[i].acct = Vault)
    <3>1. entries'[i] = entries[i]
      BY <1>1
    <3> DEFINE other == IF entries[i].acct = Vault THEN i + 1 ELSE i - 1
    <3>2. /\ other \in 1..n /\ entries[other].op = "fund"
          /\ entries[other].amt = -entries[i].amt
          /\ (entries[other].acct = Vault) # (entries[i].acct = Vault)
      BY <2>0, <2>1, <3>1
    <3> HIDE DEF other
    <3>3. other \in 1..(n + m) /\ entries'[other] = entries[other]
      BY <1>1, <3>2
    <3>4. /\ other \in 1..(n + m) /\ entries'[other].op = "fund"
          /\ entries'[other].amt = -entries'[i].amt
          /\ (entries'[other].acct = Vault) # (entries'[i].acct = Vault)
      BY <3>1, <3>2, <3>3
    <3>. QED
      BY <3>1, <3>4 DEF other
  <2>2. ASSUME NEW k \in 1..m, entries'[n + k].op = "fund"
        PROVE  LET other == IF entries'[n + k].acct = Vault THEN (n + k) + 1 ELSE (n + k) - 1
               IN  /\ other \in 1..(n + m) /\ entries'[other].op = "fund"
                   /\ entries'[other].amt = -entries'[n + k].amt
                   /\ (entries'[other].acct = Vault) # (entries'[n + k].acct = Vault)
    <3>1. t.op = "fund"
      BY <1>1, <1>3, <2>2
    <3>2. m = 2 /\ 1 \in 1..m /\ 2 \in 1..m
      BY <1>2, <3>1
    <3>3. /\ entries'[n + 1].op = "fund" /\ entries'[n + 1].acct = Vault
          /\ entries'[n + 1].amt = -Funding
          /\ entries'[n + 2].op = "fund" /\ entries'[n + 2].acct # Vault
          /\ entries'[n + 2].amt = Funding
      BY <1>1, <1>2, <1>3, <3>1, <3>2, Amounts
    <3>4. CASE k = 1
      <4>1. (n + k) + 1 = n + 2 /\ n + 2 \in 1..(n + m) /\ Funding = -(-Funding)
        BY <1>1, <3>2, <3>4, Amounts
      <4>. QED
        BY <3>3, <3>4, <4>1
    <3>5. CASE k = 2
      <4>1. (n + k) - 1 = n + 1 /\ n + 1 \in 1..(n + m)
        BY <1>1, <3>2, <3>5
      <4>. QED
        BY <3>3, <3>5, <4>1
    <3>. QED
      BY <3>2, <3>4, <3>5
  <2>3. \A i \in 1..(n + m) : i \in 1..n \/ \E k \in 1..m : i = n + k
    <3>1. \A i \in 1..(n + m) : i \in 1..n \/ (i - n \in 1..m /\ i = n + (i - n))
      BY <1>1
    <3>. QED
      BY <3>1
  <2>4. ASSUME NEW i \in 1..(n + m), entries'[i].op = "fund"
        PROVE  LET other == IF entries'[i].acct = Vault THEN i + 1 ELSE i - 1
               IN  /\ other \in 1..(n + m) /\ entries'[other].op = "fund"
                   /\ entries'[other].amt = -entries'[i].amt
                   /\ (entries'[other].acct = Vault) # (entries'[i].acct = Vault)
    <3>1. CASE i \in 1..n
      BY <2>1, <2>4, <3>1
    <3>2. ASSUME NEW k \in 1..m, i = n + k
          PROVE  LET other == IF entries'[i].acct = Vault THEN i + 1 ELSE i - 1
                 IN  /\ other \in 1..(n + m) /\ entries'[other].op = "fund"
                     /\ entries'[other].amt = -entries'[i].amt
                     /\ (entries'[other].acct = Vault) # (entries'[i].acct = Vault)
      BY <2>2, <2>4, <3>2
    <3>. QED
      BY <2>3, <3>1, <3>2
  <2>. QED
    BY <1>1, <2>4 DEF FundingIsWhole
<1>8. ChargedOnce'
  <2> HIDE DEF t, n, m
  <2>1. ASSUME NEW i \in 1..n, NEW k \in 1..m, t.op \in {"charge", "bill"},
               entries'[i].op = t.op, entries'[i].acct = t.acct, entries'[i].key = t.key
        PROVE  FALSE
    BY <1>1, <1>4, <2>1 DEF Posted
  <2>2. \A k \in 1..m : t.op \in {"charge", "bill"} =>
            /\ k = 1
            /\ entries'[n + k].op = t.op /\ entries'[n + k].acct = t.acct
            /\ entries'[n + k].key = t.key
    <3>1. SUFFICES ASSUME NEW k \in 1..m, t.op \in {"charge", "bill"}
                   PROVE  /\ k = 1
                          /\ entries'[n + k].op = t.op /\ entries'[n + k].acct = t.acct
                          /\ entries'[n + k].key = t.key
      OBVIOUS
    <3>2. t.op # "fund" /\ m = 1 /\ k = 1
      BY <1>2, <3>1
    <3>3. entries'[n + k] = t.draft[k] /\ Legs(t)[k].acct = t.acct
      BY <1>1, <1>2, <3>2
    <3>. QED
      BY <1>3, <3>2, <3>3
  <2>3. \A k \in 1..m : entries'[n + k].op = t.op
    BY <1>1, <1>3
  <2>4. \A i \in 1..(n + m) : i \in 1..n \/ \E k \in 1..m : i = n + k
    <3>1. \A i \in 1..(n + m) : i \in 1..n \/ (i - n \in 1..m /\ i = n + (i - n))
      BY <1>1
    <3>. QED
      BY <3>1
  <2>5. ASSUME NEW i \in 1..(n + m), NEW j \in 1..(n + m),
               entries'[i].op \in {"charge", "bill"}, entries'[i].op = entries'[j].op,
               entries'[i].acct = entries'[j].acct, entries'[i].key = entries'[j].key
        PROVE  i = j
    <3>1. CASE i \in 1..n /\ j \in 1..n
      BY <1>1, <2>5, <3>1 DEF MoneyInv, ChargedOnce
    <3>2. ASSUME NEW k \in 1..m, j = n + k, i \in 1..n PROVE i = j
      BY <2>1, <2>2, <2>3, <2>5, <3>2
    <3>3. ASSUME NEW k \in 1..m, i = n + k, j \in 1..n PROVE i = j
      BY <2>1, <2>2, <2>3, <2>5, <3>3
    <3>4. ASSUME NEW k \in 1..m, NEW l \in 1..m, i = n + k, j = n + l PROVE i = j
      BY <2>2, <2>3, <2>5, <3>4
    <3>. QED
      BY <2>4, <3>1, <3>2, <3>3, <3>4
  <2>. QED
    BY <1>1, <2>5 DEF ChargedOnce
<1>9. /\ lock' = None /\ tx' = [tx EXCEPT ![x] = NoTx]
      /\ UNCHANGED << month, job, done, ops, deaths, skipped >>
  BY DEF Commit, scheduler
<1>10. tx \in [Actors -> Tx] /\ tx' \in [Actors -> Tx]
  BY <1>9, NoTxType DEF MoneyInv, TypeOK, Tx
<1>11. TypeOK'
  <2>1. balance' \in [Accounts -> {b \in Int : b >= -Floor}]
    BY <1>1 DEF Tx, Drafted
  <2>2. RestType'
    BY <1>9, RestTyped DEF RestType
  <2>3. lock' \in Actors \cup {None} /\ entries' \in Seq(Entry)
    BY <1>1, <1>9
  <2>. QED
    BY <1>10, <2>1, <2>2, <2>3 DEF TypeOK, Tx, RestType
<1>12. \A y \in Actors : y # x => tx[y].pc \notin Posting /\ tx'[y] = tx[y]
  BY <1>1, <1>9, <1>10 DEF MoneyInv, OneWriter
<1>13. tx'[x] = NoTx /\ NoTx.pc \notin Posting
  BY <1>9, <1>10 DEF NoTx, Posting
<1>14. OneWriter'
  BY <1>9, <1>12, <1>13, Amounts DEF OneWriter
<1>15. ASSUME NEW y \in Actors PROVE TxSound(y)'
  <2>1. CASE y = x
    BY <1>13, <2>1, NoTxSound
  <2>2. CASE y # x
    <3>1. TxSound(y) /\ tx[y].pc # "writing" /\ tx'[y] = tx[y]
      BY <1>12, <2>2 DEF MoneyInv, Posting
    <3>. QED
      BY <3>1 DEF TxSound
  <2>. QED
    BY <2>1, <2>2
<1>. QED
  BY <1>5, <1>6, <1>7, <1>8, <1>11, <1>14, <1>15 DEF MoneyInv, LedgerSound

LEMMA FaultKeeps ==
    ASSUME MoneyInv, NEW x \in Actors, Fault(x)
    PROVE  MoneyInv'
<1>1. tx[x].pc \in Posting /\ Rollback(x) /\ skipped' = Skip(x)
  BY DEF Fault, Posting
<1>2. tx[x].op = "bill" => tx[x].acct \in Accounts /\ tx[x].key \in Nat
  BY <1>1, Amounts DEF MoneyInv, TxSound, Posting
<1>3. skipped' \subseteq Accounts \X Nat
  BY <1>1, <1>2 DEF Skip, MoneyInv, TypeOK
<1>. QED
  BY <1>1, <1>3, RollbackKeeps

-----------------------------------------------------------------------------
(* The scheduler, its deaths and the clock.                                *)

Job == [pc : {"off", "due", "billing"}, slot : Nat, per : Nat, todo : SUBSET Stored]

LEMMA WorkKeeps ==
    ASSUME MoneyInv, NEW w \in Workers, Work(w)
    PROVE  MoneyInv'
<1>0. RestType /\ job \in [Workers -> Job] /\ job[w] \in Job /\ NoJob \in Job
  BY RestTyped DEF RestType, Job, NoJob
<1>1. ASSUME NEW j \in Job, SetJob(w, j), UNCHANGED tx, done' \in [Workers -> Nat]
      PROVE  MoneyInv'
  <2>1. /\ job' = [job EXCEPT ![w] = j]
        /\ UNCHANGED << balance, entries, lock, tx, month, ops, deaths, skipped >>
    BY <1>1 DEF SetJob, database
  <2>2. job' \in [Workers -> Job]
    BY <1>0, <2>1
  <2>3. RestType'
    BY <1>0, <1>1, <2>1, <2>2 DEF RestType, Job
  <2>. QED
    BY <2>1, <2>3, MoneyRests
<1>2. month \in Nat /\ done \in [Workers -> Nat]
  BY <1>0 DEF RestType
<1>3. CASE Due(w)
  <2>1. [NoJob EXCEPT !.pc = "due", !.slot = month] \in Job
    BY <1>0, <1>2 DEF Job
  <2>. QED
    BY <1>1, <1>2, <1>3, <2>1 DEF Due
<1>4. CASE StartBilling(w)
  <2>1. [job[w] EXCEPT !.pc = "billing", !.per = month, !.todo = Stored] \in Job
    BY <1>0, <1>2 DEF Job
  <2>. QED
    BY <1>1, <1>2, <1>4, <2>1 DEF StartBilling
<1>5. CASE JobFails(w)
  <2>1. /\ w \in Actors /\ tx[w].pc \notin Posting
        /\ SetJob(w, NoJob) /\ tx' = [tx EXCEPT ![w] = NoTx] /\ done' = done
    BY <1>5 DEF JobFails, Actors, Posting
  <2>2. /\ job' = [job EXCEPT ![w] = NoJob]
        /\ UNCHANGED << balance, entries, lock, month, ops, deaths, skipped >>
    BY <2>1 DEF SetJob, database
  <2>3. job' \in [Workers -> Job]
    BY <1>0, <2>2
  <2>4. RestType'
    BY <1>0, <1>2, <2>1, <2>2, <2>3 DEF RestType, Job
  <2>. QED
    BY <2>1, <2>2, <2>4, GivenUpKeeps
<1>6. CASE JobDone(w)
  <2>1. SlotRun(job[w]) \in Nat
    BY <1>0 DEF SlotRun, Job
  <2>2. done' \in [Workers -> Nat]
    BY <1>2, <1>6, <2>1 DEF JobDone
  <2>. QED
    BY <1>0, <1>1, <1>6, <2>2 DEF JobDone
<1>7. CASE BillNext(w)
  <2>1. PICK a \in job[w].todo :
            /\ SetJob(w, [job[w] EXCEPT !.todo = @ \ {a}])
            /\ tx' = [tx EXCEPT ![w] = [NoTx EXCEPT !.pc = "ready", !.op = "bill",
                                                    !.acct = a, !.key = job[w].per]]
    BY <1>7 DEF BillNext
  <2> DEFINE new == [NoTx EXCEPT !.pc = "ready", !.op = "bill", !.acct = a,
                                 !.key = job[w].per]
             j == [job[w] EXCEPT !.todo = @ \ {a}]
  <2>2. w \in Actors /\ tx[w].pc = "idle" /\ done' = done
    BY <1>7 DEF BillNext, Actors
  <2>3. lock # w
    BY <2>2 DEF MoneyInv, OneWriter, Posting
  <2>4. job[w].per \in Nat /\ a \in Factories /\ a \in Accounts /\ j \in Job
    BY <1>0, Amounts DEF Job
  <2>5. new \in Tx
    BY <2>4, NoTxType DEF Tx
  <2>6. /\ new.pc = "ready" /\ new.op = "bill" /\ new.acct = a /\ new.key = job[w].per
        /\ new.draft = << >>
    BY DEF NoTx
  <2> HIDE DEF new, j
  <2>7. tx' = [tx EXCEPT ![w] = new] /\ SetJob(w, j)
    BY <2>1 DEF new, j
  <2>8. tx'[w] = new
    BY <2>2, <2>7 DEF MoneyInv, TypeOK
  <2>9. TxSound(w)'
    <3>1. /\ tx'[w].pc = "ready" /\ tx'[w].acct \in Factories /\ tx'[w].draft = << >>
          /\ tx'[w].key \in Nat
      BY <2>4, <2>6, <2>8
    <3>. QED
      BY <3>1 DEF TxSound
  <2>10. /\ job' = [job EXCEPT ![w] = j]
         /\ UNCHANGED << balance, entries, lock, month, ops, deaths, skipped >>
    BY <2>7 DEF SetJob, database
  <2>11. job' \in [Workers -> Job]
    BY <1>0, <2>4, <2>10
  <2>12. RestType'
    BY <1>0, <2>2, <2>10, <2>11 DEF RestType, Job
  <2>. QED
    BY <2>2, <2>3, <2>5, <2>6, <2>7, <2>9, <2>10, <2>12, TxWrite DEF Posting
<1>. QED
  BY <1>3, <1>4, <1>5, <1>6, <1>7 DEF Work

(* A death rolls back whatever the scheduler was doing. *)
LEMMA DieKeeps ==
    ASSUME MoneyInv, NEW w \in Workers, Die(w)
    PROVE  MoneyInv'
<1>0. RestType /\ NoJob \in Job /\ w \in Actors
  BY RestTyped DEF Job, NoJob, Actors
<1>1. /\ lock' = (IF lock = w THEN None ELSE lock) /\ tx' = [tx EXCEPT ![w] = NoTx]
      /\ deaths' = deaths + 1
      /\ job' = [job EXCEPT ![w] = NoJob] /\ done' = [done EXCEPT ![w] = 0]
      /\ UNCHANGED << balance, entries, month, ops, skipped >>
  BY DEF Die, database
<1>2. tx \in [Actors -> Tx] /\ tx' \in [Actors -> Tx]
  BY <1>1, NoTxType DEF MoneyInv, TypeOK, Tx
<1>3. RestType'
  <2>1. job' \in [Workers -> Job] /\ done' \in [Workers -> Nat] /\ deaths' \in Nat
    BY <1>0, <1>1 DEF RestType, Job
  <2>. QED
    BY <1>0, <1>1, <2>1 DEF RestType, Job
<1>4. TypeOK'
  BY <1>1, <1>2, <1>3 DEF MoneyInv, TypeOK, Tx, RestType
<1>5. tx'[w] = NoTx /\ \A y \in Actors : y # w => tx'[y] = tx[y]
  BY <1>0, <1>1, <1>2
<1>6. OneWriter'
  <2>1. NoTx.pc \notin Posting
    BY DEF NoTx, Posting
  <2>. QED
    BY <1>0, <1>1, <1>5, <2>1, Amounts DEF MoneyInv, OneWriter
<1>7. ASSUME NEW y \in Actors PROVE TxSound(y)'
  BY <1>0, <1>1, <1>5, NoTxSound, OthersSound DEF MoneyInv
<1>. QED
  BY <1>1, <1>4, <1>6, <1>7, SameLedger DEF MoneyInv

LEMMA NextMonthKeeps ==
    ASSUME MoneyInv, NextMonth
    PROVE  MoneyInv'
<1>1. /\ month' = month + 1
      /\ UNCHANGED << balance, entries, lock, tx, job, done, ops, deaths, skipped >>
  BY DEF NextMonth, database, scheduler
<1>2. RestType'
  BY <1>1, RestTyped DEF RestType
<1>. QED
  BY <1>1, <1>2, MoneyRests

-----------------------------------------------------------------------------
(* The invariant, and what follows from it.                                *)

LEMMA MoneyInit == Init => MoneyInv
<1>. SUFFICES ASSUME Init PROVE MoneyInv
  OBVIOUS
<1> DEFINE e == [acct |-> Vault, op |-> "post", key |-> None, amt |-> Opening,
                 after |-> Opening]
<1>1. e \in Entry /\ e.acct = Vault /\ e.op = "post" /\ e.amt = Opening /\ e.after = Opening
  BY Amounts DEF Entry
<1> HIDE DEF e
<1>2. entries = << e >>
  BY DEF Init, e
<1>3. entries \in Seq(Entry) /\ Len(entries) = 1 /\ DOMAIN entries = 1..1 /\ entries[1] = e
  BY <1>1, <1>2
<1>4. /\ balance \in [Accounts -> {b \in Int : b >= -Floor}]
      /\ balance[Vault] = Opening /\ \A a \in Accounts : a # Vault => balance[a] = 0
      /\ \A a \in Accounts : balance[a] >= -Floor
  BY Amounts DEF Init
<1>5. TypeOK
  <2>1. tx \in [Actors -> Tx] /\ job \in [Workers -> Job]
    BY NoTxType DEF Init, NoJob, Job
  <2>. QED
    BY <1>3, <1>4, <2>1 DEF Init, TypeOK, Tx, Job
<1>6. OneWriter
  BY Amounts DEF Init, OneWriter, NoTx, Posting
<1>7. BooksAgree
  <2>1. BalanceAt(entries, Vault, 0, 0)
    BY DEF BalanceAt
  <2>2. \A i \in DOMAIN entries :
            BalanceAt(entries, entries[i].acct, i - 1, entries[i].after - entries[i].amt)
    <3>1. \A i \in DOMAIN entries : i = 1 /\ i - 1 = 0 /\ entries[i] = e
      BY <1>3
    <3>2. e.after - e.amt = 0
      BY <1>1, Amounts
    <3>. QED
      BY <1>1, <2>1, <3>1, <3>2
  <2>3. \A a \in Accounts : BalanceAt(entries, a, 1, balance[a])
    BY <1>1, <1>3, <1>4, Amounts DEF BalanceAt
  <2>. QED
    BY <1>3, <2>2, <2>3 DEF BooksAgree, IsBooks
<1>8. FundingIsWhole /\ ChargedOnce /\ DebtBounded
  <2>1. \A i \in DOMAIN entries : i = 1 /\ entries[i].op = "post"
    BY <1>1, <1>3
  <2>2. FundingIsWhole
    BY <2>1 DEF FundingIsWhole
  <2>3. ChargedOnce
    BY <2>1 DEF ChargedOnce
  <2>4. DebtBounded
    BY <1>4, <2>1, Amounts DEF DebtBounded
  <2>. QED
    BY <2>2, <2>3, <2>4
<1>9. \A x \in Actors : TxSound(x)
  BY DEF Init, TxSound, NoTx
<1>. QED
  BY <1>5, <1>6, <1>7, <1>8, <1>9 DEF MoneyInv, LedgerSound

LEMMA MoneyStep == MoneyInv /\ [Next]_vars => MoneyInv'
<1>. SUFFICES ASSUME MoneyInv, [Next]_vars PROVE MoneyInv'
  OBVIOUS
<1>1. ASSUME NEW c \in Clients, Request(c) PROVE MoneyInv'
  BY <1>1, OpenKeeps, BusyKeeps DEF Request
<1>2. ASSUME NEW x \in Actors, Transact(x) PROVE MoneyInv'
  BY <1>2, BeginKeeps, CheckKeeps, WriteKeeps, CommitKeeps, FaultKeeps DEF Transact
<1>3. ASSUME NEW w \in Workers, Work(w) PROVE MoneyInv'
  BY <1>3, WorkKeeps
<1>4. ASSUME NEW w \in Workers, Die(w) PROVE MoneyInv'
  BY <1>4, DieKeeps
<1>5. CASE NextMonth
  BY <1>5, NextMonthKeeps
<1>6. CASE UNCHANGED vars
  <2>1. UNCHANGED << balance, entries, lock, tx, month, job, done, ops, deaths, skipped >>
    BY <1>6 DEF vars, database, scheduler
  <2>2. RestType'
    BY <2>1, RestTyped DEF RestType
  <2>. QED
    BY <2>1, <2>2, MoneyRests
<1>. QED
  BY <1>1, <1>2, <1>3, <1>4, <1>5, <1>6 DEF Next

LEMMA MoneyInvHolds == Spec => []MoneyInv
BY MoneyInit, MoneyStep, PTL DEF Spec

(* Balances, entries and transactions keep their types; a balance never    *)
(* passes the overdraft floor.                                             *)
THEOREM WalletTypeCorrect == Spec => []TypeOK
<1>1. MoneyInv => TypeOK
  BY DEF MoneyInv
<1>. QED
  BY <1>1, MoneyInvHolds, PTL

(* The ledger is sound: every balance is what its entries make of it, a    *)
(* funding is posted whole, debt has its floor and the vault has none; for *)
(* any number of requests and schedulers, through their faults and deaths. *)
THEOREM LedgerIsSound == Spec => []LedgerSound
<1>1. MoneyInv => LedgerSound
  BY DEF MoneyInv
<1>. QED
  BY <1>1, MoneyInvHolds, PTL

(* No key is charged twice to an account, and no month is billed twice.    *)
THEOREM ChargedOnlyOnce == Spec => []ChargedOnce
<1>1. MoneyInv => ChargedOnce
  BY DEF MoneyInv
<1>. QED
  BY <1>1, MoneyInvHolds, PTL

-----------------------------------------------------------------------------
(* What a scheduler's pass has still to bill.                              *)

Billed(a, p) == Posted("bill", a, p) \/ << a, p >> \in skipped

(* The scheduler is about to bill the account, or in the middle of it. *)
InHand(w, a) ==
    /\ tx[w].pc # "idle" /\ tx[w].op = "bill"
    /\ tx[w].acct = a /\ tx[w].key = job[w].per

(* No slot and no period is ahead of the clock, a period is no earlier     *)
(* than its slot, and an account that the pass has taken off its list is   *)
(* billed for the period, passed over, or in hand.                         *)
JobSound(w) ==
    /\ done[w] <= month
    /\ job[w].pc # "off" => job[w].slot <= month
    /\ job[w].pc # "billing" => tx[w].pc = "idle"
    /\ job[w].pc = "billing" =>
          /\ job[w].slot <= job[w].per /\ job[w].per <= month
          /\ \A a \in Stored :
                a \in job[w].todo \/ Billed(a, job[w].per) \/ InHand(w, a)

BillingInv ==
    /\ MoneyInv
    /\ month >= 1
    /\ DoneIsBilled
    /\ \A w \in Workers : JobSound(w)

(* What a step outside of the transactions, and of a job's end, leaves.    *)
LEMMA RequestLeaves ==
    ASSUME NEW c \in Clients, Request(c)
    PROVE  /\ UNCHANGED << entries, month, job, done, skipped >>
           /\ \E new : tx' = [tx EXCEPT ![c] = new]
<1>1. UNCHANGED << entries, month, job, done, skipped >>
  BY DEF Request, Open, Busy, database, scheduler
<1>2. \E new : tx' = [tx EXCEPT ![c] = new]
  BY Zenon DEF Request, Open, Busy
<1>. QED
  BY <1>1, <1>2

LEMMA WorkLeaves ==
    ASSUME NEW w \in Workers, Work(w)
    PROVE  UNCHANGED << entries, month, skipped >>
<1>1. ASSUME NEW j, SetJob(w, j) PROVE UNCHANGED << entries, month, skipped >>
  BY <1>1 DEF SetJob, database
<1>2. \/ \E j : SetJob(w, j)
      \/ \E a \in job[w].todo : \E j : SetJob(w, j)
  BY Zenon DEF Work, Due, StartBilling, JobFails, BillNext, JobDone
<1>. QED
  BY <1>1, <1>2

(* The ledger, and the accounts passed over, only grow. *)
LEMMA BilledStays ==
    ASSUME MoneyInv, [Next]_vars, NEW a, NEW p, Billed(a, p)
    PROVE  Billed(a, p)'
<1>1. ASSUME NEW x \in Actors, Transact(x) PROVE skipped \subseteq skipped'
  <2>1. skipped' = skipped \/ skipped' = Skip(x)
    BY <1>1 DEF Transact, BeginImmediate, Check, Write, Commit, Fault
  <2>. QED
    BY <2>1 DEF Skip
<1>2. ASSUME NEW x \in Actors, Transact(x) PROVE entries' = entries \/ Commit(x)
  BY <1>2 DEF Transact, BeginImmediate, Check, Write, Fault, Rollback, database
<1>3. \/ \E x \in Actors : Transact(x)
      \/ UNCHANGED << entries, skipped >>
  <2>1. ASSUME NEW c \in Clients, Request(c) PROVE UNCHANGED << entries, skipped >>
    BY <2>1, RequestLeaves
  <2>3. ASSUME NEW w \in Workers, Work(w) PROVE UNCHANGED << entries, skipped >>
    BY <2>3, WorkLeaves
  <2>4. ASSUME NEW w \in Workers, Die(w) PROVE UNCHANGED << entries, skipped >>
    BY <2>4 DEF Die, database
  <2>. QED
    BY <2>1, <2>3, <2>4 DEF Next, NextMonth, vars, database
<1>4. ASSUME NEW x \in Actors, Commit(x), Posted("bill", a, p) PROVE Posted("bill", a, p)'
  <2>1. \A i \in DOMAIN entries : i \in DOMAIN entries' /\ entries'[i] = entries[i]
    BY <1>4, CommitShape
  <2>. QED
    BY <1>4, <2>1 DEF Posted
<1>5. entries' = entries /\ Posted("bill", a, p) => Posted("bill", a, p)'
  BY DEF Posted
<1>. QED
  BY <1>1, <1>2, <1>3, <1>4, <1>5 DEF Billed

(* A step of a transaction goes on with what it is for, or ends it; when a *)
(* bill ends, its account is billed for the month, or was passed over.     *)
EndsBilled(x) ==
    /\ \A y \in Actors : y # x => tx'[y] = tx[y]
    /\ tx[x].pc # "idle"
    /\ \/ /\ tx'[x].pc # "idle" /\ tx'[x].op = tx[x].op
          /\ tx'[x].acct = tx[x].acct /\ tx'[x].key = tx[x].key
       \/ /\ tx'[x].pc = "idle"
          /\ \A a, p : tx[x].op = "bill" /\ tx[x].acct = a /\ tx[x].key = p => Billed(a, p)'
    /\ UNCHANGED << month, job, done >>

LEMMA BillEnds ==
    ASSUME MoneyInv, NEW x \in Actors, Transact(x)
    PROVE  EndsBilled(x)
<1>0. tx \in [Actors -> Tx] /\ tx[x] \in Tx /\ NoTx.pc = "idle"
  BY DEF MoneyInv, TypeOK, Tx, NoTx
<1>1. ASSUME Rollback(x), skipped' = Skip(x), tx[x].pc # "idle" PROVE EndsBilled(x)
  <2>1. tx' = [tx EXCEPT ![x] = NoTx] /\ UNCHANGED << month, job, done >>
    BY <1>1 DEF Rollback, scheduler
  <2>2. \A a, p : tx[x].op = "bill" /\ tx[x].acct = a /\ tx[x].key = p => << a, p >> \in skipped'
    BY <1>1 DEF Skip
  <2>. QED
    BY <1>0, <1>1, <2>1, <2>2 DEF Billed, EndsBilled
<1>2. CASE BeginImmediate(x)
  <2>1. [tx[x] EXCEPT !.pc = "locked"].pc = "locked"
    BY <1>0 DEF Tx
  <2>. QED
    BY <1>0, <1>2, <2>1 DEF BeginImmediate, scheduler, Tx, EndsBilled
<1>3. CASE Check(x)
  <2>1. CASE AlreadyPosted(tx[x]) \/ Delinquent(tx[x])
    <3>1. Rollback(x) /\ skipped' = skipped /\ tx[x].pc = "locked"
      BY <1>3, <2>1 DEF Check
    <3>2. tx' = [tx EXCEPT ![x] = NoTx] /\ UNCHANGED << entries, month, job, done >>
      BY <3>1 DEF Rollback, scheduler, database
    <3>3. tx[x].op = "bill" => Posted("bill", tx[x].acct, tx[x].key)
      BY <2>1 DEF AlreadyPosted, Delinquent
    <3>4. \A a, p : tx[x].op = "bill" /\ tx[x].acct = a /\ tx[x].key = p
                       => Posted("bill", a, p)'
      BY <3>2, <3>3 DEF Posted
    <3>. QED
      BY <1>0, <3>1, <3>2, <3>4 DEF Billed, EndsBilled
  <2>2. CASE ~ (AlreadyPosted(tx[x]) \/ Delinquent(tx[x]))
    <3>1. tx' = [tx EXCEPT ![x] = [tx[x] EXCEPT !.pc = "writing", !.bal = balance]]
      BY <1>0, <1>3, <2>2 DEF Check
    <3>. QED
      BY <1>0, <1>3, <2>2, <3>1 DEF Check, scheduler, Tx, EndsBilled
  <2>. QED
    BY <2>1, <2>2
<1>4. CASE Write(x)
  <2> DEFINE leg == Legs(tx[x])[Len(tx[x].draft) + 1]
             new == tx[x].bal[leg.acct] + leg.amt
             e == [acct |-> leg.acct, op |-> tx[x].op, key |-> tx[x].key, amt |-> leg.amt,
                   after |-> new]
  <2>0. tx[x].pc = "writing"
    BY <1>4 DEF Write
  <2>1. CASE Allowed(tx[x].op, leg.amt, new)
    <3>1. tx' = [tx EXCEPT ![x].bal[leg.acct] = new, ![x].draft = Append(@, e)]
          /\ UNCHANGED << month, job, done >>
      BY <1>4, <2>1 DEF Write, scheduler
    <3> HIDE DEF leg, new, e
    <3>2. tx' = [tx EXCEPT ![x] = [tx[x] EXCEPT !.bal[leg.acct] = new,
                                                !.draft = Append(@, e)]]
      BY <1>0, <3>1
    <3>. QED
      BY <1>0, <2>0, <3>1, <3>2 DEF Tx, EndsBilled
  <2>2. CASE ~ Allowed(tx[x].op, leg.amt, new)
    <3>1. Rollback(x) /\ skipped' = Skip(x)
      BY <1>4, <2>2 DEF Write
    <3>. QED
      BY <1>1, <2>0, <3>1
  <2>. QED
    BY <2>1, <2>2
<1>5. CASE Commit(x)
  <2>1. tx' = [tx EXCEPT ![x] = NoTx] /\ UNCHANGED << month, job, done >>
        /\ tx[x].pc = "writing"
    BY <1>5 DEF Commit, scheduler
  <2>2. ASSUME NEW a, NEW p, tx[x].op = "bill", tx[x].acct = a, tx[x].key = p
        PROVE  Posted("bill", a, p)'
    <3>1. /\ Len(entries) + 1 \in DOMAIN entries'
          /\ entries'[Len(entries) + 1] = tx[x].draft[1] /\ 1 \in DOMAIN tx[x].draft
          /\ Drafted(x) /\ tx[x].acct \in Factories
      BY <1>5, CommitShape
    <3>2. /\ tx[x].draft[1].op = tx[x].op /\ tx[x].draft[1].key = tx[x].key
          /\ tx[x].draft[1].acct = Legs(tx[x])[1].acct
      BY <3>1 DEF Drafted
    <3>3. Legs(tx[x])[1].acct = tx[x].acct
      BY <1>0, <2>2, <3>1, LegsShape
    <3>. QED
      BY <2>2, <3>1, <3>2, <3>3 DEF Posted
  <2>. QED
    BY <1>0, <2>1, <2>2 DEF Billed, EndsBilled
<1>6. CASE Fault(x)
  <2>1. Rollback(x) /\ skipped' = Skip(x) /\ tx[x].pc # "idle"
    BY <1>6 DEF Fault
  <2>. QED
    BY <1>1, <2>1
<1>. QED
  BY <1>2, <1>3, <1>4, <1>5, <1>6 DEF Transact

(* A month that a scheduler has down as done is billed. *)
DoneFor(w) == done[w] = month => \A a \in Stored : Billed(a, month)

(* A scheduler that does not move, while the clock may. *)
LEMMA OtherJobs ==
    ASSUME BillingInv, [Next]_vars, NEW w \in Workers,
           tx'[w] = tx[w], job'[w] = job[w], done'[w] = done[w],
           month' \in Nat, month' >= month
    PROVE  JobSound(w)' /\ DoneFor(w)'
<1>1. /\ job[w] \in Job /\ done[w] \in Nat /\ month \in Nat
      /\ MoneyInv /\ JobSound(w) /\ DoneIsBilled
  BY DEF BillingInv, MoneyInv, TypeOK, Job
<1>2. \A a, p : Billed(a, p) => Billed(a, p)'
  BY <1>1, BilledStays
<1>3. \A a : InHand(w, a) => InHand(w, a)'
  BY DEF InHand
<1>4. JobSound(w)'
  <2>1. job'[w].pc = "billing" =>
            \A a \in Stored : a \in job'[w].todo \/ Billed(a, job[w].per)' \/ InHand(w, a)'
    BY <1>1, <1>2, <1>3 DEF JobSound
  <2>. QED
    BY <1>1, <2>1 DEF JobSound, Job, Billed, Posted
<1>5. DoneFor(w)'
  <2>1. CASE month' = month
    <3>1. done[w] = month => \A a \in Stored : Billed(a, month)
      BY <1>1 DEF DoneIsBilled, Billed
    <3>2. \A p : p = month => (done[w] = month => \A a \in Stored : Billed(a, p)')
      BY <1>2, <3>1
    <3>. QED
      BY <2>1, <3>2 DEF DoneFor, Billed, Posted
  <2>2. CASE month' # month
    BY <1>1, <2>2 DEF DoneFor, JobSound
  <2>. QED
    BY <2>1, <2>2
<1>. QED
  BY <1>4, <1>5

(* The scheduler whose transaction moves: it is in a pass. *)
LEMMA BillJobs ==
    ASSUME BillingInv, [Next]_vars, NEW w \in Workers, Transact(w)
    PROVE  JobSound(w)' /\ DoneFor(w)'
<1>1. /\ job[w] \in Job /\ w \in Actors /\ MoneyInv /\ JobSound(w) /\ DoneIsBilled
  BY DEF BillingInv, MoneyInv, TypeOK, Job, Actors
<1>2. EndsBilled(w)
  BY <1>1, BillEnds
<1>3. /\ job' = job /\ done' = done /\ month' = month /\ tx[w].pc # "idle"
      /\ job[w].pc = "billing"
  BY <1>1, <1>2 DEF EndsBilled, JobSound
<1>4. \A a, p : Billed(a, p) => Billed(a, p)'
  BY <1>1, BilledStays
<1>5. \A a, p : InHand(w, a) /\ job[w].per = p => InHand(w, a)' \/ Billed(a, p)'
  <2>. SUFFICES ASSUME NEW a, NEW p, InHand(w, a), job[w].per = p
                PROVE  InHand(w, a)' \/ Billed(a, p)'
    OBVIOUS
  <2>1. tx[w].op = "bill" /\ tx[w].acct = a /\ tx[w].key = p
    BY DEF InHand
  <2>2. CASE tx'[w].pc # "idle"
    <3>1. tx'[w].op = "bill" /\ tx'[w].acct = a /\ tx'[w].key = job'[w].per
      BY <1>2, <1>3, <2>1, <2>2 DEF EndsBilled
    <3>. QED
      BY <2>2, <3>1 DEF InHand
  <2>3. CASE tx'[w].pc = "idle"
    BY <1>2, <2>1, <2>3 DEF EndsBilled
  <2>. QED
    BY <2>2, <2>3
<1>6. JobSound(w)'
  <2>1. \A a \in Stored : a \in job[w].todo \/ Billed(a, job[w].per) \/ InHand(w, a)
    BY <1>1, <1>3 DEF JobSound
  <2>2. \A p : p = job[w].per =>
            \A a \in Stored : a \in job[w].todo \/ Billed(a, p)' \/ InHand(w, a)'
    BY <1>4, <1>5, <2>1
  <2>. QED
    BY <1>1, <1>3, <2>2 DEF JobSound, Billed, Posted
<1>7. DoneFor(w)'
  <2>1. \A p : p = month => (done[w] = month => \A a \in Stored : Billed(a, p)')
    BY <1>1, <1>4 DEF DoneIsBilled, Billed
  <2>. QED
    BY <1>3, <2>1 DEF DoneFor, Billed, Posted
<1>. QED
  BY <1>6, <1>7

(* The scheduler that takes a step of its own: a slot comes before its     *)
(* period, and an account off the list is in hand.                         *)
LEMMA WorkJobs ==
    ASSUME BillingInv, [Next]_vars, NEW w \in Workers, Work(w)
    PROVE  JobSound(w)' /\ DoneFor(w)'
<1>1. /\ job \in [Workers -> Job] /\ job[w] \in Job /\ w \in Actors
      /\ done \in [Workers -> Nat] /\ month \in Nat /\ tx \in [Actors -> Tx]
      /\ MoneyInv /\ JobSound(w) /\ DoneIsBilled
  BY DEF BillingInv, MoneyInv, TypeOK, Job, Tx, Actors
<1>2. UNCHANGED << entries, month, skipped >>
  BY WorkLeaves
<1>3. \A a, p : Billed(a, p)' <=> Billed(a, p)
  BY <1>2 DEF Billed, Posted
<1>4. ASSUME done' = done PROVE DoneFor(w)'
  BY <1>1, <1>2, <1>4 DEF DoneFor, DoneIsBilled, Billed, Posted
<1>5. CASE Due(w)
  <2>1. /\ job' = [job EXCEPT ![w] = [NoJob EXCEPT !.pc = "due", !.slot = month]]
        /\ tx' = tx /\ done' = done /\ job[w].pc = "off"
    BY <1>5 DEF Due, SetJob
  <2>2. job'[w].pc = "due" /\ job'[w].slot = month
    BY <1>1, <2>1 DEF NoJob
  <2>3. tx'[w].pc = "idle"
    BY <1>1, <2>1 DEF JobSound
  <2>. QED
    BY <1>1, <1>2, <1>4, <2>1, <2>2, <2>3 DEF JobSound
<1>6. CASE StartBilling(w)
  <2>1. /\ job' = [job EXCEPT ![w] = [job[w] EXCEPT !.pc = "billing", !.per = month,
                                                     !.todo = Stored]]
        /\ tx' = tx /\ done' = done /\ job[w].pc = "due"
    BY <1>6 DEF StartBilling, SetJob
  <2>2. /\ job'[w].pc = "billing" /\ job'[w].slot = job[w].slot /\ job'[w].per = month
        /\ job'[w].todo = Stored
    BY <1>1, <2>1 DEF Job
  <2>. QED
    BY <1>1, <1>2, <1>4, <2>1, <2>2 DEF JobSound, Job
<1>7. CASE JobFails(w)
  <2>1. /\ job' = [job EXCEPT ![w] = NoJob]
        /\ tx' = [tx EXCEPT ![w] = NoTx] /\ done' = done
    BY <1>7 DEF JobFails, SetJob
  <2>2. job'[w].pc = "off"
    BY <1>1, <2>1 DEF NoJob
  <2>3. tx'[w].pc = "idle"
    BY <1>1, <2>1 DEF NoTx
  <2>. QED
    BY <1>1, <1>2, <1>4, <2>1, <2>2, <2>3 DEF JobSound
<1>8. CASE BillNext(w)
  <2>1. PICK a \in job[w].todo :
            /\ SetJob(w, [job[w] EXCEPT !.todo = @ \ {a}])
            /\ tx' = [tx EXCEPT ![w] = [NoTx EXCEPT !.pc = "ready", !.op = "bill",
                                                    !.acct = a, !.key = job[w].per]]
    BY <1>8 DEF BillNext
  <2>2. /\ job[w].pc = "billing" /\ done' = done
        /\ job' = [job EXCEPT ![w] = [job[w] EXCEPT !.todo = job[w].todo \ {a}]]
    BY <1>8, <2>1 DEF BillNext, SetJob
  <2>3. /\ job'[w].pc = "billing" /\ job'[w].slot = job[w].slot
        /\ job'[w].per = job[w].per /\ job'[w].todo = job[w].todo \ {a}
    BY <1>1, <2>2 DEF Job
  <2>4. InHand(w, a)'
    BY <1>1, <2>1, <2>3 DEF InHand, NoTx
  <2>5. \A b \in Stored : b \in job[w].todo \/ Billed(b, job[w].per)
    BY <1>1, <1>8, <2>2 DEF BillNext, JobSound, InHand
  <2>6. \A p : p = job[w].per =>
            \A b \in Stored : b \in job'[w].todo \/ Billed(b, p)' \/ InHand(w, b)'
    BY <1>3, <2>3, <2>4, <2>5
  <2>. QED
    BY <1>1, <1>2, <1>4, <2>2, <2>3, <2>6 DEF JobSound, Billed, Posted
<1>9. CASE JobDone(w)
  <2>1. /\ job[w].pc = "billing" /\ tx[w].pc = "idle" /\ job[w].todo = {}
        /\ job' = [job EXCEPT ![w] = NoJob] /\ tx' = tx
        /\ done' = [done EXCEPT ![w] = job[w].slot]
    BY <1>9 DEF JobDone, SetJob, SlotRun
  <2>2. job'[w].pc = "off" /\ done'[w] = job[w].slot
    BY <1>1, <2>1 DEF NoJob
  <2>3. /\ job[w].slot <= job[w].per /\ job[w].per <= month
        /\ \A a \in Stored : Billed(a, job[w].per)
    BY <1>1, <2>1 DEF JobSound, InHand
  <2>4. job[w].slot = month => job[w].per = month
    BY <1>1, <2>3 DEF Job
  <2>5. DoneFor(w)'
    BY <1>2, <2>2, <2>3, <2>4 DEF DoneFor, Billed, Posted
  <2>6. job[w].slot <= month
    BY <1>1, <2>1 DEF JobSound
  <2>. QED
    BY <1>2, <2>1, <2>2, <2>5, <2>6 DEF JobSound
<1>. QED
  BY <1>5, <1>6, <1>7, <1>8, <1>9 DEF Work

LEMMA BillingStep == BillingInv /\ [Next]_vars => BillingInv'
<1>. SUFFICES ASSUME BillingInv, [Next]_vars PROVE BillingInv'
  OBVIOUS
<1>1. /\ MoneyInv /\ MoneyInv' /\ tx \in [Actors -> Tx] /\ month \in Nat /\ month >= 1
      /\ job \in [Workers -> Job] /\ done \in [Workers -> Nat]
      /\ Clients \cap Workers = {} /\ Workers \subseteq Actors
  BY MoneyStep, WalletAssumption DEF BillingInv, MoneyInv, TypeOK, Tx, Job, Actors
<1>2. SUFFICES month' >= 1 /\ \A w \in Workers : JobSound(w)' /\ DoneFor(w)'
  BY <1>1 DEF BillingInv, DoneIsBilled, DoneFor, Billed
<1>3. ASSUME NEW c \in Clients, Request(c)
      PROVE  month' >= 1 /\ \A w \in Workers : JobSound(w)' /\ DoneFor(w)'
  <2>1. UNCHANGED << month, job, done >> /\ \A w \in Workers : tx'[w] = tx[w]
    BY <1>1, <1>3, RequestLeaves
  <2>. QED
    BY <1>1, <2>1, OtherJobs
<1>4. ASSUME NEW x \in Actors, Transact(x)
      PROVE  month' >= 1 /\ \A w \in Workers : JobSound(w)' /\ DoneFor(w)'
  <2>1. UNCHANGED << month, job, done >> /\ \A w \in Workers : w # x => tx'[w] = tx[w]
    BY <1>1, <1>4, BillEnds DEF EndsBilled
  <2>2. ASSUME NEW w \in Workers, w # x PROVE JobSound(w)' /\ DoneFor(w)'
    BY <1>1, <2>1, <2>2, OtherJobs
  <2>3. ASSUME NEW w \in Workers, w = x PROVE JobSound(w)' /\ DoneFor(w)'
    BY <1>4, <2>3, BillJobs
  <2>. QED
    BY <1>1, <2>1, <2>2, <2>3
<1>5. ASSUME NEW w \in Workers, Work(w)
      PROVE  month' >= 1 /\ \A v \in Workers : JobSound(v)' /\ DoneFor(v)'
  <2>1. month' = month
    BY <1>5, WorkLeaves
  <2>2. ASSUME NEW v \in Workers, v # w PROVE JobSound(v)' /\ DoneFor(v)'
    <3>1. job'[v] = job[v] /\ done'[v] = done[v] /\ tx'[v] = tx[v]
      <4>1. CASE BillNext(w)
        BY <1>1, <2>2, <4>1 DEF BillNext, SetJob
      <4>2. CASE ~ BillNext(w)
        BY <1>1, <1>5, <2>2, <4>2
           DEF Work, Due, StartBilling, JobFails, JobDone, SetJob
      <4>. QED
        BY <4>1, <4>2
    <3>. QED
      BY <1>1, <2>1, <3>1, OtherJobs
  <2>3. JobSound(w)' /\ DoneFor(w)'
    BY <1>5, WorkJobs
  <2>. QED
    BY <1>1, <2>1, <2>2, <2>3
<1>6. ASSUME NEW w \in Workers, Die(w)
      PROVE  month' >= 1 /\ \A v \in Workers : JobSound(v)' /\ DoneFor(v)'
  <2>1. /\ tx' = [tx EXCEPT ![w] = NoTx] /\ job' = [job EXCEPT ![w] = NoJob]
        /\ done' = [done EXCEPT ![w] = 0] /\ month' = month
    BY <1>6 DEF Die
  <2>2. ASSUME NEW v \in Workers, v # w PROVE JobSound(v)' /\ DoneFor(v)'
    BY <1>1, <2>1, <2>2, OtherJobs
  <2>3. tx'[w].pc = "idle" /\ job'[w].pc = "off" /\ done'[w] = 0
    BY <1>1, <2>1 DEF NoTx, NoJob
  <2>4. JobSound(w)' /\ DoneFor(w)'
    BY <1>1, <2>1, <2>3 DEF JobSound, DoneFor
  <2>. QED
    BY <1>1, <2>1, <2>2, <2>4
<1>7. CASE NextMonth
  <2>1. month' = month + 1 /\ UNCHANGED << tx, job, done >>
    BY <1>7 DEF NextMonth, scheduler
  <2>. QED
    BY <1>1, <2>1, OtherJobs
<1>8. CASE UNCHANGED vars
  <2>1. UNCHANGED << month, tx, job, done >>
    BY <1>8 DEF vars, scheduler
  <2>. QED
    BY <1>1, <2>1, OtherJobs
<1>. QED
  BY <1>3, <1>4, <1>5, <1>6, <1>7, <1>8 DEF Next

(* A scheduler that has the current month down as done has it billed for   *)
(* every account with images, or has passed the account over: also when    *)
(* the month turns during a pass, when schedulers bill side by side, when  *)
(* one fails on an account, and when one dies and starts again.            *)
THEOREM MonthIsBilled == Spec => []DoneIsBilled
<1>1. Init => BillingInv
  <2>. SUFFICES ASSUME Init PROVE BillingInv
    OBVIOUS
  <2>1. month = 1 /\ \A w \in Workers : done[w] = 0 /\ job[w] = NoJob /\ tx[w] = NoTx
    BY DEF Init, Actors
  <2>2. NoJob.pc = "off" /\ NoTx.pc = "idle"
    BY DEF NoJob, NoTx
  <2>3. \A w \in Workers : JobSound(w)
    BY <2>1, <2>2 DEF JobSound
  <2>4. DoneIsBilled
    BY <2>1 DEF DoneIsBilled
  <2>. QED
    BY <2>1, <2>3, <2>4, MoneyInit DEF BillingInv
<1>2. BillingInv => DoneIsBilled
  BY DEF BillingInv
<1>. QED
  BY <1>1, <1>2, BillingStep, PTL DEF Spec

=============================================================================
