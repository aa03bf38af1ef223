-------------------------------- MODULE Wallet --------------------------------
(***************************************************************************)
(* The wallets and their ledger (silk_platform/wallet.py), the metered     *)
(* charges (billing.py), and the monthly storage billing that every        *)
(* process's scheduler runs (jobs.py, scheduler.py).                       *)
(*                                                                         *)
(*   balance   wallets.balance, as committed; 0 also stands for no wallet, *)
(*             which ensure_wallet creates before any of the operations    *)
(*   entries   ledger_entries, as committed                                *)
(*   lock      who is inside BEGIN IMMEDIATE                               *)
(*   tx        the transaction of each actor: what it does, the balances   *)
(*             it has read, and what it has written and not committed      *)
(*   month     the clock, as current_period() reads it                     *)
(*   job, done a scheduler's pass, and the slot it last ran in             *)
(*   skipped   history: accounts that a month's billing passed over        *)
(***************************************************************************)
EXTENDS Integers, Sequences, FiniteSets

CONSTANTS
    Factories,   \* factory accounts
    Vault,       \* the account that funds them
    Stored,      \* the factories that have images
    Clients,     \* request threads
    Workers,     \* schedulers, one per process
    Keys,        \* idempotency keys of metered charges
    None,
    Opening, Funding, Price, Fee,   \* amounts: capital, funding, charge, storage
    Floor,       \* overdraft_floor_cents()
    MaxOps,      \* bound: client operations
    MaxMonth,    \* bound: the clock
    MaxDeaths    \* bound: deaths of schedulers

Accounts == Factories \cup {Vault}
Actors == Clients \cup Workers

ASSUME WalletAssumption ==
    /\ Vault \notin Factories
    /\ Stored \subseteq Factories
    /\ Clients \cap Workers = {}
    /\ None \notin Actors \cup Accounts \cup Keys
    /\ Keys \cap Nat = {}
    /\ {Opening, Funding, Price, Fee} \subseteq Nat \ {0}
    /\ {Floor, MaxOps, MaxMonth, MaxDeaths} \subseteq Nat

VARIABLES balance, entries, lock, tx, month, job, done, ops, deaths, skipped

database == << balance, entries >>
scheduler == << job, done >>
vars == << database, lock, tx, month, scheduler, ops, deaths, skipped >>

Leg == [acct : Accounts, amt : Int]
Entry == [acct : Accounts, op : {"post", "fund", "charge", "bill"},
          key : Keys \cup Nat \cup {None}, amt : Int, after : Int]
NoTx == [pc |-> "idle", op |-> "fund", acct |-> Vault, key |-> None,
         bal |-> [a \in Accounts |-> 0], draft |-> << >>]
NoJob == [pc |-> "off", slot |-> 0, per |-> 0, todo |-> {}]

TypeOK ==
    /\ balance \in [Accounts -> {n \in Int : n >= -Floor}]
    /\ entries \in Seq(Entry)
    /\ lock \in Actors \cup {None}
    /\ tx \in [Actors -> [pc : {"idle", "ready", "locked", "writing"},
                          op : {"fund", "charge", "bill"},
                          acct : Accounts, key : Keys \cup Nat \cup {None},
                          bal : [Accounts -> Int], draft : Seq(Entry)]]
    /\ month \in Nat
    /\ job \in [Workers -> [pc : {"off", "due", "billing"}, slot : Nat, per : Nat,
                            todo : SUBSET Stored]]
    /\ done \in [Workers -> Nat]
    /\ ops \in Nat /\ deaths \in Nat
    /\ skipped \subseteq Accounts \X Nat

(* The seed has posted the opening balance of the vault (post_entry). *)
Init ==
    /\ balance = [a \in Accounts |-> IF a = Vault THEN Opening ELSE 0]
    /\ entries = << [acct |-> Vault, op |-> "post", key |-> None, amt |-> Opening,
                     after |-> Opening] >>
    /\ lock = None
    /\ tx = [x \in Actors |-> NoTx]
    /\ month = 1
    /\ job = [w \in Workers |-> NoJob]
    /\ done = [w \in Workers |-> 0]
    /\ ops = 0 /\ deaths = 0
    /\ skipped = {}

-----------------------------------------------------------------------------
(* What each operation writes, and may do.                                 *)

Legs(t) ==
    CASE t.op = "fund"   -> << [acct |-> Vault, amt |-> -Funding],
                               [acct |-> t.acct, amt |-> Funding] >>
      [] t.op = "charge" -> << [acct |-> t.acct, amt |-> -Price] >>
      [] t.op = "bill"   -> << [acct |-> t.acct, amt |-> -Fee] >>

(* allow_negative: the debt of a bill is real, the one of a purchase is not. *)
MayOverdraw(op) == op = "bill"

(* Mutant: whoever may overdraw may do so without a floor. *)
Mut_Allowed(op, amt, new) == new >= 0 \/ amt > 0 \/ MayOverdraw(op)

(* _apply refuses before it writes. *)
Allowed(op, amt, new) ==
    /\ new >= 0 \/ amt > 0 \/ MayOverdraw(op)
    /\ new >= -Floor

Posted(op, a, k) == \E i \in DOMAIN entries :
    entries[i].op = op /\ entries[i].acct = a /\ entries[i].key = k

(* Mutant: the key of a bill is not looked for. *)
Mut_AlreadyPosted(t) == t.op = "charge" /\ Posted(t.op, t.acct, t.key)

(* already_charged and already_billed: the ledger itself holds the keys. *)
AlreadyPosted(t) == t.op \in {"charge", "bill"} /\ Posted(t.op, t.acct, t.key)

Delinquent(t) == t.op = "charge" /\ balance[t.acct] < 0

-----------------------------------------------------------------------------
(* One transaction, in its steps.                                          *)

Open(c) ==
    /\ c \in Clients /\ tx[c].pc = "idle" /\ ops < MaxOps
    /\ ops' = ops + 1
    /\ \/ \E a \in Factories :
            tx' = [tx EXCEPT ![c] = [NoTx EXCEPT !.pc = "ready", !.op = "fund", !.acct = a]]
       \/ \E a \in Factories, k \in Keys :
            tx' = [tx EXCEPT ![c] = [NoTx EXCEPT !.pc = "ready", !.op = "charge",
                                                 !.acct = a, !.key = k]]
    /\ UNCHANGED << database, lock, month, scheduler, deaths, skipped >>

(* Mutant: the transaction begins without a lock, as BEGIN alone would. *)
Mut_LockFree == TRUE

LockFree == lock = None

BeginImmediate(x) ==
    /\ tx[x].pc = "ready" /\ LockFree
    /\ lock' = x
    /\ tx' = [tx EXCEPT ![x].pc = "locked"]
    /\ UNCHANGED << database, month, scheduler, ops, deaths, skipped >>

Rollback(x) ==
    /\ lock' = None
    /\ tx' = [tx EXCEPT ![x] = NoTx]
    /\ UNCHANGED << database, month, scheduler, ops, deaths >>

Skip(x) == IF tx[x].op = "bill" THEN skipped \cup {<< tx[x].acct, tx[x].key >>} ELSE skipped

(* The checks of charge_metered and run_storage_billing, under the lock. *)
Check(x) ==
    /\ tx[x].pc = "locked"
    /\ IF AlreadyPosted(tx[x]) \/ Delinquent(tx[x])
       THEN Rollback(x) /\ UNCHANGED skipped
       ELSE /\ tx' = [tx EXCEPT ![x].pc = "writing", ![x].bal = balance]
            /\ UNCHANGED << database, lock, month, scheduler, ops, deaths, skipped >>

Written(x) == Len(tx[x].draft) = Len(Legs(tx[x]))

(* _apply: one leg, on the balance as the transaction sees it. *)
Write(x) ==
    /\ tx[x].pc = "writing" /\ ~ Written(x)
    /\ LET leg == Legs(tx[x])[Len(tx[x].draft) + 1]
           new == tx[x].bal[leg.acct] + leg.amt
       IN  IF Allowed(tx[x].op, leg.amt, new)
           THEN /\ tx' = [tx EXCEPT
                     ![x].bal[leg.acct] = new,
                     ![x].draft = Append(@, [acct |-> leg.acct, op |-> tx[x].op,
                                             key |-> tx[x].key, amt |-> leg.amt,
                                             after |-> new])]
                /\ UNCHANGED << database, lock, month, scheduler, ops, deaths, skipped >>
           ELSE Rollback(x) /\ skipped' = Skip(x)

Commit(x) ==
    /\ tx[x].pc = "writing" /\ Written(x)
    /\ balance' = [a \in Accounts |->
                     IF \E i \in DOMAIN tx[x].draft : tx[x].draft[i].acct = a
                     THEN tx[x].bal[a] ELSE balance[a]]
    /\ entries' = entries \o tx[x].draft
    /\ lock' = None
    /\ tx' = [tx EXCEPT ![x] = NoTx]
    /\ UNCHANGED << month, scheduler, ops, deaths, skipped >>

(* Any exception rolls back; the billing of the other accounts goes on. *)
Fault(x) ==
    /\ tx[x].pc \in {"locked", "writing"}
    /\ Rollback(x) /\ skipped' = Skip(x)

(* A request that does not get the lock in time is refused. *)
Busy(c) ==
    /\ tx[c].pc = "ready"
    /\ tx' = [tx EXCEPT ![c] = NoTx]
    /\ UNCHANGED << database, lock, month, scheduler, ops, deaths, skipped >>

-----------------------------------------------------------------------------
(* run_due and run_storage_billing.                                        *)

SetJob(w, j) ==
    /\ job' = [job EXCEPT ![w] = j]
    /\ UNCHANGED << database, lock, month, ops, deaths, skipped >>

Due(w) ==
    /\ job[w].pc = "off" /\ done[w] # month
    /\ SetJob(w, [NoJob EXCEPT !.pc = "due", !.slot = month])
    /\ UNCHANGED << tx, done >>

(* The period is read when the job runs, the slot was read before. *)
StartBilling(w) ==
    /\ job[w].pc = "due"
    /\ SetJob(w, [job[w] EXCEPT !.pc = "billing", !.per = month, !.todo = Stored])
    /\ UNCHANGED << tx, done >>

(* What fails outside the try of one account ends the pass: the reading of *)
(* the accounts, ensure_wallet, and a lock that is not free in time.       *)
JobFails(w) ==
    /\ job[w].pc # "off" /\ tx[w].pc \in {"idle", "ready"}
    /\ job[w].pc = "due" \/ tx[w].pc = "ready" \/ job[w].todo # {}
    /\ SetJob(w, NoJob)
    /\ tx' = [tx EXCEPT ![w] = NoTx]
    /\ UNCHANGED done

BillNext(w) ==
    /\ job[w].pc = "billing" /\ tx[w].pc = "idle"
    /\ \E a \in job[w].todo :
        /\ SetJob(w, [job[w] EXCEPT !.todo = @ \ {a}])
        /\ tx' = [tx EXCEPT ![w] = [NoTx EXCEPT !.pc = "ready", !.op = "bill",
                                                !.acct = a, !.key = job[w].per]]
    /\ UNCHANGED done

(* Mutant: the slot is the month in which the job ended. *)
Mut_SlotRun(j) == month

SlotRun(j) == j.slot

JobDone(w) ==
    /\ job[w].pc = "billing" /\ tx[w].pc = "idle" /\ job[w].todo = {}
    /\ done' = [done EXCEPT ![w] = SlotRun(job[w])]
    /\ SetJob(w, NoJob)
    /\ UNCHANGED tx

(* A process dies: SQLite rolls its transaction back, last_run is lost. *)
Die(w) ==
    /\ deaths < MaxDeaths
    /\ deaths' = deaths + 1
    /\ lock' = IF lock = w THEN None ELSE lock
    /\ tx' = [tx EXCEPT ![w] = NoTx]
    /\ job' = [job EXCEPT ![w] = NoJob]
    /\ done' = [done EXCEPT ![w] = 0]
    /\ UNCHANGED << database, month, ops, skipped >>

NextMonth ==
    /\ month < MaxMonth
    /\ month' = month + 1
    /\ UNCHANGED << database, lock, tx, scheduler, ops, deaths, skipped >>

-----------------------------------------------------------------------------
Transact(x) == BeginImmediate(x) \/ Check(x) \/ Write(x) \/ Commit(x) \/ Fault(x)
Request(c) == Open(c) \/ Busy(c)
Work(w) == Due(w) \/ StartBilling(w) \/ JobFails(w) \/ BillNext(w) \/ JobDone(w)

Next ==
    \/ \E c \in Clients : Request(c)
    \/ \E x \in Actors : Transact(x)
    \/ \E w \in Workers : Work(w) \/ Die(w)
    \/ NextMonth

Spec == Init /\ [][Next]_vars

-----------------------------------------------------------------------------
(* The balance of account a after the first n entries of s is b: what the  *)
(* last of them for a says, or nothing when there is none.                 *)
BalanceAt(s, a, n, b) ==
    \/ b = 0 /\ \A i \in 1..n : s[i].acct # a
    \/ \E i \in 1..n : /\ s[i].acct = a /\ s[i].after = b
                       /\ \A j \in (i + 1)..n : s[j].acct # a

IsBooks(s, b) ==
    /\ \A i \in DOMAIN s : BalanceAt(s, s[i].acct, i - 1, s[i].after - s[i].amt)
    /\ \A a \in Accounts : BalanceAt(s, a, Len(s), b[a])

(* The books agree: every entry carries the balance that its amount makes  *)
(* of the account's previous one, from nothing, and the wallet that of the *)
(* last; so a balance is the sum of its entries, and no update is lost,    *)
(* however requests and schedulers interleave.                             *)
BooksAgree == IsBooks(entries, balance)

(* Money moves from the vault to a factory whole: no fault between the two *)
(* legs of a funding leaves one of them.                                   *)
FundingIsWhole ==
    \A i \in DOMAIN entries : entries[i].op = "fund" =>
        LET other == IF entries[i].acct = Vault THEN i + 1 ELSE i - 1
        IN  /\ other \in DOMAIN entries /\ entries[other].op = "fund"
            /\ entries[other].amt = -entries[i].amt
            /\ (entries[other].acct = Vault) # (entries[i].acct = Vault)

(* A key is charged once and a month is billed once, for an account: not   *)
(* by a double click, nor by two schedulers, nor by a retry after a death. *)
ChargedOnce ==
    \A i, j \in DOMAIN entries :
        /\ entries[i].op \in {"charge", "bill"}
        /\ entries[i].op = entries[j].op
        /\ entries[i].acct = entries[j].acct
        /\ entries[i].key = entries[j].key
        => i = j

(* Debt has a floor, only a bill runs into it, and the vault owes nothing. *)
DebtBounded ==
    /\ \A a \in Accounts : balance[a] >= -Floor
    /\ balance[Vault] >= 0
    /\ \A i \in DOMAIN entries : entries[i].op = "charge" => entries[i].after >= 0

(* The ledger is sound between any two transactions, whatever interleaves, *)
(* fails or dies inside one.                                               *)
LedgerSound == BooksAgree /\ FundingIsWhole /\ DebtBounded

(* A scheduler that has the current month down as done need not look at it *)
(* again: every account with images is billed, or was passed over.         *)
DoneIsBilled ==
    \A w \in Workers : done[w] = month =>
        \A a \in Stored : Posted("bill", a, month) \/ << a, month >> \in skipped

=============================================================================
