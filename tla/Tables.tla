------------------------------- MODULE Tables -------------------------------
(***************************************************************************)
(* PostgreSQL as the services use it: each statement takes the tables as   *)
(* its transaction sees them and gives the tables as it leaves them, or    *)
(* Refused when a constraint or an empty result makes the caller roll      *)
(* back.  The tables are a record: orders (id -> row), available and       *)
(* locked (the balances), trades (the idempotency keys).                   *)
(* Every user has a row of balances for each asset here.  The column       *)
(* remaining_quantity always equals quantity and is left out: only         *)
(* UpdateOrderQuantity writes it later, and that has no caller.            *)
(* Code: internal/db/*.sql.go, generated from sql/queries, the schema in   *)
(* sql/migrations, adapters/repository.                                    *)
(***************************************************************************)
EXTENDS Matching, FiniteSetsExt

\* What a transaction comes to that is rolled back: an error, no tables.
Refused == [error |-> "rolled back"]

\* The statements d, then the statement that gives e: skipped after an error.
Then(d, e) == IF d = Refused THEN Refused ELSE e

Zeros == [u \in Users |-> [a \in Assets |-> 0]]

\* The balances held (locked or available) after n moved in or out of one,
\* and after all of the changes delta.
Moved(held, u, a, n) == [held EXCEPT ![u][a] = @ + n]
Changed(held, delta) == [u \in Users |-> [a \in Assets |-> held[u][a] + delta[u][a]]]

-----------------------------------------------------------------------------
(* orders                                                                  *)

\* mapStatusToDB: there is no case for REJECTED.
StatusInDB(s) == IF s \in {"PLACED", "PARTIAL", "FILLED", "CANCELLED"} THEN s ELSE "NEW"

\* The status is left to its default.
CreateOrder(d, id, o) ==
    [d EXCEPT !.orders = Bind(@, id, [user |-> o.user, side |-> o.side, price |-> o.price,
                                      qty |-> o.qty, status |-> "NEW"])]

UpdateOrderStatus(d, id, s) == [d EXCEPT !.orders[id].status = StatusInDB(s)]

\* status: order id -> the status it gets.
UpdateOrderStatusesBatch(d, status) ==
    [d EXCEPT !.orders = [id \in DOMAIN @ |->
        IF id \in DOMAIN status THEN [@[id] EXCEPT !.status = StatusInDB(status[id])] ELSE @[id]]]

\* Mutant: orders the worker has not accepted count as active.
ListActiveWithNew(d) ==
    {id \in DOMAIN d.orders : d.orders[id].status \in {"NEW", "PLACED", "PARTIAL"}}

\* ListActiveOrdersBySide, both sides.
ListActiveOrders(d) ==
    {id \in DOMAIN d.orders : d.orders[id].status \in {"PLACED", "PARTIAL"}}

-----------------------------------------------------------------------------
(* balances                                                                *)

\* Mutant: nothing keeps a balance from going below zero.
SolventUnchecked(held) == TRUE

\* CONSTRAINT positive_balances
Solvent(held) == \A u \in Users, a \in Assets : held[u][a] >= 0
Checked(d) == IF Solvent(d.available) /\ Solvent(d.locked) THEN d ELSE Refused

\* No row is returned when the funds do not suffice.
UpdateBalanceLock(d, u, a, n) ==
    IF d.available[u][a] >= n
    THEN Checked([d EXCEPT !.available = Moved(@, u, a, -n), !.locked = Moved(@, u, a, n)])
    ELSE Refused

UpdateBalanceUnlock(d, u, a, n) ==
    IF d.locked[u][a] >= n
    THEN Checked([d EXCEPT !.available = Moved(@, u, a, n), !.locked = Moved(@, u, a, -n)])
    ELSE Refused

\* Deposits are positive.
UpsertBalance(d, u, a, n) == [d EXCEPT !.available = Moved(@, u, a, n)]

\* EnsureBalancesExist and BatchUpdateBalances.
BatchUpdateBalances(d, avail, lock) ==
    Checked([d EXCEPT !.available = Changed(@, avail), !.locked = Changed(@, lock)])

-----------------------------------------------------------------------------
(* trades                                                                  *)

\* CONSTRAINT trades_idempotency_key: keys are those of the new trades.
CreateTradesBatch(d, keys) ==
    IF Range(keys) \cap d.trades = {} /\ IsInjective(keys)
    THEN [d EXCEPT !.trades = @ \cup Range(keys)]
    ELSE Refused
=============================================================================
