-------------------------- MODULE MCQueryExecution --------------------------
(* Two tables, two companies, and queries below, at and above the limit of *)
(* two rows.                                                               *)
EXTENDS QueryExecution

CONSTANTS stock, orders, acme, zeta

Row(t, k, n) == [table |-> t, company |-> k, id |-> n]
SmallData == {Row(stock, acme, 1), Row(stock, acme, 2), Row(stock, zeta, 1), Row(orders, zeta, 1)}
OfStock == {d \in SmallData : d.table = stock}

Asks(rows, limit, tail) == [wanted |-> rows, limit |-> limit, tail |-> tail]
SmallQueries ==
    {Asks(rows, limit, "bare") : rows \in {SmallData, OfStock}, limit \in {Null, 1, 3}}
    \cup {Asks({Row(stock, zeta, 1)}, Null, "bare"), Asks(SmallData, 3, "comment"),
          Asks(OfStock, 2, "comment")}
=============================================================================
