-------------------------- MODULE MCIntrospection --------------------------
(* Orders refer to a lookup value, to their parent by a key of two columns *)
(* as well, or to nothing, and a migration goes from one to another.  The  *)
(* name of the primary key of values may be that of orders.  One value of  *)
(* the status column is too long to be listed as it is.                    *)
EXTENDS Introspection, TLC

CONSTANTS orders, values, id, kind, status, company, parent,
          pass, draft, long, r1, r2, r3, itemtype, unit, note

Plain(n) == [name |-> n, type |-> "integer", udt |-> "int4"]
Status(type) == [name |-> status, type |-> type, udt |-> "order_status"]
Cat(comment, columns, pkey, foreign) ==
    [comment |-> comment, columns |-> columns, pkey |-> pkey, keys |-> {id},
     foreign |-> foreign]

KindKey == [constraint |-> "kind_fkey", columns |-> {kind}, table |-> values, refs |-> {id}]
ParentKey == [constraint |-> "parent_fkey", columns |-> {company, parent}, table |-> orders,
              refs |-> {company, id}]
OrdersWith(comment, type, foreign) ==
    Cat(comment, <<Plain(id), Status(type), Plain(company), Plain(kind),
                  Plain(parent)>>, "orders_pkey", foreign)
MCCatalogues == [t \in Table |->
    IF t = orders THEN {OrdersWith(Null, "character varying", {KindKey}),
                        OrdersWith(note, "USER-DEFINED", {ParentKey, KindKey}),
                        OrdersWith(Null, "character varying", {})}
    ELSE {Cat(note, <<Plain(id), Plain(company)>>, pkey, {}) :
              pkey \in {"values_pkey", "orders_pkey"}}]
MCTarget == [table |-> values, column |-> id]
MCCut == [v \in Value |-> IF v = long THEN draft ELSE v]
MCCodeOf == [r \in Reference |-> IF r = r3 THEN unit ELSE itemtype]
Symmetry == Permutations({r1, r2})
=============================================================================
