-------------------------- MODULE MCTableSelection --------------------------
(* Five tables of the ERP with their foreign keys, aliases and lookup      *)
(* table: items and item_thresholds have the same initials and item_stocks *)
(* a reserved word.                                                        *)
EXTENDS TableSelection

CONSTANTS items, item_stocks, item_thresholds, warehouses, entity_values,
          it, ite, is, ist, wa, war, ev, eva

SmallByName == <<entity_values, item_stocks, item_thresholds, items, warehouses>>
SmallReferences ==
    {<<item_stocks, items>>, <<item_thresholds, items>>, <<item_stocks, warehouses>>}
    \cup {<<t, entity_values>> : t \in {items, warehouses}}
SmallAkin ==
    {<<items, item_stocks>>, <<items, item_thresholds>>,
     <<item_stocks, items>>, <<item_thresholds, items>>}
SmallInitials == [t \in TableName |->
    CASE t = items -> "i" [] t = warehouses -> "w" [] t = item_stocks -> "is"
      [] t = item_thresholds -> "it" [] t = entity_values -> "ev"]
(* item_thresholds runs out of letters here, as a short name would. *)
SmallGrowth == [t \in TableName |->
    CASE t = items -> <<it, ite>> [] t = warehouses -> <<wa, war>> [] t = item_stocks -> <<is, ist>>
      [] t = item_thresholds -> <<it>> [] t = entity_values -> <<ev, eva>>]
SmallSimilarities == {-10, 10, 40}
=============================================================================
