--------------------------- MODULE MCScatterGather ---------------------------
(* Two shards, one of each leaf, and two SKUs, with stocks from nothing to more *)
(* than one item asks for and every order of ETA and price.                     *)
EXTENDS ScatterGather, TLC

Entry(q, p, e) == [qty |-> q, price |-> p, eta |-> e]
MCEntries == {NoEntry, Entry(0, 2, 1), Entry(1, 2, 1), Entry(2, 1, 2), Entry(2, 1, 1)}
MCCatalogues == [Shards -> [SKUs -> MCEntries]]

MCItems == [sku : SKUs, qty : 0 .. 3]
Bodies(n) == UNION {[1 .. k -> MCItems] : k \in 0 .. n}
\* Up to two items, which may name the same SKU, or no items array.
MCQueries == {NoItems} \cup Bodies(2)
==============================================================================
