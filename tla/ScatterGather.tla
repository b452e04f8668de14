---------------------------- MODULE ScatterGather ----------------------------
(***************************************************************************)
(* The Scatter/Gather pattern for one availability request: inventory-root  *)
(* fans it out to every warehouse leaf, waits until each leaf has answered  *)
(* or failed on its own timeout, and relays what inventory-merge makes of   *)
(* the partials.  The handlers share no state between requests, so one      *)
(* request at a time is the whole system.                                   *)
(*                                                                          *)
(* A list of lines is a function from the items they answer: a line keeps   *)
(* the position of its item, and lists are read in the order of positions.  *)
(* Prices are whole cents: the rounding to two places is exact on them.     *)
(***************************************************************************)
EXTENDS Integers, Sequences, FiniteSets, FiniteSetsExt, Functions

CONSTANTS
    LeafCount,      \* the number of LEAF_ENDPOINTS
    PyLeaves,       \* the shards served by warehouse-leaf-py, the rest by -node
    SKUs,           \* every SKU a shard may list or a request may name
    Catalogues,     \* the STOCK maps considered, each [shard -> [sku -> entry]]
    NoEntry,        \* a SKU a shard does not list
    Queries,        \* the bodies considered: sequences of [sku, qty] ...
    NoItems,        \* ... and the body without an items array
    NoAnswer

\* The shards, numbered in the order of LEAF_ENDPOINTS.
Shards  == 1 .. LeafCount
Entries == [qty : Nat, price : Nat, eta : Nat]
Lists   == Seq([sku : SKUs, qty : Int])

ASSUME LeafCountAssumption == LeafCount \in Nat \ {0}
ASSUME PyLeavesAssumption == PyLeaves \subseteq Shards
ASSUME CataloguesAssumption ==
    /\ Catalogues \subseteq [Shards -> [SKUs -> Entries \cup {NoEntry}]]
    /\ NoEntry \notin Entries
ASSUME QueriesAssumption ==
    /\ Queries \subseteq Lists \cup {NoItems}
    /\ NoItems \notin Lists

VARIABLES
    stock,      \* the catalogues of the shards
    query,      \* the request body
    phase,      \* "idle", "scatter", "merge" or "replied"
    leaf,       \* each call: "calling", "ok" or "failed"
    body,       \* the lines of each leaf that answered
    answer      \* what the client got

vars == <<stock, query, phase, leaf, body, answer>>

Items(q) == IF q = NoItems THEN <<>> ELSE q
Skus(q)  == {Items(q)[i].sku : i \in DOMAIN Items(q)}

\* One type invariant: the request's progress and what its parts hold.
TypeOK ==
    /\ stock \in Catalogues
    /\ query \in Queries
    /\ phase \in {"idle", "scatter", "merge", "replied"}
    /\ leaf \in [Shards -> {"calling", "ok", "failed"}]
    /\ DOMAIN body = Shards
    /\ \A s \in Shards : leaf[s] # "ok" => body[s] = <<>>
    /\ phase \in {"merge", "replied"} => \A s \in Shards : leaf[s] # "calling"
    /\ answer # NoAnswer => phase = "replied"

Init ==
    /\ stock \in Catalogues
    /\ query \in Queries
    /\ phase = "idle"
    /\ leaf = [s \in Shards |-> "calling"]
    /\ body = [s \in Shards |-> <<>>]
    /\ answer = NoAnswer

-----------------------------------------------------------------------------
(* The leaves.                                                              *)

Line(s, sku) == [sku |-> sku, qty |-> stock[s][sku].qty,
                 price |-> stock[s][sku].price, eta |-> stock[s][sku].eta]

\* warehouse-leaf-py: one line per distinct SKU, an unknown one with zeros.
LineFor(s, sku) ==
    IF stock[s][sku] = NoEntry
      THEN [sku |-> sku, qty |-> 0, price |-> 0, eta |-> 0]
      ELSE Line(s, sku)

Distinct(items) ==
    {i \in DOMAIN items : \A j \in 1 .. i - 1 : items[j].sku # items[i].sku}

\* Mutant: a SKU named twice is answered twice.
AvailabilityPerItem(s, items) == [i \in DOMAIN items |-> LineFor(s, items[i].sku)]

Availability(s, items) == [i \in Distinct(items) |-> LineFor(s, items[i].sku)]

\* warehouse-leaf-node: one line per item whose SKU it stocks.
BuildLines(s, items) ==
    [i \in {j \in DOMAIN items : stock[s][items[j].sku] # NoEntry}
        |-> Line(s, items[i].sku)]

\* The Python leaf refuses a body without an items array, the Node leaf reads
\* it as an empty one.
LeafAccepts(s) == query # NoItems \/ s \notin PyLeaves

LeafLines(s) ==
    IF s \in PyLeaves THEN Availability(s, Items(query)) ELSE BuildLines(s, Items(query))

-----------------------------------------------------------------------------
(* inventory-root.                                                          *)

\* handleAvailability: one goroutine per leaf.
Scatter ==
    /\ phase = "idle"
    /\ phase' = "scatter"
    /\ UNCHANGED <<stock, query, leaf, body, answer>>

\* callLeaf returns the leaf's 200.
LeafAnswers(s) ==
    /\ phase = "scatter" /\ leaf[s] = "calling" /\ LeafAccepts(s)
    /\ leaf' = [leaf EXCEPT ![s] = "ok"]
    /\ body' = [body EXCEPT ![s] = LeafLines(s)]
    /\ UNCHANGED <<stock, query, phase, answer>>

\* Mutant: the call has no deadline of its own and fails only on a refusal.
LeafFailsWhenRefused(s) ==
    /\ phase = "scatter" /\ leaf[s] = "calling" /\ ~LeafAccepts(s)
    /\ leaf' = [leaf EXCEPT ![s] = "failed"]
    /\ UNCHANGED <<stock, query, phase, body, answer>>

\* callLeaf returns an error: the leaf's own timeout, a refused connection, a
\* 4xx or 5xx.  The other calls go on.
LeafFails(s) ==
    /\ phase = "scatter" /\ leaf[s] = "calling"
    /\ leaf' = [leaf EXCEPT ![s] = "failed"]
    /\ UNCHANGED <<stock, query, phase, body, answer>>

\* Mutant: the gather does not wait for the last leaf.
GatherEarly ==
    /\ phase = "scatter"
    /\ \E s \in Shards : leaf[s] # "calling"
    /\ phase' = "merge"
    /\ UNCHANGED <<stock, query, leaf, body, answer>>

\* wg.Wait: every leaf has returned.
Gather ==
    /\ phase = "scatter"
    /\ \A s \in Shards : leaf[s] # "calling"
    /\ phase' = "merge"
    /\ UNCHANGED <<stock, query, leaf, body, answer>>

-----------------------------------------------------------------------------
(* inventory-merge: merge_availability, a function of query and partials.   *)

\* Mutant: a shard that answered with no line counts as a failed one.
PartialIfEmpty == \E s \in Shards : leaf[s] # "ok" \/ body[s] = <<>>

\* The partial flag of _collect_offers.
Partial == \E s \in Shards : leaf[s] # "ok"

\* The offers: the lines of every answer, each at its shard and its item.
Offers == {p \in Shards \X DOMAIN Items(query) : p[2] \in DOMAIN body[p[1]]}
Offer(p) == body[p[1]][p[2]]

\* Mutant: offers of zero are kept.
CandidatesWithEmpty(sku) == {p \in Offers : Offer(p).sku = sku}

\* The offers for a SKU with something available.
Candidates(sku) == {p \in Offers : Offer(p).sku = sku /\ Offer(p).qty > 0}

\* Mutant: the largest offer decides instead of the sum.
AvailableFromOne(sku) == Cardinality(UNION {1 .. Offer(p).qty : p \in Candidates(sku)})

\* The sum of what the candidates offer, counted unit by unit.
AvailableTotal(sku) ==
    Cardinality(UNION {{p} \X (1 .. Offer(p).qty) : p \in Candidates(sku)})

\* min by (eta_days, unit_price): of equals the one offered first.
Before(p, q) ==
    \/ Offer(p).eta < Offer(q).eta
    \/ /\ Offer(p).eta = Offer(q).eta
       /\ \/ Offer(p).price < Offer(q).price
          \/ /\ Offer(p).price = Offer(q).price
             /\ p[1] < q[1] \/ (p[1] = q[1] /\ p[2] < q[2])

Best(c) == CHOOSE p \in c : \A q \in c \ {p} : Before(p, q)

Allocation(items) ==
    [i \in {j \in DOMAIN items : Candidates(items[j].sku) # {}} |->
        LET b == Best(Candidates(items[i].sku))
        IN  [sku |-> items[i].sku, qty |-> items[i].qty, warehouse |-> b[1],
             price |-> Offer(b).price, eta |-> Offer(b).eta]]

TotalPrice(lines) ==
    FoldFunction(+, 0, [i \in DOMAIN lines |-> lines[i].price * lines[i].qty])

Merge ==
    LET items == Items(query)
        lines == Allocation(items)
    IN  [fulfillable |-> \A i \in DOMAIN items : AvailableTotal(items[i].sku) >= items[i].qty,
         allocation  |-> lines,
         total       |-> TotalPrice(lines),
         maxEta      |-> Max({0} \cup {lines[i].eta : i \in DOMAIN lines}),
         partial     |-> Partial]

\* relayMerge: the merge service's 200, relayed as it is.
Relay ==
    /\ phase = "merge"
    /\ phase' = "replied"
    /\ answer' = Merge
    /\ UNCHANGED <<stock, query, leaf, body>>

\* The merge service did not answer: 502 and no verdict.
MergeFails ==
    /\ phase = "merge"
    /\ phase' = "replied"
    /\ UNCHANGED <<stock, query, leaf, body, answer>>

Next ==
    \/ Scatter \/ Gather \/ Relay \/ MergeFails
    \/ \E s \in Shards : LeafAnswers(s) \/ LeafFails(s)

Spec == Init /\ [][Next]_vars

\* Nothing makes a leaf or the merge service answer; but every call has a
\* deadline, so it fails if it does not return.
FairSpec ==
    /\ Spec
    /\ WF_vars(Gather) /\ WF_vars(MergeFails)
    /\ \A s \in Shards : WF_vars(LeafFails(s))

-----------------------------------------------------------------------------
(* Properties.                                                              *)

Verdict == answer # NoAnswer

\* What the shards really hold of a SKU, and the shards that hold some of it.
Holders(sku) == {s \in Shards : stock[s][sku] # NoEntry /\ stock[s][sku].qty > 0}
InStock(sku) == Cardinality(UNION {{s} \X (1 .. stock[s][sku].qty) : s \in Holders(sku)})

Covered == \A i \in DOMAIN Items(query) : InStock(Items(query)[i].sku) >= Items(query)[i].qty

NoRepeats == \A i, j \in DOMAIN Items(query) :
                Items(query)[i].sku = Items(query)[j].sku => i = j

\* Nothing makes merge count a shard's stock twice: the Python leaf answers a
\* SKU once, the Node leaf once for every item that names it.
CountedOnce == NoRepeats \/ \A s \in Shards : leaf[s] = "ok" => s \in PyLeaves

\* A "fulfillable" is true of the stock whichever leaves failed, unless a Node
\* leaf has answered a query that names a SKU twice; and for every query, when
\* no leaf failed and the stock covers it, the verdict is "fulfillable".
VerdictMatchesStock ==
    Verdict =>
        /\ CountedOnce /\ answer.fulfillable => Covered
        /\ ~answer.partial /\ Covered => answer.fulfillable

\* A verdict is marked partial exactly when the answer of some shard is missing
\* from it, although leaves answer and time out in any order.
PartialIsExact ==
    Verdict => (answer.partial <=> \E s \in Shards : leaf[s] = "failed")

\* A line is allocated exactly for the items some answering shard holds, to one
\* that really holds the SKU, at its price and ETA, and no shard that answered is
\* faster, or as fast and cheaper; the promised maximum covers every line.
AllocationIsBest ==
    Verdict =>
        /\ \A i \in DOMAIN answer.allocation :
            LET l == answer.allocation[i]
            IN  /\ l.warehouse \in Holders(l.sku)
                /\ [sku |-> l.sku, qty |-> stock[l.warehouse][l.sku].qty,
                    price |-> l.price, eta |-> l.eta] = Line(l.warehouse, l.sku)
                /\ l.eta <= answer.maxEta
                /\ \A s \in Holders(l.sku) : leaf[s] = "ok" =>
                      \/ l.eta < stock[s][l.sku].eta
                      \/ l.eta = stock[s][l.sku].eta /\ l.price <= stock[s][l.sku].price
        /\ {answer.allocation[i].sku : i \in DOMAIN answer.allocation}
            = {sku \in Skus(query) : \E s \in Holders(sku) : leaf[s] = "ok"}

\* Every request is answered, although leaves hang: no leaf can hold it back.
Answered == phase = "scatter" ~> phase = "replied"
=============================================================================
