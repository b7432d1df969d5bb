-------------------------- MODULE MCReconciliation --------------------------
(* Two objects in each plane, with profiles from "agrees in everything" to *)
(* "nothing to compare", and up to two links between them.                 *)
EXTENDS Reconciliation

Profile(k, r, state, amount, cost, evidence) ==
    [k1 |-> k, k2 |-> k, ref |-> r, state |-> state, payload_state |-> None,
     quantity |-> amount, cost |-> cost, date |-> amount, evidence |-> evidence]

Full       == Profile("a", "a", "active", "one", "one", "doc")
Dearer     == Profile("a", "a", "active", "one", "two", "doc")
OtherKey   == Profile("b", "a", "active", "one", "one", "doc")
KeyOnly    == Profile("a", None, "draft", None, None, None)
Bare       == Profile(None, None, "draft", None, None, None)

MCSource == <<"s1", "s2">>
MCTarget == <<"t1", "t2">>
MCKind == [s1 |-> "order", s2 |-> "order", t1 |-> "visit", t2 |-> "order"]
MCDomain == [s1 |-> "d", s2 |-> "d", t1 |-> "d", t2 |-> "e"]
MCKey == <<"k1", "k2">>
MCRef == <<"ref">>

Link(s, t, type) == [source |-> s, target |-> t, type |-> type]
MCLinkType == {"fulfills", "contradicts", "correlates_with", "blocks", "references"}
MCLinks ==
    {<<>>, <<Link("s1", "t1", "fulfills")>>, <<Link("s1", "t1", "contradicts")>>,
     <<Link("s1", "t1", "fulfills"), Link("t1", "s1", "contradicts")>>,
     <<Link("t2", "s1", "correlates_with"), Link("s1", "t1", "fulfills")>>,
     <<Link("s1", "t1", "contradicts"), Link("s1", "t2", "blocks")>>,
     <<Link("s2", "t2", "references"), Link("s2", "t1", "blocks")>>}

MCGraph ==
    {[value |-> [s1 |-> v1, s2 |-> v2, t1 |-> w1, t2 |-> w2], links |-> l] :
        v1 \in {Full, KeyOnly}, v2 \in {Full, OtherKey, Bare},
        w1 \in {Full, Dearer, KeyOnly, Bare}, w2 \in {Full, Dearer, OtherKey, Bare},
        l \in MCLinks}

MCEdit == {[object |-> "t1", field |-> "cost", value |-> "two"],
           [object |-> "s1", field |-> "payload_state", value |-> "active"]}

MCRequest ==
    {[ids |-> {}, both |-> TRUE, expectations |-> {}],
     [ids |-> {"s1", "t1", "t2"}, both |-> TRUE, expectations |-> {[kind |-> "visit", min |-> 2]}],
     [ids |-> {"s1", "t1"}, both |-> FALSE, expectations |-> {}]}
=============================================================================
