------------------------------ MODULE MCRouting ------------------------------
(* Model of Routing for TLC. *)
EXTENDS Routing

CONSTANTS d1, d2

E(org, vendor, severity, wazuh, geo, bucket) ==
    [labels |-> [f \in Fields |-> CASE f = "organization_id" -> org
                                     [] f = "vendor" -> vendor [] OTHER -> severity],
     wazuh |-> wazuh, geo |-> geo, bucket |-> bucket]

\* Labels that are present, absent or not numbers, two sources, three geographies,
\* both sides of a canary of 50.
MCBatch == <<E(1, 1, 5, FALSE, "us", 20), E(1, 2, None, TRUE, "br", 80),
             E(1, None, Text, FALSE, "none", 80), E(1, 1, 2, TRUE, "us", 60)>>

CatchAll == [f \in {} |-> {}]
C(f, op, val) == [x \in {f} |-> {[op |-> op, val |-> val]}]

R(id, priority, cond, dests) ==
    [id |-> id, priority |-> priority, cond |-> cond, dests |-> dests,
     drop |-> FALSE, final |-> TRUE, enabled |-> TRUE, canary |-> 100,
     sample |-> 100, protect |-> TRUE, redact |-> FALSE]

Catalogue == {
    [R(1, 0, CatchAll, <<d2>>)                          EXCEPT !.enabled = FALSE],
    [R(2, 1, C("org_id", "eq", {1}), <<d1>>)       EXCEPT !.canary = 50],
     R(3, 1, CatchAll, <<d1>>),
    [R(4, 2, C("vendor", "in", {1, 2}), <<d1, d2>>) EXCEPT !.redact = TRUE],
    [R(5, 2, C("vendor", "eq", {1}), <<d1>>)
       EXCEPT !.final = FALSE, !.sample = 50, !.protect = FALSE],
    [R(6, 3, C("vendor", "eq", {1}), <<d1>>)       EXCEPT !.redact = TRUE],
    [R(7, 3, C("vendor", "ne", {1}), <<>>)         EXCEPT !.drop = TRUE],
    [R(8, 4, [f \in {"severity"} |-> {[op |-> "gte", val |-> {2}],
                                      [op |-> "lt", val |-> {5}]}], <<d2>>)
       EXCEPT !.final = FALSE],
     R(9, 4, C("vendor", "absent", {}), <<>>),
    [R(10, 5, CatchAll, <<d2, d2>>)                     EXCEPT !.sample = 50],
     R(11, 5, C("organization_id", "in", {1, 2}), <<d1>>),
     R(12, 6, C("organization_id", "eq", {1}), <<d2>>)}

\* Any three of them; the list is empty when the look-up of the routes fails.
MCRouteSets == {rs \in SUBSET Catalogue : Cardinality(rs) <= 3}

MCResidency == [d \in Dests |-> IF d = d1 THEN "br" ELSE "none"]

MCSamplings == {[enabled |-> FALSE, enforced |-> TRUE], [enabled |-> TRUE, enforced |-> TRUE],
                [enabled |-> TRUE, enforced |-> FALSE]}

AllLookups  == {{"residency", "loops"}}
SomeLookups == {{"residency", "loops"}, {}}

=============================================================================
