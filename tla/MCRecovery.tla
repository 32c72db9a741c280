----------------------------- MODULE MCRecovery -----------------------------
(***************************************************************************)
(* Instances of Recovery for TLC.                                          *)
(***************************************************************************)
EXTENDS Recovery

Fact(table, prefixes, position) ==
    [table |-> table, prefixes |-> prefixes, position |-> position]

\* A bad payment and a bad ticket with the prefixes of the anomaly run, a bad
\* movement without, and a good payment, changed in one statement with the bad.
MCFacts ==
    {Fact("fact_payment_by_day", {"PAY-ANOM-", "PAY"}, "pos1"),
     Fact("fact_payment_by_day", {"PAY"}, "pos1"),
     Fact("fact_support_case_by_customer", {"TCK-ANOM-"}, "pos2"),
     Fact("fact_inventory_movement_by_product", {}, "pos3")}

MCBadFacts == {f \in MCFacts : f.prefixes # {"PAY"}}

NoPrefix == [t \in Tables |-> None]
Anomalies == [NoPrefix EXCEPT !["fact_payment_by_day"] = "PAY-ANOM-",
                              !["fact_support_case_by_customer"] = "TCK-ANOM-"]
ShortPrefix == [NoPrefix EXCEPT !["fact_payment_by_day"] = "PAY"]

ScopedBy(prefix, positions, skips) ==
    [prefix : {prefix}, positions : {positions}, dryRun : {FALSE}, yes : {TRUE},
     skipDashboard : skips]

MCCommandLines ==
    ScopedBy(Anomalies, <<>>, BOOLEAN) \cup ScopedBy(NoPrefix, <<"pos1">>, BOOLEAN)
        \cup ScopedBy([Anomalies EXCEPT !["fact_support_case_by_customer"] = None],
                      <<"pos1">>, {TRUE})
        \cup [prefix : {NoPrefix, ShortPrefix, Anomalies}, positions : {<<>>},
              dryRun : BOOLEAN, yes : BOOLEAN, skipDashboard : {FALSE}]

PrefixOnly == ScopedBy(Anomalies, <<>>, {TRUE})
=============================================================================
