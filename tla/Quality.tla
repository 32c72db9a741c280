------------------------------- MODULE Quality -------------------------------
(***************************************************************************)
(* The data-quality report of a snapshot (quality.py) as operators over    *)
(* the results of Serving's queries.  Money is in tenths, so the code's    *)
(* tolerance of 0.01 is less than one unit and "< -0.01" is "< 0".         *)
(***************************************************************************)
EXTENDS Serving

Statuses == {"pass", "warn", "fail"}

FailIf(condition) == IF condition THEN "fail" ELSE "pass"

\* A snapshot's results: revenue, payments, support, orderCash, findings.
AnyQueryFailed(results) == \E q \in DOMAIN results : results[q] = Failed

NegativeRowCounts(results) ==
    \/ \E r \in ValidRows(results.revenue) : r.lines < 0 \/ r.units < 0
    \/ \E r \in ValidRows(results.payments) : r.count < 0
    \/ \E r \in ValidRows(results.support) : r.tickets < 0

AmountOf(results, status) ==
    SumFunction([r \in WithStatus(ValidRows(results.payments), status) |-> r.amount])

Magnitude(n) == IF n < 0 THEN -n ELSE n

\* Captured payments minus refunds.
NetCaptured(results) ==
    AmountOf(results, "captured") - Magnitude(AmountOf(results, "refunded"))

\* Mutant: refunds are added to the captured amount instead of taken off it.
BooksOff_AddsRefunds(results) ==
    LET gross == SumOf(results.revenue, "gross")
        net == AmountOf(results, "captured") + Magnitude(AmountOf(results, "refunded"))
    IN  \/ gross < 0 \/ net < 0 \/ net > gross
        \/ \E r \in ValidRows(results.orderCash) : r.open < 0

\* The failures of _amount_reconciliation_check.
BooksOff(results) ==
    LET gross == SumOf(results.revenue, "gross")
    IN  \/ gross < 0
        \/ NetCaptured(results) < 0
        \/ NetCaptured(results) > gross
        \/ \E r \in ValidRows(results.orderCash) : r.open < 0

\* _quality_counts of the first valid row, 0 where there is none.
FindingsIn(results, names) ==
    IF results.findings = Failed THEN 0
    ELSE SumFunctionOnSet(results.findings, names)

AmountFindings == {"negative_payment_facts", "negative_refund_facts"}
DimensionFindings ==
    {"null_customer_dimensions", "null_product_dimensions", "null_order_dimensions",
     "null_payment_dimensions", "null_support_dimensions", "null_inventory_dimensions"}
EnumFindings ==
    {"unknown_order_enums", "unknown_payment_enums", "unknown_refund_enums",
     "unknown_support_enums", "unknown_inventory_enums"}

\* Without telemetry the counts are missing and read as 0.
OverThreshold(metrics, config) ==
    /\ metrics.available
    /\ \/ metrics.dlq > config.dlqMax
       \/ metrics.rejects > config.quarantineMax

\* Every last_event_ts of the four datasets.
EventTimes(results) ==
    UNION {{r.last : r \in ValidRows(results[q])} :
              q \in {"revenue", "payments", "support", "orderCash"}}

\* _freshness_check: the newest event of all datasets together.
Freshness(generatedAt, results, config) ==
    LET times == EventTimes(results)
    IN  IF times = {} THEN "warn" ELSE FailIf(generatedAt - Max(times) > config.maxAge)

\* The eight checks, before the overrides.
RawChecks(generatedAt, results, metrics, config) ==
    [dashboard_queries_ok |-> FailIf(AnyQueryFailed(results)),
     non_negative_row_counts |-> FailIf(NegativeRowCounts(results)),
     order_payment_reconciliation |-> FailIf(BooksOff(results)),
     serving_payment_amounts_valid |-> FailIf(FindingsIn(results, AmountFindings) > 0),
     serving_required_dimensions_present |-> FailIf(FindingsIn(results, DimensionFindings) > 0),
     serving_enum_values_known |-> FailIf(FindingsIn(results, EnumFindings) > 0),
     dlq_quarantine_thresholds |-> FailIf(OverThreshold(metrics, config)),
     pipeline_event_freshness |-> Freshness(generatedAt, results, config)]

\* Mutant: an override hides the check altogether.
Overridden_Passes(status, name, config) ==
    IF status = "fail" /\ name \in config.warningChecks THEN "pass" ELSE status

\* _apply_warning_overrides for one check.
Overridden(status, name, config) ==
    IF status = "fail" /\ name \in config.warningChecks THEN "warn" ELSE status

\* The worst status of the checks.
Overall(checks) ==
    LET found == {checks[c] : c \in DOMAIN checks}
    IN  IF "fail" \in found THEN "fail" ELSE IF "warn" \in found THEN "warn" ELSE "pass"

\* quality_report
Report(generatedAt, results, metrics, config) ==
    LET raw == RawChecks(generatedAt, results, metrics, config)
        checks == [c \in DOMAIN raw |-> Overridden(raw[c], c, config)]
    IN  [overallStatus |-> Overall(checks), checks |-> checks]
=============================================================================
