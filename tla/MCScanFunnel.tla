---------------------------- MODULE MCScanFunnel -----------------------------
(***************************************************************************)
(* A small instance of ScanFunnel for TLC.                                 *)
(***************************************************************************)
EXTENDS ScanFunnel

\* A stock that passes everything, best as a breakout ...
Fine == [fails |-> "nothing", features |-> 1, etf |-> FALSE, event |-> "clear", days |-> 6,
         sectored |-> TRUE, charts |-> SetupType,
         score |-> [s \in SetupType |-> IF s = "BREAKOUT_RETEST" THEN 90 ELSE 70]]

\* ... those whose events or earnings are near, unknown or clear, those of one
\* setup, and those that fail a gate before.
MCProfile ==
    {[Fine EXCEPT !.etf = e, !.event = v, !.days = d] :
         e \in BOOLEAN, v \in {"clear", "blocked", "unknown"}, d \in {NotKnown, 5, 6}}
    \cup {[Fine EXCEPT !.sectored = b, !.charts = {"RELATIVE_STRENGTH_CONTINUATION"}] :
              b \in BOOLEAN}
    \cup {[Fine EXCEPT !.charts = {}]}
    \cup {[Fine EXCEPT !.fails = r] : r \in {"trading_halt", "trend_rs_ineligible"}}
===========================================================================
