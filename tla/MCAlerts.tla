------------------------------ MODULE MCAlerts ------------------------------
(* Alerts on two rules of one target: one of two strikes that pushes, as   *)
(* service.down, and one of one strike that does not, as tls.cert-expiry.  *)
EXTENDS Alerts
MCStrikes == [r \in Rules |-> IF r \in PushRules THEN 2 ELSE 1]
=============================================================================
