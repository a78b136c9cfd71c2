---------------------------- MODULE MCAlertsOnce ----------------------------
EXTENDS Alerts
MCStrikes == [r \in Rules |-> 1]
=============================================================================
