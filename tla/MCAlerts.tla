------------------------------ MODULE MCAlerts ------------------------------
EXTENDS Alerts
=============================================================================
