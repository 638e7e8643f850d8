----------------------------- MODULE MCMonitor ------------------------------
EXTENDS Monitor
=============================================================================
