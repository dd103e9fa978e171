------------------------------ MODULE MCLifecycle ------------------------------
EXTENDS Lifecycle
===============================================================================
