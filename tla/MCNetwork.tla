------------------------------- MODULE MCNetwork -------------------------------
EXTENDS Network
===============================================================================
