------------------------------- MODULE MCDialog -------------------------------
EXTENDS RunDialog
===============================================================================
