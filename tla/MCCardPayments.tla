---------------------------- MODULE MCCardPayments ----------------------------
EXTENDS CardPayments
===============================================================================
