--------------------------- MODULE MCResultDelivery ---------------------------
EXTENDS ResultDelivery
=============================================================================
