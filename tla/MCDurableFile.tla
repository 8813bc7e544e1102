---------------------------- MODULE MCDurableFile ----------------------------
EXTENDS DurableFile
=============================================================================
