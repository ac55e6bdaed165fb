---------------------------- MODULE MCDoorbell ----------------------------
EXTENDS Doorbell
=============================================================================
