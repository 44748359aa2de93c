-------------------------- MODULE MCTransferPermit --------------------------
EXTENDS TransferPermit

CONSTANTS t1, t2, t3, t4

MCTransfers == {t1, t2, t3, t4}

=============================================================================
