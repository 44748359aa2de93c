--------------------------- MODULE MCSftpSession ---------------------------
EXTENDS SftpSession

CONSTANTS c1, e1, x1, x2

MCCalls == {c1}
MCEdits == {e1}
MCTransfers == {x1, x2}
=============================================================================
