----------------------------- MODULE MCBackups ------------------------------
EXTENDS Backups

CONSTANTS d1

MCDocuments == {d1}
=============================================================================
