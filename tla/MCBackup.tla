------------------------------ MODULE MCBackup -----------------------------
EXTENDS Backup
\* Restarts faster than the interval, and a retention that bites twice.
=============================================================================
