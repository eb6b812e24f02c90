---------------------------- MODULE MCCronService -----------------------------
\* Instances of CronService for TLC.
EXTENDS CronService
=============================================================================
