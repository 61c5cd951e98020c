-------------------------- MODULE MCCronScheduler ---------------------------
\* CronScheduler for TLC: every constant is a model value or a set of them.
EXTENDS CronScheduler
=============================================================================
