-------------------------- MODULE MCCronScheduler --------------------------
EXTENDS CronScheduler, TLC

CONSTANTS j1

\* Two runs of the job may be alive at once.
MCRuns == {<<j1, 1>>, <<j1, 2>>}

\* It is retried once.
MCMaxRetries == j1 :> 1
=============================================================================
