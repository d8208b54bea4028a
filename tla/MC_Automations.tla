-------------------------- MODULE MC_Automations --------------------------
\* Two automations, one claimed at a time.
EXTENDS Automations

CONSTANTS scout, report

Both == {scout, report}
=============================================================================
