--------------------------- MODULE MC_ShortsJobs ---------------------------
\* A short in consistency mode, one without, and the retry of a short.
EXTENDS ShortsJobs

CONSTANTS keyed, plain, retry

TwoModes == {keyed, plain}
ShortAndRetry == {keyed, retry}
JustKeyed == {keyed}
=============================================================================
