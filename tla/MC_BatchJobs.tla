--------------------------- MODULE MC_BatchJobs ---------------------------
(* Two batch jobs on one input file for TLC. *)
EXTENDS BatchJobs

CONSTANTS csv, other, upload, t1, t2

TwoJobs == {csv, other}
TheirKinds == [j \in TwoJobs |-> IF j = csv THEN {"chunks", "analysis", "freetext"} ELSE {"freetext"}]
\* Routed jobs are automatic, so the created ones are controlled.
TheirModes == [j \in TwoJobs |-> IF j = csv THEN {"controlled"} ELSE {}]
OneFile == {upload}
SameFile == [j \in TwoJobs |-> upload]
TwoVersions == {1, 2}
Json == {1}
TwoThreads == {t1, t2}
Tokens == [v \in TwoVersions |-> IF v = 1 THEN <<1, 1, 4>> ELSE <<4>>]
Calls == [j \in TwoJobs |-> IF j = csv THEN 2 ELSE 0]
=============================================================================
