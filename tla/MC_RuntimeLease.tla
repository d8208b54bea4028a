-------------------------- MODULE MC_RuntimeLease --------------------------
\* Two services; the agent has two threads that compete for the lease, the
\* other service (image, video or backend) has one.
EXTENDS RuntimeLease, TLC

CONSTANTS chat, tools, image, agent, media

MCThreads == {chat, tools, image}
SomeThread == {image}
MCProcesses == {agent, media}
MCProcessOf == (chat :> agent) @@ (tools :> agent) @@ (image :> media)
==========================================================================
