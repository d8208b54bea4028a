-------------------------- MODULE MC_ModelHandoff --------------------------
\* At most one job of every kind; the runs choose which kinds take part.
EXTENDS ModelHandoff

CONSTANTS sdxl, video, chat, ensure, edit

NoJobs == {}
JustSdxl == {sdxl}
JustVideo == {video}
JustChat == {chat}
JustEnsure == {ensure}
JustEdit == {edit}
MediaAndChat == {sdxl, video, chat}
ImageAndChat == {sdxl, chat, ensure}
AllOnline == {{}}
SomeOffline == {{}, {"image"}, {"video"}, {"speech"}, {"musetalk"}}
==========================================================================
