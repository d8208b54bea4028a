--------------------------- MODULE MC_MediaQueue ---------------------------
\* Two images with a video between them.
EXTENDS MediaQueue

ImageVideoImage == <<"image", "video", "image">>
ImageVideo == <<"image", "video">>
AllJobs == Jobs
First == {1}
==========================================================================
