------------------------ MODULE MC_MemorySupervisor ------------------------
\* A text-to-image generation and a job that may share the memory, one extraction.
EXTENDS MemorySupervisor

CONSTANTS generate, edit, extractor

BothJobs == {generate, edit}
JustGenerate == {generate}
OneExtractor == {extractor}
==========================================================================
