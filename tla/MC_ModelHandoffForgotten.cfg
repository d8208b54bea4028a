\* An exclusive SDXL job that is cancelled while it settles.
CONSTANTS
  sdxl = sdxl
  video = video
  chat = chat
  ensure = ensure
  edit = edit
  NoJob = NoJob
  ImageJobs <- JustSdxl
  VideoJobs <- NoJobs
  ChatJobs <- NoJobs
  EnsureJobs <- NoJobs
  EditJobs <- NoJobs
  Exclusive <- JustSdxl
  Sdxl <- JustSdxl
  OfflineChoices <- AllOnline
  SettleAttempts = 3
  MaxSpeech = 0
SPECIFICATION Safe
INVARIANTS
  ChatNeverForgotten
