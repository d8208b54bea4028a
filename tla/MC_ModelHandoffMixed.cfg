\* A video job that may keep image weights, an SDXL job and a direct edit; one service may be offline.
CONSTANTS
  sdxl = sdxl
  video = video
  chat = chat
  ensure = ensure
  edit = edit
  NoJob = NoJob
  ImageJobs <- JustSdxl
  VideoJobs <- JustVideo
  ChatJobs <- NoJobs
  EnsureJobs <- NoJobs
  EditJobs <- JustEdit
  Exclusive <- JustSdxl
  Sdxl <- JustSdxl
  OfflineChoices <- SomeOffline
  SettleAttempts = 3
  MaxSpeech = 1
SPECIFICATION Safe
PROPERTIES
  NoUnloadUnderWork
