\* Every job ends: an SDXL job, a chat and a role activation.
CONSTANTS
  sdxl = sdxl
  video = video
  chat = chat
  ensure = ensure
  edit = edit
  NoJob = NoJob
  ImageJobs <- JustSdxl
  VideoJobs <- NoJobs
  ChatJobs <- JustChat
  EnsureJobs <- JustEnsure
  EditJobs <- NoJobs
  Exclusive <- ImageAndChat
  Sdxl <- JustSdxl
  OfflineChoices <- AllOnline
  SettleAttempts = 1
  MaxSpeech = 1
SPECIFICATION Spec
PROPERTIES
  JobsEnd
