\* Exclusive handoff between an SDXL image job, a video job and a chat.
CONSTANTS
  sdxl = sdxl
  video = video
  chat = chat
  ensure = ensure
  edit = edit
  NoJob = NoJob
  ImageJobs <- JustSdxl
  VideoJobs <- JustVideo
  ChatJobs <- JustChat
  EnsureJobs <- NoJobs
  EditJobs <- NoJobs
  Exclusive <- MediaAndChat
  Sdxl <- JustSdxl
  OfflineChoices <- AllOnline
  SettleAttempts = 2
  MaxSpeech = 1
SPECIFICATION Safe
INVARIANTS
  TypeOK
  NoWeightsBesideExclusiveJob
  AdmissionOnFreshSample
