\* Two calls on two handler threads, two answering threads, good and bad payloads.
CONSTANTS
  Requests = {r1, r2}
  NoRequest = none
  Handlers = {h1, h2}
  Responders = {t1, t2}
  BadPayloads = TRUE
SPECIFICATION FairSpec
INVARIANTS
  TypeOK
  AtMostOneAnswer
  NoUseAfterClear
  NullMeansTaken
PROPERTIES
  NoReplyAfterStatus
  ImplementsService
  AnswerEnds
