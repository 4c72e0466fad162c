\* Bad payloads too: can a good answer still complete the request?
CONSTANTS
  Requests = {r1, r2}
  NoRequest = none
  Handlers = {h1}
  Responders = {t1, t2}
  BadPayloads = TRUE
SPECIFICATION FairSpec
PROPERTY AnswerCompletes
