\* Tasks that use the channel one at a time, or at the same time for as many
\* requests as Crowd says, with an APU that may be late or stop answering.
SPECIFICATION ClientSpec
CONSTANTS
  Trunks = 2
  N = 2
  Ticks = 2
  MaxReqs = 6
  Crowd = 2
INVARIANTS AnswerIsOwn DownloadDelivered OneUserOfShm
PROPERTIES EveryRequestEnds
