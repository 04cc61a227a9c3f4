CONSTANTS
  AutoWatch <- OneAuto
  MaxActs = 5
  MaxDrops = 1
  Strangers = {"hi"}
SPECIFICATION Spec
CHECK_DEADLOCK FALSE
INVARIANTS AnswerMatches PeersMatchRoster VoiceConnects WatchedIsSentCalm
PROPERTIES Settles
