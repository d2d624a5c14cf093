\* The pages, the socket and the answers, whatever is clicked meanwhile.
SPECIFICATION Spec
CONSTANTS
  ann = ann  bob = bob
  Account = {ann, bob}
  None = None
  Length <- MCLength
INVARIANTS AnswerFitsForward AccountIsServers WaitsForOwnAnswer
PROPERTIES CrashHasReason AnswerHandled
