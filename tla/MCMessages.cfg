SPECIFICATION MessagesSpec
CONSTANTS
  PNames <- MCNames
  PCases <- MCCases
  PAuthzAnswers <- MCAuthzAnswers
  PLimitAnswers <- MCLimitAnswers
  Caller = {c1, c2}
  Capacity = 3
  RefillAmount = 2
  Interval = 1
  TokenSpan = 32
  EndOfTime = 3
  Provider = {"openai", "anthropic", "bedrock"}
  Rules <- MCRules
  Webhook = TRUE
  Action = "reject"
  Prompt <- MCPrompt
  Estimate = {2, 3}
  Usage <- MCUsage
  MaxReports = 2
  DefaultStreams <- MCDefault
  AnthropicStreams <- MCAnthropic
  EventSize = 2
  Docs <- MCDocs
  StackLimit = 5
  MaxFrames = 2
  Splits = {1}
  QueueCap = 2
  ChunkCap = 1
INVARIANTS
  ForwardedOnlyWhenAdmitted 
  RateBound TokensAccounted 
  FramesDoNotMatter  BodyThroughProcessor
CHECK_DEADLOCK FALSE
