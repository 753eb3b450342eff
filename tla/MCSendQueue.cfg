\* Four messages, a channel of three; the burst ends, or the context is cancelled.
CONSTANTS
  m1 = m1  m2 = m2  m3 = m3  b1 = b1
  Nil = Nil
  Msgs <- MCMsgs
  BotMsgs <- MCBotMsgs
  ChanSize = 3
  HalfBurst = 2
  MayStop = TRUE
SPECIFICATION PromptSpec
INVARIANT TypeOK
INVARIANT EachMessageOnce
INVARIANT ParkedMeansArmed
INVARIANT PausesAreKept
PROPERTY EveryMessageSettled
CHECK_DEADLOCK FALSE
