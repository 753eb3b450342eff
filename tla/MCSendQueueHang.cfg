\* The same burst; the system stops after the context is cancelled.
CONSTANTS
  m1 = m1  m2 = m2  m3 = m3  b1 = b1
  Nil = Nil
  Msgs <- MCMsgs
  BotMsgs <- MCBotMsgs
  ChanSize = 2
  HalfBurst = 2
  MayStop = TRUE
SPECIFICATION FairSpec
PROPERTY CancelStopsTelegram
CHECK_DEADLOCK FALSE
