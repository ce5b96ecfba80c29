SPECIFICATION FairMessagesSpec
CONSTANTS
  tab1 = tab1
  tab2 = tab2
  feed = feed
  wiki = wiki
  NoKey = NoKey
  Tabs = {tab1, tab2}
  Keys = {feed, wiki}
  MaxItems = 1
  Lifetime = 2
  Throttle = 2
  Timeout = 1
  MaxAge <- MCMaxAge
PROPERTIES
  LeavesForAReason
  SentOnceAWhile
  EveryRequestJudged
CHECK_DEADLOCK FALSE
