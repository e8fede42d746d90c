CONSTANTS
  NULL = NULL
  Trans = {t1, t2, t3, t4, t5}
  NbTransactions = 5
SPECIFICATION FairSpec
INVARIANTS TypeOK NoReport PipelineCount RequestExclusion
           NoDanglingReference AtMostFourLive
PROPERTIES EverythingCompletes FollowsProtocol UsesPoolCorrectly
