CONSTANTS
  MaxCmds = 3
  Kinds = {"NICK", "JOIN", "USERS", "OPER", "QUIT"}
  SentKinds = {"WHOIS"}
  MaxIdent = 3
  UsedIdents = {2}
  MaxItems = 1
SPECIFICATION FairSpec
INVARIANTS TypeOK PendingLive ReplyFindsItsCommand AnsweredOnce
PROPERTIES CommandsEnd
CHECK_DEADLOCK FALSE
