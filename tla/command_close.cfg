CONSTANTS
  MaxCmds = 3
  Kinds = {"WHOIS", "NICK", "JOIN"}
  SentKinds = {"WHOIS"}
  MaxIdent = 3
  UsedIdents = {0}
  MaxItems = 0
SPECIFICATION Spec
INVARIANTS ThreadsFinished
CHECK_DEADLOCK FALSE
