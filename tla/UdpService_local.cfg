\* A client that reads every reply, and one that need not.
CONSTANTS
  c1 = c1
  c2 = c2
  Clients <- MCClients
  Chatters <- MCChatters
  MaxResults = 2
  ServerBuf = 2
  ClientBuf = 2
  Garbage <- MCGarbage
SPECIFICATION Spec
INVARIANTS NeverDeaf NotAllStuck RepliesWhole
PROPERTY ServedInTurn
CHECK_DEADLOCK FALSE
