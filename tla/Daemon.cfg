\* Two invocations at once, up to two daemons; nothing runs at first, or a daemon of
\* another version does, or the systemd unit has just started one.
CONSTANTS
  Clients = {c1, c2}
  MaxDaemons = 2
  Backlog = 1
  Boots = {"empty", "old", "service"}
SPECIFICATION FairSpec
CHECK_DEADLOCK FALSE
INVARIANTS TypeOK CommandsAccounted AnnouncedAfterBind
PROPERTIES AllComeToAnEnd
