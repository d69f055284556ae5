CONSTANTS
  Nicks = {n1, n2}
  Users = {n2}
  Chans = {c}
  Nokick = {}
  Bot = Bot
  None = None
  Statuses = {"o"}
  Settings <- MCSettings
  MaxPending = 2
  MaxCopies = 2
SPECIFICATION Spec
INVARIANTS NobodyIsMissed MembersAreOnline StrictOpAtRest
PROPERTY EmptiedWchansGo
CHECK_DEADLOCK FALSE
