SPECIFICATION FairSpec
CONSTANTS
    Agents = {a, b}
    Hosts = {h}
    Local = local
    HostOf <- MCHostOf
    Sender = s
    MaxStarts = 2
    MaxLost = 1
    a = a  b = b  h = h  local = local  s = s
INVARIANTS TypeOK OnePromptPerTick TicksAreOffered
PROPERTIES OnlyAnsweredUnticked PopupSettles
CHECK_DEADLOCK FALSE
