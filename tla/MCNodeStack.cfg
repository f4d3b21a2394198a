\* One failure and one kill, wherever they strike.
CONSTANTS
  Subscriptions = {}
  Services = {"service"}
  Timers = {"timer"}
  MaxGenerations = 2
  MaxFaults = 1
  MaxKills = 1
SPECIFICATION FairSpec
INVARIANTS HandlesStand UsesAreLive GenerationsApart
PROPERTY StopsEnd
CHECK_DEADLOCK FALSE
