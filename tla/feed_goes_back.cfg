\* A page subscribes between the two steps of the collector.
SPECIFICATION FairSpec
CONSTANTS
  Page = {p1}
  Reading <- Readings
  CHANNEL_CAPACITY = 1
  MaxFrames = 3
PROPERTY NeverGoesBack
