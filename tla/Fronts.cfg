SPECIFICATION FrontsSpec
CONSTANTS
    t1 = t1
    t2 = t2
    t3 = t3
    i1 = i1
    i2 = i2
    s1 = s1
    s2 = s2
    web = web
    feishu = feishu
    Nothing = Nothing
    Turns = {t1, t2, t3}
    Injects = {i1, i2}
    Sessions = {s1, s2}
    Clients = {web, feishu}
    Fetching = {web}
    ClientOf <- MCClientOf
    WantOf <- MCWantOf
    MaxPush = 1
    MaxKept = 1
    mentions = mentions
    own = own
    Feeds = {mentions, own}
    FeedsOf <- MCFeedsOf
    LastPost = 3
    LastOld = 1
    MaxReplies = 2
    MaxDowns = 1
    reading = reading
    listing = listing
    LastKey = 2
    Asks = {reading, listing}
    Readings = {reading}
    MaxLimits = 2
INVARIANTS
    HeldOnce
    MentionsHandled
    KeysTried
PROPERTIES
    NewestEdited
    FrontsEnd
CHECK_DEADLOCK FALSE
