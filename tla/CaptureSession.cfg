SPECIFICATION FairSpec
CONSTANTS
    Mic = Mic
    Screen = Screen
    Events <- MCEvents
    LegacyBoundaries = {1}
    MaxPublishes = 1
INVARIANTS TypeOK AckIsPrefix SealIsAuditable CompletionIsCurrent
 
CHECK_DEADLOCK FALSE
