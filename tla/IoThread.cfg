SPECIFICATION IoSpec
CONSTANTS
    Vctrl = {c1}
    NThreads = 2
    Binding = {b1, b2}
    None = None
    Size = 2
    ArbBurst = 1
    Modes <- AllModes
    Writers = {w1}
    QuietRebind = TRUE
    SpuriousLive = FALSE
INVARIANTS IoTypeOK OnePoller IdleQuiescent
PROPERTIES CommandTaken
