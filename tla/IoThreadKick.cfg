SPECIFICATION IoSpec
CONSTANTS
    Vctrl = {c1}
    NThreads = 1
    Binding = {b1}
    None = None
    Size = 3
    ArbBurst = 1
    Modes <- OneMode
    Writers = {}
    QuietRebind = TRUE
    SpuriousLive = FALSE
PROPERTIES KickServed
