SPECIFICATION Spec
CONSTANTS
    Tiers = {main, third}
    Third = third
    hd = hd
    sd = sd
    vga = vga
    Sizes = {hd, sd, vga}
    DefaultSize = hd
    ThirdSize = vga
    Garbled = Garbled
    None = None
    Capable = TRUE
    Hardware = TRUE
    LensRequests <- MCLensRequests
    Updates <- MCUpdates
    MaxRequests = 2
INVARIANTS RunningMatchesConfig FlowFits
PROPERTY ResolutionSettles
