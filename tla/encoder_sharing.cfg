\* Sharing alone: no rebuild, no failure, no StopLens.
SPECIFICATION FairSpec
CONSTANTS
    Tiers = {tmain, third}
    Third = third
    Factories = {f1, f2}
    NoFactory = NoFactory
    Ops = {}
    MaxGen = 2
    MaxHandler = 3
    MaxCapture = 1
INVARIANTS
    RefExact
PROPERTIES
    ImplementsOnDemand
    UnusedEncoderGoes
