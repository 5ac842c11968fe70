\* Everything at once: static rebuilds, cairo audits, failures and StopLens.
SPECIFICATION Spec
CONSTANTS
    Tiers = {third}
    Third = third
    Factories = {f1, f2}
    NoFactory = NoFactory
    Ops = {"static", "cairo", "stop", "fail"}
    MaxGen = 2
    MaxHandler = 2
    MaxCapture = 2
SYMMETRY Symmetry
INVARIANTS
    RefBound
    UsersSubscribed
    StreamsHaveBranches
