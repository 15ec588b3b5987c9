CONSTANTS
    Metrics = {"blocked"}
    Rules <- OneRule
    Silent = {}
    Unreadable = {}
    SameName = FALSE
    Webhook = FALSE
    None = None
    Cooldown = 2
    PassTime = 1
    Retention = 2
    MaxLevel = 1
    MaxTime = 2
    MaxFaults = 1
SPECIFICATION FairSpec
PROPERTY StandingBreachFires
