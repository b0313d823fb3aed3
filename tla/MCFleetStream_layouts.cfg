SPECIFICATION Spec
CONSTANTS
    beech = beech
    elm = elm
    maple = maple
    Aliases = {beech, elm, maple}
    Unreadable = {maple}
    MaxLayouts = 2
    MaxCrashes = 1
INVARIANT CurrentUnlessMissed
PROPERTIES HeldMonotone AlwaysConsumesAgain
