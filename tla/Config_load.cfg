SPECIFICATION Spec
CONSTANTS
    IntMax = 70000
    Uint32Max = 90000
    UlongMax = 90000
    SizeMax = 1023
    Kilo = 4
    PosixPaths = {"/a", "//s/b"}
    WindowsPaths = {"C:/a", "//s/b"}
    MaxEdits = 2
INVARIANTS
    WhatTheFileSays
    RunnableConfig
    SameEverywhere
CHECK_DEADLOCK FALSE
