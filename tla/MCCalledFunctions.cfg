SPECIFICATION Spec
CONSTANTS
    main = main
    ext = ext
    stat1 = stat1
    stat2 = stat2
    proto = proto
    Function <- MCFunction
    Main = main
    Defs <- MCFunction
    Body <- MCBody
    Static <- MCStatic
    Definitions <- MCDefinitions
    MaxVisits = 3
INVARIANTS
    TypeOK
    ListComplete
    ListMinimal
    ReachedClosed
PROPERTIES
    SecondPassIdle
    Terminates
