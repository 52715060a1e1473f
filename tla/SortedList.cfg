CONSTANTS
    E1 = E1
    E2 = E2
    E3 = E3
    E4 = E4
    E5 = E5
    Elements <- FiveElements
    KeyOf <- FiveKeys
    Keys <- AllKeys
    NoElement = NoElement
SPECIFICATION FairSpec
INVARIANTS SpareSlot MembersExact GetExact
PROPERTIES CallsReturn
