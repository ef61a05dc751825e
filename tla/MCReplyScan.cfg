SPECIFICATION Spec
CONSTANTS
    Half <- MCHalf
    Signed <- MCSigned
    Kinds <- MCKinds
    Reply <- MCReply
    Answers <- MCAnswers
    MaxAnswers = 2
    MaxScanned = 1
    MaxGroup = 2
INVARIANTS
    FitsOrFails
    SliceIsOverlay
    
    HelpersAgree
CHECK_DEADLOCK FALSE
