SPECIFICATION FairSpec
INVARIANTS TypeOK OthersSurvive
PROPERTIES OutputIsFinal TimeoutEndsCommand
