SPECIFICATION Spec
CONSTANT Families <- AllFamilies
INVARIANTS LikeStock FlagsClean
CHECK_DEADLOCK FALSE
