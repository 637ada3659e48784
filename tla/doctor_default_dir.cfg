SPECIFICATION DSpec
CHECK_DEADLOCK FALSE
INVARIANT DoctorFailsOnlyWhatFails
