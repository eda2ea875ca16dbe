SPECIFICATION FairLockSpec
CONSTANTS
    User = {t1, t2, t3, t4}
    MaxAcquires = 7
    Patient = {t1, t2}
INVARIANTS MutualExclusion
PROPERTIES OnlyGivingUpStrandsReaders PatientWritersSucceed
CHECK_DEADLOCK FALSE
