\* Three writers and four readers, two threads being both.
SPECIFICATION FairSpec
CONSTANTS
    Writers = {w1, t1, t2}
    Readers = {t1, t2, r1, r2}
    Modulus = 16
INVARIANTS
    RWInv
    MutualExclusion
PROPERTIES
    WriterNotOvertaken
    EveryoneEnters
CHECK_DEADLOCK FALSE
