\* Five keys; tables of one to 16 buckets.
SPECIFICATION FairSpec
CONSTANTS
    Elements = {1, 2, 3, 4, 5, 6}
    NULL = NULL
    Garbage = Garbage
    KeyOf <- MCKeyOf
    hashv <- MChashv
    Rank <- MCRank
    HASH_INITIAL_NUM_BUCKETS = 1
    HASH_BKT_CAPACITY_THRESH = 1
    BLOOM_BITLEN = 32
    MaxBuckets = 16
INVARIANTS
    TypeOK
    FsckHolds
    FindsWhatIsThere
    ChainsStayShort
PROPERTIES
    OrderedSpec
    SortEnds
