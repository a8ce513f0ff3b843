\* Three appends race for one tenant's chain while another tenant, whose id
\* hashes to the same advisory lock, appends too; two attempts per call.
\* One payload does not read back as it was signed.
CONSTANTS
    t1 = t1  t2 = t2
    k1 = k1  k2 = k2
    a1 = a1  a2 = a2  a3 = a3  b1 = b1
    Tenants = {t1, t2}
    Calls = {a1, a2, a3, b1}
    TenantOf <- MCTenantOf
    Contents <- MCContents
    ContentOf <- MCContentOf
    Stored <- MCStored
    Canonical <- MCCanonical
    LockKeys = {k1, k2}
    LockKey <- MCOneKey
    NoCall = NoCall
    Genesis <- MCGenesis
    MaxAttempts = 2
SPECIFICATION LedgerSpec
INVARIANTS
    ChainsAreLinked
    RecordedOnce
    TamperEvident
PROPERTIES
    AppendSettles
    ImplementsAppendOnlyLog
