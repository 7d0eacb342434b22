\* Two keys and two values: one key may be migrated while the other, or none,
\* existed before.
SPECIFICATION Spec
CONSTANTS
    Keys = {k1, k2}
    Entries = {e1, e2}
    Absent = Absent
    Torn = Torn
INVARIANTS TypeOK CacheOnDisk SnapshotUsable
PROPERTY MigrationsAtomic
