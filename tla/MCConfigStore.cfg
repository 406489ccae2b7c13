SPECIFICATION FairSpec
CONSTANTS
    ann = ann
    bob = bob
    s1 = s1
    s2 = s2
    s3 = s3
    Users = {ann, bob}
    OpenNets = {bob}
    Servers = {s1, s2, s3}
    HomeOf <- MCHomeOf
    Blank = Blank
    Absent = Absent
    Unusable = Unusable
INVARIANTS
    TypeOK
    OnlineConsistent
PROPERTIES
    RedirectFollowed
    AtomicSpec
