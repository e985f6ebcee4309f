\* Two pages, two changes, one fault, with fairness; two owners; and two
\* persons, two organizations, two channels, two faults.
SPECIFICATION MCSpec
CONSTANTS
    NoFetch = NoFetch
    NoChange = NoChange
    Pages <- FewPages
    MaxChanges = 2
    MaxFaults = 1
    Users = {u1, u2}
    Teams <- TwoOwners
    NoUpdate = NoUpdate
    Persons = {p1, p2}
    Orgs = {o1, o2}
    NoPerson = NoPerson
    NoOrg = NoOrg
    Channels = {c1, c2}
    Staff <- OneMember
    MaxStaffMoves = 1
    MaxTabFaults = 2
INVARIANTS
    FreshWhenSubscribed
    OwnChangesShown
    WorkspaceIsOwn
    LiveBadge
PROPERTIES
    ShownEventually
    OwnerLostOnlyByOverlap
