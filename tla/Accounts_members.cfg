\* Two requests at once, an organisation of at most two seats.  Two owners may
\* remove each other; then nobody can enter, and within MaxOrgs nothing is left to do.
SPECIFICATION Spec
CONSTANTS
 h1 = h1 h2 = h2
 e1 = e1 e2 = e2
 Handlers = {h1, h2}
 Emails = {e1, e2}
 MemberLimit = 2
 MaxId = 5
 MaxOrgs = 1
 MaxResets = 1
 Free = Free
SYMMETRY Symmetry
CHECK_DEADLOCK FALSE
INVARIANTS TypeOK OwnerStays WithdrawnNeverJoins SeatsBounded SessionsCurrent
