CONSTANTS
    Entities = {1, 2, 3}
    Label <- Labels
    Unsourced = {3}
    Analysts = {a1, a2}
    MaxDecisions = 3
    MaxReviews = 1
SPECIFICATION Spec
SYMMETRY Symmetry
INVARIANTS
    TypeOK
    GroupsAreComponents
    PagesAreSound
    OnlyRacesBreakHistory
PROPERTIES
    GrownFindingsAreOpen
