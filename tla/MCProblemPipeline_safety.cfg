SPECIFICATION Spec
CONSTANTS
    p1 = p1
    p2 = p2
    p3 = p3
    h1 = h1
    h2 = h2
    h3 = h3
    v1 = v1
    v2 = v2
    None = None
    Order <- MCOrder
    Streamers = {p2, p3}
    Names = {h1, h2, h3, v1, v2}
    Drafts <- MCDrafts
    Policies <- MCPolicies
    Touchable = {h1, h2, v1}
    MaxProfiles = 1
    loops = loops
    joins = joins
    trees = trees
    graph = graph
    sql = sql
    Nothing = Nothing
    NoteIds = {1, 2, 3}
    Problems = {graph, sql}
    Titles = {loops, joins, trees}
    Topics = {joins}
    Lengths = {30, 100, 300}
    Changes <- MCChanges
    MaxChanges = 2
    Slug <- MCSlug
    maxNotes = 2
    Shelves <- MCShelves
    Refreshes <- MCRefreshes
INVARIANTS
    OneVoice
    PipelineInv
PROPERTIES
    ProfileKeepsWhatWas
    JobsEnd
\* A job ends.
CHECK_DEADLOCK FALSE
