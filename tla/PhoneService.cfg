SPECIFICATION Spec
CONSTANTS
    c1 = c1
    c2 = c2
    m1 = m1
    m2 = m2
    t1 = t1
    t2 = t2
    Calls = {c1, c2}
    Media = {m1, m2}
    Clients = {t1, t2}
    None = None
    Scenes <- MCScenes
SYMMETRY Symmetry
INVARIANTS NoGhost SlotsHonest SessionsAccounted NoDeadWait RecordingClosed
CHECK_DEADLOCK FALSE
