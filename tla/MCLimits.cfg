\* Three addresses and three lobbies of one game against every limit.
CONSTANTS
    p1 = p1  p2 = p2  p3 = p3
    l1 = l1  l2 = l2  l3 = l3
    g1 = g1
    i1 = i1  i2 = i2  i3 = i3
    Pid = {p1, p2, p3}
    Lid = {l1, l2, l3}
    Gid = {g1}
    Ip = {i1, i2, i3}
    Key = {}
    Value = {}
    NULL = NULL
    None = None
    Capacity = {2}
    SESSIONS_PER_IP_CAP = 2
    GLOBAL_SESSIONS_CAP = 3
    GLOBAL_PEERS_CAP = 2
    LOBBY_LISTING_CAP = 2
    LISTED_LOBBIES_PER_GID = 2
    LOBBIES_PER_IP = 2
    MAX_FIELDS = 0
    CHUD_THRESHOLD = 2
    QUEUE_CAP = 1
    SESSION_IDLE_TIMEOUT = 1
    CHUD_LOBBY_TIMEOUT = 0
    Observed = {"Connected"}
    Watched = {p1, p2, p3}
    Slots = {1}
SYMMETRY Symmetry
SPECIFICATION Spec
INVARIANTS Limits ListingComplete
