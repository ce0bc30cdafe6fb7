\* Four players in two lobbies of two games, one address.
CONSTANTS
    p1 = p1  p2 = p2  p3 = p3  p4 = p4
    l1 = l1  l2 = l2
    g1 = g1  g2 = g2
    i1 = i1
    Pid = {p1, p2, p3, p4}
    Lid = {l1, l2}
    Gid = {g1, g2}
    Ip = {i1}
    Key = {}
    Value = {}
    NULL = NULL
    None = None
    Capacity = {2, 3}
    SESSIONS_PER_IP_CAP = 1
    GLOBAL_SESSIONS_CAP = 1
    GLOBAL_PEERS_CAP = 1
    LOBBY_LISTING_CAP = 1
    LISTED_LOBBIES_PER_GID = 1
    LOBBIES_PER_IP = 2
    MAX_FIELDS = 0
    CHUD_THRESHOLD = 2
    QUEUE_CAP = 1
    SESSION_IDLE_TIMEOUT = 1
    CHUD_LOBBY_TIMEOUT = 1
    Observed = {}
    Watched = {p1, p2, p3, p4}
    Slots = {1}
SYMMETRY Symmetry
SPECIFICATION Spec
INVARIANTS TypeOK Membership GameIndex MasterIsMember IdleClock
PROPERTIES ImplementsLobbyService
