\* Two connections of two addresses that may have one each, fair scheduling, no message lost.
CONSTANTS
    p1 = p1  p2 = p2
    l1 = l1
    g1 = g1
    i1 = i1  i2 = i2
    s1 = s1  s2 = s2
    Session = {s1, s2}
    Pid = {p1, p2}
    Lid = {l1}
    Gid = {g1}
    Ip = {i1, i2}
    Key = {}
    Value = {}
    NULL = NULL
    None = None
    Capacity = {2}
    SESSIONS_PER_IP_CAP = 1
    GLOBAL_SESSIONS_CAP = 2
    GLOBAL_PEERS_CAP = 2
    LOBBY_LISTING_CAP = 1
    LISTED_LOBBIES_PER_GID = 1
    LOBBIES_PER_IP = 1
    MAX_FIELDS = 0
    CHUD_THRESHOLD = 2
    QUEUE_CAP = 1
    SESSION_IDLE_TIMEOUT = 0
    CHUD_LOBBY_TIMEOUT = 0
    Observed = {"Disconnected"}
    Watched = {p1, p2}
    Slots = {1}
    Says = {"Host", "Join", "List", "Ping", "Leave", "KickPlayer"}
    MaxOps = 1
    Panics = FALSE
SPECIFICATION FairServerSpec
INVARIANTS SessionAccounting
PROPERTIES EndedSessionsLeave DisconnectedPlayersLeave SessionsFollowTheirPlayer
