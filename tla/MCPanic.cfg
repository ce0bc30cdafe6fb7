\* Two connections, every client message, channels that may be full, panics.
CONSTANTS
    p1 = p1  p2 = p2
    l1 = l1
    g1 = g1
    i1 = i1
    s1 = s1  s2 = s2
    k1 = k1  v1 = v1
    Session = {s1, s2}
    Pid = {p1, p2}
    Lid = {l1}
    Gid = {g1}
    Ip = {i1}
    Key = {k1}
    Value = {v1}
    NULL = NULL
    None = None
    Capacity = {2}
    SESSIONS_PER_IP_CAP = 2
    GLOBAL_SESSIONS_CAP = 2
    GLOBAL_PEERS_CAP = 1
    LOBBY_LISTING_CAP = 1
    LISTED_LOBBIES_PER_GID = 1
    LOBBIES_PER_IP = 1
    MAX_FIELDS = 0
    CHUD_THRESHOLD = 2
    QUEUE_CAP = 1
    SESSION_IDLE_TIMEOUT = 0
    CHUD_LOBBY_TIMEOUT = 0
    Observed = {"Disconnected"}
    Watched = {p1, p2}
    Slots = {0, 1}
    Says = {"Host", "Join", "List", "Ping", "Leave", "SetListed", "SetCapacity", "SetMaster", "KickPlayer", "Relay", "SetPlayerMeta", "ErasePlayerMeta", "SetLobbyMeta", "EraseLobbyMeta"}
    MaxOps = 2
    Panics = TRUE
SPECIFICATION ServerSpec
INVARIANTS ServerTypeOK NeverOvercounted NoGhostPlayers
SYMMETRY Symmetry
