\* A client and the master of its lobby, channels with room, no fields.
CONSTANTS
    p1 = p1  p2 = p2
    l1 = l1
    g1 = g1
    i1 = i1
    v1 = v1
    Me = p1
    Pid = {p1, p2}
    Lid = {l1}
    Gid = {g1}
    Ip = {i1}
    Key = {}
    Value = {v1}
    NULL = NULL
    None = None
    Capacity = {2, 3}
    SESSIONS_PER_IP_CAP = 3
    GLOBAL_SESSIONS_CAP = 3
    GLOBAL_PEERS_CAP = 1
    LOBBY_LISTING_CAP = 1
    LISTED_LOBBIES_PER_GID = 1
    LOBBIES_PER_IP = 1
    MAX_FIELDS = 0
    CHUD_THRESHOLD = 2
    QUEUE_CAP = 20
    SESSION_IDLE_TIMEOUT = 0
    CHUD_LOBBY_TIMEOUT = 0
    Observed = {"SetListed", "SetCapacity", "SetLobbyMeta", "EraseLobbyMeta", "Connected", "Joined", "Left", "SetMaster", "SetPlayerMeta", "ErasePlayerMeta", "Disconnected"}
    Watched = {p1}
    Slots = {20}
    MaxRequests = 1
    MaxBacklog = 1
SPECIFICATION ViewSpec
INVARIANTS MembersSeeCapacity
