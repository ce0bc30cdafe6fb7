\* The library's three attempts; relays in time, and relays that come too late.
CONSTANTS
    sdp_timeout = 3
    Delays = {1, 2}
    MAX_RENEGOTIATION_ATTEMPTS = 3
    MaxFailures = 6
SPECIFICATION FairPeeringSpec
INVARIANTS LeavingHasReasons
PROPERTIES PairSettles
