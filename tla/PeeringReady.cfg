\* One negotiation on a network that fails once at most.
CONSTANTS
    sdp_timeout = 3
    Delays = {1}
    MAX_RENEGOTIATION_ATTEMPTS = 3
    MaxFailures = 1
SPECIFICATION PeeringSpec
INVARIANTS ReadyMeansConnected
