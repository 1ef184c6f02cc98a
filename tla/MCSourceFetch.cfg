\* An AUTO fetch and a browser fetch of one host with one browser profile, two
\* attempts each; redirects may lead to a second host.
CONSTANTS
    c1 = c1
    c2 = c2
    p1 = p1
    h1 = h1
    NoProfile = NoProfile
    Calls = {c1, c2}
    Kind <- MCKind
    Attempts <- MCAttempts
    Profile <- MCProfile
    Hosts = {h1, h2}
    HostOf <- MCHostOf
    HttpSlots = 1
    BrowserSlots = 1
    Interval = 1
    Delays <- MCDelays
    MaxRedirects = 1
SPECIFICATION FairSpec
INVARIANTS EgressIsBounded NoSessionIsLost
PROPERTIES EveryFetchEnds
