SPECIFICATION Spec
CONSTANTS
    l = l
    c1 = c1
    s1 = s1
    u1 = u1
    u2 = u2
    None = None
    Tcp = {l, c1, s1}
    Udp = {u1, u2}
    Accepted = {s1}
    Servers = {l, u1}
    Clients = {c1, u2}
    Scenes <- MCScenes
    Descriptors = {3, 4, 5}
    Backlog = 1
    Rounds = 1
INVARIANTS
    DescriptorsAreOwned
    ConnectedHasSocket
    RefusedOnlyWhenClosed
PROPERTIES
    CloseReleasesThread
