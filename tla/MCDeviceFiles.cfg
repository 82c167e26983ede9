SPECIFICATION FilesSpec
CONSTANTS
    Streams = {s1, s2}
    Users = {u1, u2}
    Fds = {0, 1, 2, 3}
INVARIANT OneOwner
PROPERTY OthersKeepTheirs
