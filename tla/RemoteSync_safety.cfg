\* Two clients, one with a whole line of archives, one with the last of another line.
CONSTANTS
    c1 = c1
    c2 = c2
    v1 = v1
    v2 = v2
    v3 = v3
    w2 = w2
    w3 = w3
    n1 = n1
    n2 = n2
    n3 = n3
    Clients = {c1, c2}
    Archives = {v1, v2, v3, w2, w3}
    NameOf <- MCNameOf
    Bases <- MCBases
    Age <- MCAge
    Owned <- MixedOwned
    MaxCommands = 2
SPECIFICATION Spec
INVARIANTS
    TypeOK
    PushSound
    PullCloses
