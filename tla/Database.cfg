CONSTANTS
    Process = {p1, p2}
    Files = 3
    Rerunnable = {2}
    OldVersion = 2
    u1 = u1
    u2 = u2
    n1 = n1
    n2 = n2
    c1 = c1
    k1 = k1
    m1 = m1
    User = {u1, u2}
    Name = {n1, n2}
    Chat = {c1}
    Content = {k1}
    Message = {m1}
    NoRow = NoRow
    Null = Null
    NoTx = NoTx
    Old <- MCOld
SPECIFICATION Spec
INVARIANTS TypeOK SchemaRecorded ServesFullSchema References LookupsAgree StatsNotAhead
PROPERTIES StatsFollow RenamesRecorded
SYMMETRY Symmetry
