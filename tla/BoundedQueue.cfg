CONSTANTS
    p1 = p1  p2 = p2  p3 = p3  t1 = t1  c1 = c1  c2 = c2 c3 = c3  a1 = a1  Absent = Absent
    Producers = {p1, p2, p3, t1}
    Consumers = {c1, c2, c3}
    Aborters = {a1}
    Tryers = {p3, c3}
    Throwing = {t1}
    Populations = {{p1, p2, c1}, {p1, c1, c2}, {p1, p3, c1, c3}, {p1, t1, c1, a1}}
    Capacity = 1
    NQueue = 2
    PerPage = 2
    MaxTickets = 3
SPECIFICATION FairSpec
INVARIANTS IInv SourceAssertions CapacityKept SizeExact
PROPERTIES RefinesExchange CalmCallsReturn
CHECK_DEADLOCK FALSE
