\* Started once, stopped once, any three faults; the connection, the loop and
\* the subscribers interleave freely.
SPECIFICATION FairSpec
CONSTANTS
    orders = orders  invoices = invoices  h1 = h1  h2 = h2  k1 = k1  k2 = k2
    NoClient = NoClient
    Channels = {orders, invoices}
    Handlers = {h1, h2}
    Conns = {k1, k2}
    MaxStarts = 1
    MaxQueue = 2
    MaxFaults = 3
    Overlap = FALSE
INVARIANTS HealthyConnected OneConnection SubscriptionsServed
PROPERTIES NoLateConnect Recovers
CHECK_DEADLOCK FALSE
