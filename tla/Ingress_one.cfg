\* One hostname, two upstreams, one API thread: every race on one route, and
\* what is left once it is quiet.
SPECIFICATION FairSpec
CONSTANTS
    Hosts = {h1}
    Listable = {h1}
    Upstreams = {u1, u2}
    None = None
    Incomplete = {blank}
    Callers = {c1}
    UniqueIds = TRUE
INVARIANT TypeOK
INVARIANT CollectConfirmed
PROPERTY Converges
