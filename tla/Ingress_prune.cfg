\* A route is inserted between the read and the PATCH of _prune_stray_routes.
SPECIFICATION Spec
CONSTANTS
    Hosts = {h1}
    Listable = {h1}
    Upstreams = {u1}
    None = None
    Incomplete = {}
    Callers = {c1}
    UniqueIds = TRUE
PROPERTY PruneKeepsManaged
