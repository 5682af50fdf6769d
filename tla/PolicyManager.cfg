CONSTANTS
    o1 = o1  o2 = o2  d = d  a = a  b = b  e = e  c1 = c1  c2 = c2
    Ops <- MCOps
    Daemon = d
    Names <- MCNames
    Confs <- MCConfs
    SetsOf <- MCSetsOf
    PodScoped = {"stamp"}
    Elems = {e}
    Pods = {c1, c2}
    NoPod = NoPod
    NoDoc = NoDoc
    Free = Free
    Requests <- MCRequests
    Ticks <- MCTicks
    Provisioned <- MCProvisioned
    MaxCommands = 2
    MaxFaults = 1
SPECIFICATION Spec
 
 
PROPERTY SiblingsKept
 
 
