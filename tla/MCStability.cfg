SPECIFICATION Spec
CONSTANTS
    Precision = 5
    One = 4096
    Workloads = {w1, w2, w3}
    Desired = 10
    Capacities = {"1"}
PROPERTY OutputIsStable
