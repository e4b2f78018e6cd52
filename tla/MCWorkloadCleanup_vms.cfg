\* VMs of the cluster are still shutting down.
CONSTANTS
    Services = {s1}
    Volumes = {v1}
    MaxFaults = 0
SPECIFICATION Spec
PROPERTIES WaitsForVMs
