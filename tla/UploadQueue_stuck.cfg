SPECIFICATION Spec
CONSTANTS
    Services = {}
    Isolates = {i1}
    i1 = i1
    Foreground = notifier
    Owner = owner
    MaxRetries = 2
    MaxKeys = 5
    MaxFaults = 3
INVARIANT ExhaustedIsListed
