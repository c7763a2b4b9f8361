SPECIFICATION Spec
CONSTANTS
    Events = {1}
    Relays = {relay1}
    Replayers = {replay1}
    Readers = {}
    MaxAttempts = 2
    BatchSize = 1
    MaxFaults = 0
PROPERTIES
    ReplayRevives
