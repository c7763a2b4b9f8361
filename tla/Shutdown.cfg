SPECIFICATION ProcessSpec
CONSTANTS
    Events = {1}
    Relays = {relay1}
    Replayers = {replay1}
    Readers = {}
    MaxAttempts = 2
    BatchSize = 1
    MaxFaults = 0
    Api = relay1
    MaxConns = 1
    MaxStops = 1
PROPERTIES
    BatchNotAbandoned
