CONSTANTS
    NPartitions = 2
    NRequests = 3
    Capacity = 1
SPECIFICATION Spec
INVARIANTS QueuesSound NoEarlyEnd
PROPERTIES ReplicaEnds ImplementsChannels
