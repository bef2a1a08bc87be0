\* itinerary_repo.go:51 orders the stops by a column that the model names
\* otherwise: SaveFailsOnlyOnFault does not hold.
SPECIFICATION TripsSpec
CONSTANTS
    MaxTrips = 2
    MaxStops = 2
    Places = {p1}
    MaxDrafts = 2
    MaxSaves = 2
    MaxFaults = 1
    NoTrip = NoTrip
    NoPlace = NoPlace
    NotYet = NotYet
    Ended = Ended
INVARIANT SaveFailsOnlyOnFault
CHECK_DEADLOCK FALSE
