SPECIFICATION MCSpec
CONSTANTS
    MaxTrips = 2
    MaxStops = 2
    Places = {p1}
    MaxDrafts = 2
    MaxSaves = 2
    MaxFaults = 1
    NoTrip = NoTrip
    NoPlace = NoPlace
    NotYet = NotYet
    Ended = Ended
    FavTabs = {t1, t2}
    MaxAsks = 4
    MaxLost = 1
    Ratings = {1, 5}
    MaxReviews = 2
    MaxRevReqs = 3
    MaxCrashes = 1
    NoRow = NoRow
    MaxPhotos = 3
    NoCell = NoCell
    Users = {u1, u2}
    Names = {n1, n2}
    NoUser = NoUser
    MaxReqs = 2
    Words = {w1, w2}
    Brief = Brief
    Categories = {g1, g2}
    NoSearch = NoSearch
    MaxKeys = 4
    Filters = {f1, f2}
    PageSize = 2
    MaxTotal = 4
    MaxPage = 3
    NoAnswer = NoAnswer
    Hotels <- MCHotels
    Types = {"hotel", "gite"}
    Regions = {"r1", "r2"}
    Amenities = {"wifi"}
    MaxStars = 1
    Prices = {0, 1}
    PriceRanges <- MCRanges
    Catalogues <- MCCatalogues
    ListSize = 2
    Any = Any
    NotAsked = NotAsked
    MaxReads = 2
    MaxSteps = 2
    MaxTrouble = 1
    NightPrices = {1, 2}
    Days = {0, 1, 3}
    Today = 1
    NotRead = NotRead
    NoDialog = NoDialog
    NotStored = NotStored
    MaxDialogs = 2
    MaxStays = 2
    MaxUpsets = 1
INVARIANTS
    VisitorTypeOK
    SavedAsDrafted
    OneTripPerForm
    HeartTellsTruth
    RatingIsAverage
    PhotosAsChosen
    SavesStoreWhatIsTyped
    SessionTellsTruth
    ResultsAnswerInput
    PageExists
    OffersMeetFilters
    ReservedAsShown
PROPERTIES
    DeletesOnlyRemoved
    RemovedForGood
    UntouchedSaveKeepsRow
    ControlsChangeTheirRows
    OtherFieldsKept
    PhotoKeepsProfile
CHECK_DEADLOCK FALSE
