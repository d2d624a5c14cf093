SPECIFICATION Spec
CONSTANTS
    Listing <- SomeListings
    NoPicture = NoPicture
    MaxUpdates = 2
INVARIANTS
    OwnPictureShown
    QuestionsAreServers
