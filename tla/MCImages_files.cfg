SPECIFICATION ImagesSpec
CONSTANTS
    w1 = w1
    ann = ann
    Legacy = Legacy
    None = None
    Wishes = {w1}
    Users = {ann}
    Requests = {r1, r2, r3}
    MaxInFlight = 2
    Handlers <- AllHandlers
    SeedRow <- MCSeedRow
    SeedPictured = {ann}
INVARIANTS ImagesTypeOK LastUploadIsShown
PROPERTIES DeletedPicturesVanish
CHECK_DEADLOCK FALSE
