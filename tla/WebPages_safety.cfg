\* A gallery of two photos of two variants and two batches; a library of two
\* photos in pages of one; one subscription; one mishap on a page.
SPECIFICATION PagesSpec
CONSTANTS
    MaxPhotos = 2
    Variants = {"thumbnail", "large"}
    Available <- ThumbnailsOnly
    CoverVariants <- LargeFirst
    URL_BATCH_MAX_SIZE = 2
    MaxBatches = 2
    MaxBatchCalls = 2
    allowDownload = TRUE
    MaxListCalls = 2
    MaxUnlocks = 1
    MaxFaults = 1
    MaxRows = 2
    PageLimit = 1
    Filters = {"all", "FAILED"}
    Arriving = {"PROCESSING"}
    MaxAsks = 2
    MaxConfirms = 1
    MaxLost = 1
    PriceOf <- Prices
    MaxSubs = 1
    MaxIncidents = 1
INVARIANTS PromisesSettle GateMeansNoToken NoGhosts GridAccepted 
CHECK_DEADLOCK FALSE
