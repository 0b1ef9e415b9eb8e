SPECIFICATION Spec
CONSTANTS
    Urls = {u1, u2}
    Statuses = {200, 301, 302, 303, 307, 404}
    NoLocation = NoLocation
    NoBody = NoBody
    MaxRedirectHops = 3
INVARIANT ChainKeepsTheRequest
INVARIANT TemplatesMeanTheirBlocks
INVARIANT FiltersKeepTheirWord
INVARIANT CategoriesAgree
INVARIANT SelectorsKeepTheirMeaning
INVARIANT RowsStandAlone
INVARIANT ValidatedExtracts
INVARIANT RequestsCarryTheSearch
INVARIANT LoginsSayWhatTheyKnow
INVARIANT FeedsReadBack
INVARIANT RowsSayWhatWasSaid
INVARIANT InstanceDoesAsTold
CHECK_DEADLOCK FALSE
