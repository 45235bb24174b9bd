SPECIFICATION LineSpec
CONSTANTS
    Words <- AllWords
    Numbers = {20, 100}
    Spoken <- AllSpoken
    MaxItems = 4
    CatalogueJobs = {"kelly", "smith", "block"}
    JobAliases <- Aliases
    JobCode <- Codes
    JobName <- JobNames
    ActiveSuppliers = {"bunnings", "mitre"}
    SupplierNames <- Merchants
    Categories = {"hardware", "painting", "archived"}
    ActiveCategories = {"hardware", "painting"}
    CATEGORY_KEYWORDS <- Keywords
    _CASH_KEYWORDS = {"cash"}
    _TRANSFER_KEYWORDS = {"eft"}
    None = None
INVARIANTS
    NumeralsAreRead
CHECK_DEADLOCK FALSE
