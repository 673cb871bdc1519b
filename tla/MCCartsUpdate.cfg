SPECIFICATION Spec
CONSTANTS
    None = None
    Keep = Keep
    Customers = {"u1"}
    Items = {"i1", "i2"}
    Merchants = {"m1"}
    ItemMerchant <- MCItemMerchant
    Variants = {"v1"}
    VariantItem <- MCVariantItem
    Price <- MCPrice
    Additional <- MCAdditional
    Fees = 5
    Baskets <- MCBaskets
    Edits <- MCEdits
    Amounts = {9}
    Callers = {"s1", "s2"}
    MaxCalls = 4
    MaxCarts = 2
    MaxRows = 2
    MaxCrashes = 1
INVARIANT UpdateKeepsFullPrice
CHECK_DEADLOCK FALSE
