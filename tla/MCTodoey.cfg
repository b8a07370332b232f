SPECIFICATION Spec
CONSTANTS
    Nil = Nil
    milk = milk
    bread = bread
    m = m
    r = r
    CategoryDate <- MCCategoryDate
    ItemDate <- MCItemDate
    Title <- MCTitle
    Term <- MCTerm
    Match <- MCMatch
    WriteMayFail = TRUE
INVARIANTS
    StoreSound
    ScreensSound
PROPERTIES
    StaleMarkOnlyAfterFailedToggle
    DeletesOnlyTheNamed
    CrashOnlyAfterFailedDelete
    ImplementsTodoList
