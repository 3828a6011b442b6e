SPECIFICATION Spec
CONSTANTS
    Inbound <- MCInbound
    Cost <- MCCost
    HeaderCost = 1
    Items <- MCItems
    Similarity <- MCSimilarity
    Lambda = 7
    MaxRetrievedItems = 2
    RetrievedBudget = 5
    Reserved = 1
    Budgets = {3, 6, 9}
    ToolCosts = {0, 1}
    MaxMessages = 5
    MaxItems = 2
INVARIANTS
    TypeOK
    BudgetKept
    RequestLast
    NewestWholeTurns
    PlannersAgree
