\* Two todos and two requests in flight, every statement may fail.
CONSTANTS
    Ids = {t1, t2}
    Requests = {q1, q2}
    Nothing = Nothing
    StoreFails = TRUE
SPECIFICATION TodosSpec
SYMMETRY Interchangeable
INVARIANTS
    TodosTypeOK
    UpdatedNotBeforeCreated
    AuditedOnce
    AnswersTrue
    PageShowsOwnWrite
PROPERTY DeletedForGood
