SPECIFICATION Spec
CHECK_DEADLOCK FALSE
CONSTANTS
    Bits <- MCBits
    Schemas <- MCSchemas
    InternalTables <- MCInternalTables
    LowerCase <- MCLowerCase
    MockTables <- MCMockTables
    Indexes <- MCIndexes
    Database <- MCDatabase
    BUSTUB_BATCH_SIZE = 2
    RowBound = 5
    Statements <- MCStatements
    TheBinder <- MCBinder
    ThePlanner <- MCPlanner
    TheOptimizer <- MCOptimizer
    TheExecutorFactory <- MCExecutorFactory
    TheExecutor <- MCExecutor
PROPERTIES
    PlanAnswersStatement
    
    
    ExecutionAnswersStatement
    PollProgresses
