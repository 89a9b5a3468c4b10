CHECK_DEADLOCK FALSE
SPECIFICATION Spec
CONSTANTS
    Shell = shell
    Workers = {w}
    Scripts <- ShellScripts
    WorkerScripts <- DDLScripts
    MaxTxns = 5
    None = None
    mock_table_list <- MockTables
    insert_meta <- TestTables
    batch_size = 2
    Draw <- MCDraw
INVARIANTS
    CatalogSound
    CallEndsTransaction

    
