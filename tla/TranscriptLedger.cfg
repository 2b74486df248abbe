SPECIFICATION Spec
CONSTANTS
    File = {parent, fork}
    NoFile = NoFile
    Ingester = {serve, cli}
    Serve = serve
    Slack = 0
    MaxEvents = 4
CONSTRAINT FirstIsFirst
INVARIANTS TypeOK LedgerIsWhatWasRead FirstSessionKeeps RereadChangesNothing
PROPERTIES EverythingIsRead
CHECK_DEADLOCK FALSE
