SPECIFICATION Spec
CONSTANTS
    md = md  txt = txt  sh = sh  notes = notes  script = script  None = None
    r1 = r1  r2 = r2
    Files = {md, txt, sh}  Backups = {notes, script}
    BackupOf <- MCBackupOf  Suffix <- MCSuffix  Looks <- MCLooks
    Sensitive = {}  Raw = {md}
    Runs = {r1, r2}
    Errors = {"urls"}  Warnings = {"paths"}
    MAX_RETRIES = 2  Quiet = TRUE  MaxEdits = 2
INVARIANT OriginalKept
PROPERTY SuccessIsChecked
PROPERTY FailureIsUndone
PROPERTY BackupIsRespected
