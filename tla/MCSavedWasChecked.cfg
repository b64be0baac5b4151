SPECIFICATION WizardSpec
CONSTANTS
    Accounts = {"aws", "do"}
    Secrets = {s1, s2}
    FromEnv = {}
    MaxJobs = 3
INVARIANT SavedWasChecked
CHECK_DEADLOCK FALSE
