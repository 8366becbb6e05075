CONSTANTS
    Emails = {boss, vice, guest}
    AdminEmails = {boss, vice}
    FirstAdmin = boss
    Released = released
    NormalLimit = 1
    MaxAccounts = 3
    MaxPortfolios = 2
    Ops = {o1, o2}
    MaxActs = 4
SYMMETRY Symmetry
SPECIFICATION Spec
INVARIANTS TypeOK LimitsKept
PROPERTIES LastAdminKept RemovedIsIdle
CHECK_DEADLOCK FALSE
