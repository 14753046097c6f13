CONSTANTS
    Threads = {t1, t2}
    Emails = {e1, e2}
    Passwords = {p1, p2}
    Tokens = {n1}
    Keys = {k1}
    Requests <- Requested
SYMMETRY Symmetry
SPECIFICATION Spec
INVARIANTS TypeOK MailsAreTrue AuditMatchesAccount
PROPERTIES OnlyWhatWasAsked OthersAreLoggedOut
