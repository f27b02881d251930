SPECIFICATION Spec
CONSTANTS
    Emails = {e1}
    Passwords = {p1, p2}
    Roles = {"user"}
    Raws = {v1, v2}
    Purposes = {"email_verify", "password_reset"}
    Requests = {r1, r2}
    MaxAttempts = 2
    MaxUsers = 1
    MaxWrong = 2
    MaxResends = 1
    NoEmail = NoEmail
    NoPassword = NoPassword
    NoUser = NoUser
    NoCopy = NoCopy
    NoRecord = NoRecord
    NoRaw = NoRaw
SYMMETRY Symmetry
CONSTRAINT LoginsOrMails
INVARIANTS
    TypeOK
    FailuresAreCounted
    LockMatchesCounter
    TokenUsedOnce
    VerifiedByMail
    AskingEndsEarlier
    TokenWorksUntilReplaced
    MailsKeepTheirOrder
PROPERTY KeepsPromise
