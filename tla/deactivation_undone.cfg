SPECIFICATION Spec
CONSTANTS
    Emails = {e1}
    Passwords = {p1, p2}
    Roles = {"user"}
    Raws = {v1}
    Purposes = {"password_reset"}
    Requests = {r1, r2}
    MaxAttempts = 2
    MaxUsers = 1
    MaxWrong = 0
    MaxResends = 0
    NoEmail = NoEmail
    NoPassword = NoPassword
    NoUser = NoUser
    NoCopy = NoCopy
    NoRecord = NoRecord
    NoRaw = NoRaw
SYMMETRY Symmetry
PROPERTIES
    DeactivationSticks
