CONSTANTS
    Databases = {main, other}
    Main = main
    Names = {n}
    Spellings = {s1, s2}
    Fold <- MCFold
    Passwords = {p1, p2}
    NoPassword = NoPassword
    NoAccount = NoAccount
    NoOne = NoOne
SYMMETRY MCSymmetry
SPECIFICATION Spec
INVARIANTS
    LoginsOwned
    TokensOfAdmins
PROPERTIES
    MembershipEnds
CHECK_DEADLOCK FALSE
