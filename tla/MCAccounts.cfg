SPECIFICATION MCSpec
CONSTANTS
    Procs = {p1, p2}
    Users = {root, n1, n2}
    Emails = {e0, e1, e2}
    Root = root
    RootEmail = e0
    Passwords = {w1, w2}
    UserTokens = {u1, u2}
    WidgetTokens = {a1, a2}
    Nothing = Nothing
    Sec = 2
    Life = 2
SYMMETRY Symmetry
INVARIANTS
    TypeOK
    AnswersAreAudited
    TrailIsTrue
    HandedPasswordWorks
PROPERTIES
    RevokedStaysOut
