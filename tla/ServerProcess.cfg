\* Two handlers on SQLite while the settings change from start to start; three attempts,
\* as New sets them, on three addresses, one of them of IPv6; three connections.
SPECIFICATION ProcessSpec
CONSTANTS
    admin = admin  ann = ann
    Name = {admin, ann}
    Request = {r1, r2}
    Title = {"team"}
    Mail = Mail  NoMail = NoMail  NoRequest = NoRequest
    Config <- ChangingSettings
    Serial = TRUE
    MaxUsers = 3
    MaxRestarts = 2
    MaxEdits = 2
    a = a  b = b  six = six
    Address = {a, b, six}
    V4 = {a, b}
    Answers <- SomeAnswers
    NoTarget = NoTarget  NotAnIP = NotAnIP  NoAddress = NoAddress
    Attempts = 3
    Timeout = 2
    BaseDelay = 1
    Conn = {c1, c2, c3}
INVARIANTS LoginFindsOwnAccount AccountsWhole SaysWhatWasShown BackInTime ExitTellsAll
PROPERTIES NothingHangs
CHECK_DEADLOCK FALSE
