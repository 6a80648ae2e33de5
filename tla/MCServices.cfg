CONSTANTS
    Call = {c1, c2}
    Drafts <- MCDrafts
    Start <- MCStart
    Request = {r1, r2}
    MaxAttempts = 2
    MaxCode = 2
    MaxToken = 4
    Allowance <- MCAllowance
    DirectoryAllowance <- MCDirectoryAllowance
    Order = {o1, o2}
    Handler = {h1, h2}
    MaxVerify = 1
    MaxDeath = 1
    Visit = {s1, s2}
    Stars = {2, 5}
    TrustTask = {t1, t2}
    Points = {30, 70}
    Writer = {w1, w2}
    MaxPost = 3
    MaxLoss = 1
    Uploader = {u1, u2}
    GalleryLimit = 1
    MaxBulk = 3
    MaxUpload = 3
    MaxMishap = 1
    Editor = {e1, e2}
    Preference = {p1, p2}
    Appeal = {a1, a2}
    MaxEdit = 3
    MaxBreak = 1
    Sender = {q1, q2}
    Socket = {k1, k2}
    OwnSocket = {k1}
    Text = {m1, m2}
    Word = {n1}
    MaxSend = 3
    MaxRelay = 1
    MaxFault = 1
    Desker = {q1, q2}
    Line = {k1, k2}
    OwnLine = {k1}
    Complaint = complaint
    Reply = {m1, m2}
    Advice = {n1}
    MaxRefusal = 2
SPECIFICATION ServicesSpec
INVARIANT ServicesTypeOK
INVARIANT ListedIsApproved
INVARIANT ClosedHolds
INVARIANT TokensOfClosedAccount
INVARIANT TokenExchangedOnce
INVARIANT GuessesBounded
INVARIANT CaptureNotForgotten
INVARIANT RequestAgreesWithOrder
INVARIANT RatingIsAverage
INVARIANT TrustFollowsTasks
INVARIANT GalleryBounded
INVARIANT EditsKept
INVARIANT ChatFollowsStore
INVARIANT TicketReachesAdmin
CHECK_DEADLOCK FALSE
