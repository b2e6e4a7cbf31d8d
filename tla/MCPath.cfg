\* One visitor per hop, whose answer has three chunks, so that a text of two units is
\* too short, fits or is too long for what lacks; two uploads of three chunks.
CONSTANTS
    Visitor = {v1}
    Chunks = 3
    NoticeLength = 2
    MaxDeaths = 1
    Writer = {w1, w2}
    MaxChunks = 3
    Tunnel = {"t1", "t2"}
    Template <- MCTemplate
    TargetPath <- MCTargetPath
    MaxRedirects = 2
SPECIFICATION PathSpec
CHECK_DEADLOCK FALSE
INVARIANTS
    AnswerIntact
    RouterOutlivesRelay
    UploadBounded
    RedirectsReturn
PROPERTIES
    VisitorServed
    UpgradeEndsBoth
    UploadFlows
