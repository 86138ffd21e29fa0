CONSTANTS
    Names = {"result", "error", "code"}
    Numbers = {"7", "71"}
    Replies <- MCReplies
    Statuses = {200, 401, 404, 500, 503}
    Endpoints = 2
    MAX_SIZE = 16
    Rest <- MCRest
SPECIFICATION FairSpec
INVARIANT TypeOK
INVARIANT WholeReplyTaken
PROPERTY ImplementsRpc
PROPERTY CallEnds
\* One call is made, and it may wait for ever.
CHECK_DEADLOCK FALSE
