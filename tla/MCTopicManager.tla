--------------------------- MODULE MCTopicManager ---------------------------
EXTENDS TopicManager

CONSTANTS r1, worker, e1, e2, e3, e4

MCRequests == {r1}
MCEntries == {e1, e2, e3, e4}
=============================================================================
