----------------------------- MODULE MCTaskQueue -----------------------------
EXTENDS TaskQueue
CONSTANT t1

\* One post task; a video task without a checkpoint behaves like a plain one.
MCKind == [t \in Tasks |-> IF t = t1 THEN "post" ELSE "video"]
MCArchive == [t \in Tasks |-> "persona"]
=============================================================================
