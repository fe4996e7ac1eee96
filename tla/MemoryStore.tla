----------------------------- MODULE MemoryStore -----------------------------
(***************************************************************************)
(* The owner's local memory (core/memory/store.py) with the tools that     *)
(* reach it (memory/tools.py, policy.py, retrieval.py) and the checks the  *)
(* runtime hands them.  Every job is a worker thread of asyncio.to_thread: *)
(* it holds the store's lock for one SQLite transaction, and asks at the   *)
(* beginning and again before the commit whether whoever wanted it is      *)
(* still there.  Its action or turn may be retired at any step.            *)
(***************************************************************************)
EXTENDS Naturals, FiniteSets

CONSTANTS
    Jobs,           \* the calls of one behaviour
    Contents,       \* what a memory may say
    MaxProposed,    \* MAX_PROPOSED
    MaxRecords      \* bound: records ever created

VARIABLES
    memories,       \* the table, by id: records and Absent
    created,        \* how many ids were drawn (uuid4: none is drawn twice)
    holder,         \* the job inside _transaction_lock, or "none"
    jobs,           \* what each job does and how far it is
    wanted          \* jobs whose action, turn and authority are current

memoryVars == <<memories, created, holder, jobs, wanted>>

Ids == 1 .. MaxRecords
Absent == [review |-> "absent"]
Stored == {i \in Ids : memories[i] # Absent}
Proposed == {i \in Stored : memories[i].review = "proposed"}
NoJob == [at |-> "idle", op |-> "none", id |-> 0, revision |-> 0, shown |-> "none",
          content |-> "none", recalled |-> {}]

MemoryInit ==
    /\ memories = [i \in Ids |-> Absent] /\ created = 0
    /\ holder = "none" /\ jobs = [j \in Jobs |-> NoJob] /\ wanted = Jobs

Goto(j, at) == jobs' = [jobs EXCEPT ![j].at = at]

-----------------------------------------------------------------------------
(* Calls *)

\* memory.create by the owner, or memory.propose by the model.
StartWrite(j, op, content) ==
    /\ jobs[j].at = "idle" /\ op \in {"create", "propose"}
    /\ jobs' = [jobs EXCEPT ![j] = [NoJob EXCEPT !.at = "queued", !.op = op,
                                                 !.content = content]]
    /\ UNCHANGED <<memories, created, holder, wanted>>

\* memory.correct, memory.approve and memory.delete name the record and the
\* revision the owner was shown by memory.list or memory.get.
StartReview(j, op, i, content) ==
    /\ jobs[j].at = "idle" /\ op \in {"correct", "approve", "delete"} /\ i \in Stored
    /\ jobs' = [jobs EXCEPT ![j] =
           [NoJob EXCEPT !.at = "queued", !.op = op, !.id = i, !.content = content,
                         !.revision = memories[i].revision, !.shown = memories[i].content]]
    /\ UNCHANGED <<memories, created, holder, wanted>>

\* _memory_context, before a turn asks a local model.
StartRecall(j) ==
    /\ jobs[j].at = "idle"
    /\ jobs' = [jobs EXCEPT ![j] = [NoJob EXCEPT !.at = "queued", !.op = "recall"]]
    /\ UNCHANGED <<memories, created, holder, wanted>>

\* The token is cancelled, the owner disconnects, the authority is revoked or
\* another generation takes over; the worker thread goes on.
Retire(j) ==
    /\ jobs[j].at \notin {"idle", "done"} /\ j \in wanted
    /\ wanted' = wanted \ {j}
    /\ UNCHANGED <<memories, created, holder, jobs>>

-----------------------------------------------------------------------------
(* Inside the transaction *)

\* _db, _connection and the first call of the guard.
Begin(j) ==
    /\ jobs[j].at = "queued" /\ holder = "none"
    /\ IF j \in wanted
       THEN holder' = j /\ Goto(j, "open")
       ELSE Goto(j, "done") /\ UNCHANGED holder
    /\ UNCHANGED <<memories, created, wanted>>

Sources(op) == IF op = "create" THEN "owner" ELSE "model"

\* What is inserted: only what the owner wrote is reviewed at once.
Written(c) == [content |-> c.content, source |-> Sources(c.op), revision |-> 1,
               review |-> IF c.op = "create" THEN "reviewed" ELSE "proposed",
               endorsed |-> IF c.op = "create" THEN c.content ELSE "none"]

\* A repeated claim is the record it repeats.
Repeats(c) == \E i \in Stored : /\ memories[i].content = c.content
                                /\ memories[i].source = Sources(c.op)

InboxFull_OneMore(c) == c.op = "propose" /\ Cardinality(Proposed) > MaxProposed
InboxFull(c) == c.op = "propose" /\ Cardinality(Proposed) >= MaxProposed

\* WHERE id=? AND owner_id=? AND revision=?
IsCurrent_AnyRevision(c) == c.id \in Stored
IsCurrent(c) == c.id \in Stored /\ memories[c.id].revision = c.revision

Reviewed(c) == [memories[c.id] EXCEPT
                   !.review = "reviewed", !.revision = @ + 1,
                   !.content = IF c.op = "correct" THEN c.content ELSE @,
                   !.endorsed = IF c.op = "correct" THEN c.content ELSE c.shown]

\* The table a job leaves if it commits, or the error it raises.
Refused(c) ==
    \/ c.op \in {"create", "propose"} /\ ~Repeats(c) /\ InboxFull(c)
    \/ c.op \in {"correct", "approve", "delete"} /\ ~IsCurrent(c)

After(c) ==
    CASE c.op \in {"create", "propose"} /\ ~Repeats(c) ->
             [memories EXCEPT ![created + 1] = Written(c)]
      [] c.op \in {"correct", "approve"} -> [memories EXCEPT ![c.id] = Reviewed(c)]
      [] c.op = "delete" -> [memories EXCEPT ![c.id] = Absent]
      [] OTHER -> memories

\* ranked_reviewed and the budget of LexicalMemoryRetriever: some of what is
\* reviewed, as the owner endorsed it.
Recalled == {i \in Stored : memories[i].review = "reviewed"}

Finish(j, at) == holder' = "none" /\ Goto(j, at)

Refuse(j) ==
    /\ jobs[j].at = "open" /\ Refused(jobs[j])
    /\ Finish(j, "done")
    /\ UNCHANGED <<memories, created, wanted>>

\* The guard before the commit.
Check(j) ==
    /\ jobs[j].at = "open" /\ ~Refused(jobs[j])
    /\ IF j \in wanted
       THEN Goto(j, "commit") /\ UNCHANGED holder
       ELSE Finish(j, "done")
    /\ UNCHANGED <<memories, created, wanted>>

CommitJob(j) ==
    /\ jobs[j].at = "commit" /\ holder' = "none"
    /\ LET c == jobs[j] IN
       /\ c.op \in {"create", "propose"} /\ ~Repeats(c) => created < MaxRecords
       /\ memories' = After(c)
       /\ created' = created + (IF c.op \in {"create", "propose"} /\ ~Repeats(c)
                                THEN 1 ELSE 0)
       /\ IF c.op = "recall"
          THEN \E some \in SUBSET Recalled :
                   jobs' = [jobs EXCEPT ![j].at = "recalled",
                                        ![j].recalled = {memories[i] : i \in some}]
          ELSE Goto(j, "done")
    /\ UNCHANGED wanted

\* sqlite3.Error: rolled back, and reported without its details.
StoreFails(j) ==
    /\ jobs[j].at \in {"open", "commit"}
    /\ Finish(j, "done")
    /\ UNCHANGED <<memories, created, wanted>>

\* _memory_context asks once more in the event loop before the model is told.
Tell(j) ==
    /\ jobs[j].at = "recalled"
    /\ jobs' = [jobs EXCEPT ![j].at = IF j \in wanted THEN "told" ELSE "done",
                            ![j].recalled = IF j \in wanted THEN @ ELSE {}]
    /\ UNCHANGED <<memories, created, holder, wanted>>

-----------------------------------------------------------------------------
JobStep(j) == Begin(j) \/ Refuse(j) \/ Check(j) \/ CommitJob(j) \/ StoreFails(j) \/ Tell(j)

MemoryNext ==
    \E j \in Jobs :
        \/ \E op \in {"create", "propose"}, c \in Contents : StartWrite(j, op, c)
        \/ \E op \in {"correct", "approve", "delete"}, i \in Stored, c \in Contents :
               /\ op # "correct" => c = CHOOSE x \in Contents : TRUE
               /\ StartReview(j, op, i, c)
        \/ StartRecall(j)
        \/ Retire(j)
        \/ JobStep(j)

MemorySpec == MemoryInit /\ [][MemoryNext]_memoryVars

-----------------------------------------------------------------------------
\* What counts as reviewed, and what the model is told from memory, says what
\* the owner wrote or approved: a record that was corrected or replaced between
\* the owner's look and the owner's word is not approved by it
\* (MemoryStore.approve, correct and ranked_reviewed).
Endorsed(r) == r.review = "reviewed" => r.content = r.endorsed

OnlyEndorsedIsTrusted ==
    /\ \A i \in Stored : Endorsed(memories[i])
    /\ \A j \in Jobs : \A r \in jobs[j].recalled : Endorsed(r) /\ r.review = "reviewed"

\* The inbox of unreviewed claims keeps its limit whatever runs at once
\* (the count and the INSERT of MemoryStore.create).
InboxIsBounded == Cardinality(Proposed) <= MaxProposed

MemoryIsSound == OnlyEndorsedIsTrusted /\ InboxIsBounded

-----------------------------------------------------------------------------
(* The inductive invariant of the store.                                    *)

Texts == Contents \cup {"none"}
Records == [content : Texts, source : {"owner", "model"}, revision : Nat,
            review : {"reviewed", "proposed"}, endorsed : Texts]
Reviews == {"correct", "approve", "delete"}
JobTypes == [at : {"idle", "queued", "open", "commit", "recalled", "told", "done"},
          op : {"none", "create", "propose", "recall"} \cup Reviews,
          id : Nat, revision : Nat, shown : Texts, content : Texts,
          recalled : SUBSET Records]

MemoryTypeInv ==
    /\ memories \in [Ids -> Records \cup {Absent}]
    /\ created \in 0 .. MaxRecords
    /\ holder \in Jobs \cup {"none"}
    /\ jobs \in [Jobs -> JobTypes]
    /\ wanted \subseteq Jobs

\* One transaction at a time, and what it is about to commit was not refused.
OneTransaction ==
    \A j \in Jobs :
        /\ jobs[j].at \in {"open", "commit"} => holder = j
        /\ jobs[j].at = "commit" => ~Refused(jobs[j])

\* An id is drawn once.
IdsAreFresh == \A i \in Ids : i > created => memories[i] = Absent

\* A record only gains revisions; as long as it has the revision the owner was
\* shown it says what the owner was shown.
RevisionTells(c) ==
    /\ c.id \in 1 .. created
    /\ c.id \in Stored =>
          /\ memories[c.id].revision >= c.revision
          /\ memories[c.id].revision = c.revision => memories[c.id].content = c.shown

MemoryInv ==
    /\ MemoryTypeInv /\ OneTransaction /\ IdsAreFresh
    /\ \A j \in Jobs : jobs[j].op \in Reviews => RevisionTells(jobs[j])
    /\ OnlyEndorsedIsTrusted /\ InboxIsBounded
=============================================================================
