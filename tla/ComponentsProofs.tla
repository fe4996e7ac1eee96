--------------------------- MODULE ComponentsProofs ---------------------------
(***************************************************************************)
(* The components that share no state, each proved alone and then all of   *)
(* them as Components puts them together.                                  *)
(*                                                                         *)
(* Memory: that only what the owner wrote or approved is trusted, and that *)
(* the inbox of unreviewed claims keeps its limit, for any number of       *)
(* worker threads, records and places in the inbox, whatever corrections,  *)
(* deletions and approvals of one record are under way together.           *)
(*                                                                         *)
(* The model route: that it only changes hands for the newest request and  *)
(* that neither it nor a response ever names a provider that was closed,   *)
(* for any number of requests, turns and retries, wherever requests and    *)
(* disconnecting clients cancel the task of another request.               *)
(*                                                                         *)
(* Speech recognition, local models, MCP, files, messages and the voice    *)
(* session: an inductive invariant of each, stated in its module, for any  *)
(* number of streams, models, callers, writers, trees, turns and           *)
(* listeners.  At the end, what the runs check of them together:           *)
(* ResourcesAreOwned, AnswersAreTrue and InterruptionIsHeardOut.           *)
(***************************************************************************)
EXTENDS Components, SelectionProofs

-----------------------------------------------------------------------------
(* Memory *)

\* The bounds, and that no job is called "none".
Bounds == MaxProposed \in Nat /\ MaxRecords \in Nat /\ "none" \notin Jobs

\* No record is the mark of an unused id.
LEMMA RecordsExist == \A r \in Records : r # Absent
PROOF
  BY DEF Records, Absent

\* What the inbox holds is finite.
LEMMA InboxIsFinite ==
    ASSUME Bounds
    PROVE  IsFiniteSet(Proposed) /\ Cardinality(Proposed) \in Nat
PROOF
  <1>1. IsFiniteSet(Ids)
    BY FS_Interval DEF Ids, Bounds
  <1>2. Proposed \subseteq Ids
    BY DEF Proposed, Stored
  <1> QED
    BY <1>1, <1>2, FS_Subset, FS_CardinalityType

\* An empty store, and nobody at work.
LEMMA MemoryInitHolds ==
    ASSUME Bounds, MemoryInit
    PROVE  MemoryInv
PROOF
  <1>1. NoJob \in JobTypes
    BY DEF NoJob, JobTypes, Texts
  <1>2. MemoryTypeInv
    BY <1>1, SMT DEF MemoryInit, MemoryTypeInv, Bounds
  <1>3. Stored = {} /\ Proposed = {}
    BY DEF MemoryInit, Stored, Proposed
  <1>4. \A j \in Jobs : jobs[j].at = "idle" /\ jobs[j].op = "none" /\ jobs[j].recalled = {}
    BY DEF MemoryInit, NoJob
  <1>5. OneTransaction /\ (\A j \in Jobs : jobs[j].op \in Reviews => RevisionTells(jobs[j]))
    BY <1>4 DEF OneTransaction, Reviews
  <1>6. IdsAreFresh
    BY DEF IdsAreFresh, MemoryInit
  <1>7. OnlyEndorsedIsTrusted
    BY <1>3, <1>4 DEF OnlyEndorsedIsTrusted
  <1>8. InboxIsBounded
    BY <1>3, FS_EmptySet DEF InboxIsBounded, Bounds
  <1> QED
    BY <1>2, <1>5, <1>6, <1>7, <1>8 DEF MemoryInv

\* A step of one job that leaves the table alone.
LEMMA TableKept ==
    ASSUME MemoryInv, NEW j \in Jobs, NEW w \in JobTypes,
           UNCHANGED <<memories, created>>,
           jobs' = [jobs EXCEPT ![j] = w],
           holder' \in Jobs \cup {"none"}, wanted' \subseteq Jobs,
           \A k \in Jobs \ {j} : jobs[k].at \in {"open", "commit"} => holder' = k,
           w.at \in {"open", "commit"} => holder' = j,
           w.at = "commit" => ~Refused(w),
           w.op \in Reviews => RevisionTells(w),
           \A r \in w.recalled : Endorsed(r) /\ r.review = "reviewed"
    PROVE  MemoryInv'
PROOF
  <1>1. jobs \in [Jobs -> JobTypes]
    BY DEF MemoryInv, MemoryTypeInv
  <1>2. jobs'[j] = w /\ \A k \in Jobs \ {j} : jobs'[k] = jobs[k]
    BY <1>1
  <1>3. MemoryTypeInv'
    BY <1>1 DEF MemoryInv, MemoryTypeInv, Ids
  <1>4. Stored' = Stored /\ Proposed' = Proposed
    BY DEF Stored, Proposed
  <1>5. \A k \in Jobs : Refused(jobs[k])' <=> Refused(jobs'[k])
    BY <1>4 DEF Refused, Repeats, InboxFull, IsCurrent
  <1>6. OneTransaction'
    BY <1>2, <1>5 DEF MemoryInv, OneTransaction
  <1>7. IdsAreFresh'
    BY DEF MemoryInv, IdsAreFresh
  <1>8. \A k \in Jobs : RevisionTells(jobs[k])' <=> RevisionTells(jobs'[k])
    BY <1>4 DEF RevisionTells
  <1>9. (\A k \in Jobs : jobs[k].op \in Reviews => RevisionTells(jobs[k]))'
    BY <1>2, <1>8 DEF MemoryInv
  <1>10. OnlyEndorsedIsTrusted'
    BY <1>2, <1>4 DEF MemoryInv, OnlyEndorsedIsTrusted, Endorsed
  <1>11. InboxIsBounded'
    BY <1>4 DEF MemoryInv, InboxIsBounded
  <1> QED
    BY <1>3, <1>6, <1>7, <1>9, <1>10, <1>11 DEF MemoryInv

\* A job that goes on with what it has.
LEMMA GoesOn ==
    ASSUME MemoryInv, NEW j \in Jobs,
           NEW at \in {"open", "commit", "done"}, Goto(j, at),
           UNCHANGED <<memories, created, wanted>>,
           holder' \in Jobs \cup {"none"},
           \A k \in Jobs \ {j} : jobs[k].at \in {"open", "commit"} => holder' = k,
           at \in {"open", "commit"} => holder' = j,
           at = "commit" => ~Refused(jobs[j])
    PROVE  MemoryInv'
PROOF
  <1> DEFINE w == [jobs[j] EXCEPT !.at = at]
  <1>1. jobs[j] \in JobTypes /\ wanted \subseteq Jobs
    BY DEF MemoryInv, MemoryTypeInv
  <1>2. w \in JobTypes /\ w.at = at
    BY <1>1 DEF JobTypes
  <1>3. /\ w.op = jobs[j].op /\ w.id = jobs[j].id /\ w.revision = jobs[j].revision
        /\ w.shown = jobs[j].shown /\ w.content = jobs[j].content
        /\ w.recalled = jobs[j].recalled
    BY <1>1 DEF JobTypes
  <1>4. jobs' = [jobs EXCEPT ![j] = w]
    BY DEF Goto
  <1> HIDE DEF w
  <1>5. Refused(w) <=> Refused(jobs[j])
    BY <1>3 DEF Refused, Repeats, InboxFull, IsCurrent, Sources
  <1>6. w.op \in Reviews => RevisionTells(w)
    BY <1>3 DEF MemoryInv, RevisionTells
  <1>7. \A r \in w.recalled : Endorsed(r) /\ r.review = "reviewed"
    BY <1>3 DEF MemoryInv, OnlyEndorsedIsTrusted
  <1> QED
    BY <1>1, <1>2, <1>4, <1>5, <1>6, <1>7, TableKept

\* Records that are there gain a revision when they change.
Revises(i) ==
    /\ memories[i] \in Records /\ memories'[i] \in Records
    /\ memories'[i].revision = memories[i].revision + 1

\* A commit: the one job that is in the transaction leaves it, with a table in
\* which records are new, gone or revised.
LEMMA TableChanged ==
    ASSUME Bounds, MemoryInv, NEW j \in Jobs, jobs[j].at = "commit",
           NEW w \in JobTypes, jobs' = [jobs EXCEPT ![j] = w],
           w.at \in {"done", "recalled"}, w.op = jobs[j].op, w.id = jobs[j].id,
           w.revision = jobs[j].revision, w.shown = jobs[j].shown,
           \A r \in w.recalled : Endorsed(r) /\ r.review = "reviewed",
           holder' = "none", UNCHANGED wanted,
           memories' \in [Ids -> Records \cup {Absent}],
           created' \in created .. MaxRecords,
           \A i \in Ids : i > created' => memories'[i] = Absent,
           \A i \in 1 .. created :
               memories'[i] = memories[i] \/ memories'[i] = Absent \/ Revises(i),
           \A i \in Ids : memories'[i] \in Records => Endorsed(memories'[i]),
           InboxIsBounded'
    PROVE  MemoryInv'
PROOF
  <1>1. /\ jobs \in [Jobs -> JobTypes] /\ created \in 0 .. MaxRecords /\ MaxRecords \in Nat
        /\ memories \in [Ids -> Records \cup {Absent}]
    BY DEF MemoryInv, MemoryTypeInv, Bounds
  <1>2. jobs'[j] = w /\ \A k \in Jobs \ {j} : jobs'[k] = jobs[k]
    BY <1>1
  <1>3. MemoryTypeInv'
    BY <1>1 DEF MemoryInv, MemoryTypeInv, Ids
  <1>4. OneTransaction'
    BY <1>2 DEF MemoryInv, OneTransaction
  <1>5. IdsAreFresh'
    BY DEF IdsAreFresh, Ids
  <1>6. (\A k \in Jobs : jobs[k].op \in Reviews => RevisionTells(jobs[k]))'
    <2> SUFFICES ASSUME NEW k \in Jobs, jobs'[k].op \in Reviews
                 PROVE  RevisionTells(jobs[k])'
      OBVIOUS
    <2>1. /\ jobs'[k].op = jobs[k].op /\ jobs'[k].id = jobs[k].id
          /\ jobs'[k].revision = jobs[k].revision /\ jobs'[k].shown = jobs[k].shown
      BY <1>2
    <2>2. RevisionTells(jobs[k])
      BY <2>1 DEF MemoryInv
    <2> DEFINE i == jobs[k].id
    <2>3. i \in 1 .. created /\ i \in Ids /\ i \in 1 .. created'
      BY <1>1, <2>2 DEF RevisionTells, Ids
    <2>4. jobs[k].revision \in Nat
      BY <1>1 DEF JobTypes
    <2>5. i \in Stored' => memories'[i] # Absent
      BY DEF Stored
    <2>6. CASE memories'[i] = memories[i]
      <3>1. i \in Stored' => i \in Stored
        BY <2>3, <2>5, <2>6 DEF Stored
      <3> QED
        BY <2>1, <2>2, <2>3, <2>6, <3>1 DEF RevisionTells
    <2>7. CASE memories'[i] = Absent
      BY <2>1, <2>3, <2>5, <2>7 DEF RevisionTells
    <2>8. CASE Revises(i)
      <3>1. i \in Stored
        BY <2>3, <2>8, RecordsExist DEF Stored, Revises
      <3>2. memories[i].revision \in Nat /\ memories[i].revision >= jobs[k].revision
        BY <2>2, <2>8, <3>1 DEF RevisionTells, Revises, Records
      <3>3. memories'[i].revision > jobs[k].revision
        BY <2>4, <2>8, <3>2 DEF Revises
      <3> QED
        BY <2>1, <2>3, <2>4, <2>8, <3>2, <3>3 DEF RevisionTells, Revises
    <2> QED
      BY <2>3, <2>6, <2>7, <2>8
  <1>7. OnlyEndorsedIsTrusted'
    <2>1. \A i \in Stored' : memories'[i] \in Records
      BY DEF Stored, Ids
    <2>2. \A i \in Stored' : Endorsed(memories'[i])
      BY <2>1 DEF Stored, Ids
    <2>3. \A k \in Jobs : \A r \in jobs'[k].recalled : Endorsed(r) /\ r.review = "reviewed"
      BY <1>2 DEF MemoryInv, OnlyEndorsedIsTrusted
    <2>4. \A r : Endorsed(r)' <=> Endorsed(r)
      BY DEF Endorsed
    <2> QED
      BY <2>2, <2>3, <2>4 DEF OnlyEndorsedIsTrusted, Endorsed
  <1> QED
    BY <1>3, <1>4, <1>5, <1>6, <1>7 DEF MemoryInv

\* What a table leaves in the inbox: no more than there was.
LEMMA InboxShrinks ==
    ASSUME Bounds, InboxIsBounded, Proposed' \subseteq Proposed
    PROVE  InboxIsBounded'
PROOF
  <1>1. Cardinality(Proposed') <= Cardinality(Proposed) /\ IsFiniteSet(Proposed')
    BY InboxIsFinite, FS_Subset
  <1>2. Cardinality(Proposed') \in Nat
    BY <1>1, FS_CardinalityType
  <1> QED
    BY <1>1, <1>2, InboxIsFinite DEF InboxIsBounded, Bounds

\* The table a commit leaves keeps its shape, and what counts as reviewed in it
\* was endorsed.
LEMMA TableAfter ==
    ASSUME Bounds, MemoryInv, NEW j \in Jobs, CommitJob(j)
    PROVE  /\ memories' \in [Ids -> Records \cup {Absent}]
           /\ created' \in created .. MaxRecords
           /\ \A i \in Ids : i > created' => memories'[i] = Absent
           /\ \A i \in 1 .. created :
                  memories'[i] = memories[i] \/ memories'[i] = Absent \/ Revises(i)
           /\ \A i \in Ids : memories'[i] \in Records => Endorsed(memories'[i])
           /\ InboxIsBounded'
PROOF
  <1> DEFINE c == jobs[j]
             writes == c.op \in {"create", "propose"} /\ ~Repeats(c)
  <1>1. /\ c \in JobTypes /\ created \in 0 .. MaxRecords /\ MaxRecords \in Nat
        /\ memories \in [Ids -> Records \cup {Absent}] /\ ~Refused(c)
    BY DEF MemoryInv, MemoryTypeInv, Bounds, OneTransaction, CommitJob
  <1>2. /\ memories' = After(c) /\ (writes => created < MaxRecords)
        /\ created' = IF writes THEN created + 1 ELSE created
    BY <1>1 DEF CommitJob
  <1>3. \A i \in Ids : memories[i] \in Records => Endorsed(memories[i])
    BY RecordsExist DEF MemoryInv, OnlyEndorsedIsTrusted, Stored
  <1>4. \A i \in Ids : i > created => memories[i] = Absent
    BY DEF MemoryInv, IdsAreFresh
  <1>5. InboxIsBounded
    BY DEF MemoryInv
  <1> HIDE DEF c
  <1>6. CASE writes
    <2> DEFINE n == created + 1
    <2>1. memories' = [memories EXCEPT ![n] = Written(c)] /\ created' = n
      BY <1>2, <1>6 DEF After
    <2>2. n \in Ids /\ memories[n] = Absent
      BY <1>1, <1>2, <1>4, <1>6 DEF Ids
    <2>3. Written(c) \in Records /\ Endorsed(Written(c))
      <3>1. c.content \in Texts /\ "none" \in Texts
        BY <1>1 DEF JobTypes, Texts
      <3> QED
        BY <1>6, <3>1 DEF Written, Records, Sources, Endorsed
    <2>4. memories'[n] = Written(c) /\ \A i \in Ids \ {n} : memories'[i] = memories[i]
      BY <1>1, <2>1, <2>2
    <2>5. memories' \in [Ids -> Records \cup {Absent}]
      BY <1>1, <2>1, <2>3
    <2>6. created' \in created .. MaxRecords
      BY <1>1, <1>2, <1>6, <2>1
    <2>7. \A i \in Ids : i > created' => memories'[i] = Absent
      BY <1>1, <1>4, <2>1, <2>4 DEF Ids
    <2>8. \A i \in 1 .. created : memories'[i] = memories[i]
      BY <1>1, <2>4 DEF Ids
    <2>9. \A i \in Ids : memories'[i] \in Records => Endorsed(memories'[i])
      BY <1>3, <2>3, <2>4
    <2>10. c.op = "propose" => InboxIsBounded'
      <3> SUFFICES ASSUME c.op = "propose" PROVE InboxIsBounded'
        OBVIOUS
      <3>1. Proposed' \subseteq Proposed \cup {n}
        BY <2>4 DEF Proposed, Stored, Ids
      <3>2. Cardinality(Proposed) < MaxProposed
        BY <1>1, <1>6, InboxIsFinite DEF Refused, InboxFull, Bounds
      <3>3. IsFiniteSet(Proposed \cup {n}) /\ Cardinality(Proposed \cup {n}) <= MaxProposed
            /\ Cardinality(Proposed \cup {n}) \in Nat
        <4>1. IsFiniteSet(Proposed) /\ Cardinality(Proposed) \in Nat
          BY InboxIsFinite
        <4>2. IsFiniteSet(Proposed \cup {n})
              /\ Cardinality(Proposed \cup {n}) =
                     IF n \in Proposed THEN Cardinality(Proposed) ELSE Cardinality(Proposed) + 1
          BY <4>1, FS_AddElement
        <4> HIDE DEF n
        <4> QED
          BY <3>2, <4>1, <4>2 DEF Bounds
      <3>4. Cardinality(Proposed') <= Cardinality(Proposed \cup {n}) /\ IsFiniteSet(Proposed')
        BY <3>1, <3>3, FS_Subset
      <3>5. Cardinality(Proposed') \in Nat
        BY <3>4, FS_CardinalityType
      <3> QED
        BY <3>3, <3>4, <3>5 DEF InboxIsBounded, Bounds
    <2>11. c.op # "propose" => InboxIsBounded'
      <3> SUFFICES ASSUME c.op # "propose" PROVE InboxIsBounded'
        OBVIOUS
      <3>1. Written(c).review = "reviewed"
        BY <1>6 DEF Written
      <3>2. Proposed' \subseteq Proposed
        BY <2>4, <3>1 DEF Proposed, Stored, Ids
      <3> QED
        BY <1>5, <3>2, InboxShrinks
    <2> QED
      BY <2>5, <2>6, <2>7, <2>8, <2>9, <2>10, <2>11
  <1>7. CASE c.op \in {"correct", "approve"}
    <2> DEFINE r == memories[c.id]
    <2>1. memories' = [memories EXCEPT ![c.id] = Reviewed(c)] /\ created' = created
      BY <1>2, <1>7 DEF After
    <2>2. c.id \in Stored /\ r.revision = c.revision
      BY <1>1, <1>7 DEF Refused, IsCurrent
    <2>3. c.id \in Ids /\ r \in Records /\ r.revision \in Nat
      BY <1>1, <2>2 DEF Stored, Records
    <2>4. r.content = c.shown
      BY <1>7, <2>2 DEF MemoryInv, RevisionTells, Reviews, c
    <2>5. /\ Reviewed(c) \in Records /\ Reviewed(c).review = "reviewed"
          /\ Reviewed(c).revision = r.revision + 1
      <3> DEFINE text == IF c.op = "correct" THEN c.content ELSE r.content
                 word == IF c.op = "correct" THEN c.content ELSE c.shown
                 next == r.revision + 1
      <3>1. text \in Texts /\ word \in Texts /\ r.source \in {"owner", "model"}
        BY <1>1, <2>3 DEF Records, JobTypes
      <3>2. Reviewed(c) = [r EXCEPT !.review = "reviewed", !.revision = next,
                                    !.content = text, !.endorsed = word]
        BY DEF Reviewed
      <3>3. next \in Nat
        BY <2>3
      <3> HIDE DEF text, word, r, next
      <3>4. Reviewed(c) \in Records
        BY <2>3, <3>1, <3>2, <3>3 DEF Records
      <3>5. Reviewed(c).review = "reviewed" /\ Reviewed(c).revision = next
        BY <2>3, <3>2 DEF Records
      <3> QED
        BY <3>4, <3>5 DEF next
    <2>6. Endorsed(Reviewed(c))
      BY <1>7, <2>3, <2>4 DEF Endorsed, Reviewed, Records
    <2>7. memories'[c.id] = Reviewed(c) /\ \A i \in Ids \ {c.id} : memories'[i] = memories[i]
      BY <1>1, <2>1, <2>3
    <2>8. memories' \in [Ids -> Records \cup {Absent}]
      BY <1>1, <2>1, <2>5
    <2>9. Revises(c.id)
      BY <2>3, <2>5, <2>7 DEF Revises
    <2>10. \A i \in Ids : i > created => memories'[i] = Absent
      BY <1>4, <2>2, <2>7 DEF Stored
    <2>11. Proposed' \subseteq Proposed
      BY <2>5, <2>7 DEF Proposed, Stored, Ids
    <2>12. InboxIsBounded'
      BY <1>5, <2>11, InboxShrinks
    <2>13. \A i \in Ids : memories'[i] \in Records => Endorsed(memories'[i])
      BY <1>3, <2>6, <2>7
    <2>14. \A i \in 1 .. created : i \in Ids
      BY <1>1 DEF Ids
    <2> QED
      BY <1>1, <2>1, <2>7, <2>8, <2>9, <2>10, <2>12, <2>13, <2>14
  <1>8. CASE c.op = "delete"
    <2>1. memories' = [memories EXCEPT ![c.id] = Absent] /\ created' = created
      BY <1>2, <1>8 DEF After
    <2>2. memories' \in [Ids -> Records \cup {Absent}]
      BY <1>1, <2>1
    <2>3. \A i \in Ids : memories'[i] = memories[i] \/ memories'[i] = Absent
      BY <1>1, <2>1
    <2>4. \A i \in 1 .. created : i \in Ids
      BY <1>1 DEF Ids
    <2>5. Proposed' \subseteq Proposed
      BY <2>3 DEF Proposed, Stored, Ids
    <2>6. InboxIsBounded'
      BY <1>5, <2>5, InboxShrinks
    <2> QED
      BY <1>1, <1>3, <1>4, <2>1, <2>2, <2>3, <2>4, <2>6, RecordsExist
  <1>9. CASE ~writes /\ c.op \notin Reviews
    <2>1. memories' = memories /\ created' = created
      BY <1>2, <1>9 DEF After, Reviews
    <2>2. InboxIsBounded'
      BY <1>5, <2>1 DEF InboxIsBounded, Proposed, Stored, Ids
    <2> QED
      BY <1>1, <1>3, <1>4, <2>1, <2>2
  <1> QED
    BY <1>6, <1>7, <1>8, <1>9 DEF Reviews

\* A job that commits, whatever it writes, or only recalls.
LEMMA MemoryCommitKeeps ==
    ASSUME Bounds, MemoryInv, NEW j \in Jobs, CommitJob(j)
    PROVE  MemoryInv'
PROOF
  <1>1. /\ jobs[j] \in JobTypes /\ jobs[j].at = "commit" /\ holder' = "none" /\ UNCHANGED wanted
        /\ memories \in [Ids -> Records \cup {Absent}]
    BY DEF MemoryInv, MemoryTypeInv, CommitJob
  <1>2. CASE jobs[j].op = "recall"
    <2>1. PICK some \in SUBSET Recalled :
              jobs' = [jobs EXCEPT ![j].at = "recalled",
                                   ![j].recalled = {memories[i] : i \in some}]
      BY <1>2 DEF CommitJob
    <2> DEFINE told == {memories[i] : i \in some}
               w == [jobs[j] EXCEPT !.at = "recalled", !.recalled = told]
    <2>2. told \subseteq Records
      BY <1>1 DEF Recalled, Stored
    <2>3. \A r \in told : Endorsed(r) /\ r.review = "reviewed"
      BY DEF Recalled, MemoryInv, OnlyEndorsedIsTrusted
    <2>4. jobs' = [jobs EXCEPT ![j] = w]
      BY <2>1
    <2>5. /\ w \in JobTypes /\ w.at = "recalled" /\ w.op = jobs[j].op /\ w.id = jobs[j].id
          /\ w.revision = jobs[j].revision /\ w.shown = jobs[j].shown /\ w.recalled = told
      BY <1>1, <2>2 DEF JobTypes
    <2> HIDE DEF w
    <2> QED
      BY <1>1, <2>3, <2>4, <2>5, TableAfter, TableChanged
  <1>3. CASE jobs[j].op # "recall"
    <2> DEFINE w == [jobs[j] EXCEPT !.at = "done"]
    <2>1. jobs' = [jobs EXCEPT ![j] = w]
      BY <1>3 DEF CommitJob, Goto
    <2>2. /\ w \in JobTypes /\ w.at = "done" /\ w.op = jobs[j].op /\ w.id = jobs[j].id
          /\ w.revision = jobs[j].revision /\ w.shown = jobs[j].shown
          /\ w.recalled = jobs[j].recalled
      BY <1>1 DEF JobTypes
    <2>3. \A r \in w.recalled : Endorsed(r) /\ r.review = "reviewed"
      BY <2>2 DEF MemoryInv, OnlyEndorsedIsTrusted
    <2> HIDE DEF w
    <2> QED
      BY <1>1, <2>1, <2>2, <2>3, TableAfter, TableChanged
  <1> QED
    BY <1>2, <1>3

\* A new call is queued with nothing done yet.
LEMMA Queued ==
    ASSUME MemoryInv, NEW j \in Jobs, NEW w \in JobTypes, jobs[j].at = "idle",
           jobs' = [jobs EXCEPT ![j] = w], w.at = "queued", w.recalled = {},
           w.op \in Reviews => RevisionTells(w),
           UNCHANGED <<memories, created, holder, wanted>>
    PROVE  MemoryInv'
PROOF
  <1>1. /\ holder' \in Jobs \cup {"none"} /\ wanted' \subseteq Jobs
        /\ \A k \in Jobs \ {j} : jobs[k].at \in {"open", "commit"} => holder' = k
    BY DEF MemoryInv, MemoryTypeInv, OneTransaction
  <1>2. w.at \notin {"open", "commit"} /\ \A r \in w.recalled : Endorsed(r) /\ r.review = "reviewed"
    OBVIOUS
  <1> QED
    BY <1>1, <1>2, TableKept

\* Calls that begin, and the one that is over.
LEMMA CallsKeep ==
    ASSUME Bounds, MemoryInv, NEW j \in Jobs
    PROVE  /\ \A kind \in {"create", "propose"}, c \in Contents :
                  StartWrite(j, kind, c) => MemoryInv'
           /\ \A kind \in Reviews, i \in Stored, c \in Contents :
                  StartReview(j, kind, i, c) => MemoryInv'
           /\ StartRecall(j) => MemoryInv'
           /\ Retire(j) => MemoryInv'
PROOF
  <1>1. ASSUME NEW kind \in {"create", "propose"}, NEW c \in Contents, StartWrite(j, kind, c)
        PROVE  MemoryInv'
    <2> DEFINE w == [NoJob EXCEPT !.at = "queued", !.op = kind, !.content = c]
    <2>1. w \in JobTypes /\ w.at = "queued" /\ w.recalled = {} /\ w.op \notin Reviews
      BY DEF NoJob, JobTypes, Texts, Reviews
    <2>2. /\ jobs[j].at = "idle" /\ jobs' = [jobs EXCEPT ![j] = w]
          /\ UNCHANGED <<memories, created, holder, wanted>>
      BY <1>1 DEF StartWrite
    <2> HIDE DEF w
    <2> QED
      BY <2>1, <2>2, Queued
  <1>2. ASSUME NEW kind \in Reviews, NEW i \in Stored, NEW c \in Contents, StartReview(j, kind, i, c)
        PROVE  MemoryInv'
    <2> DEFINE m == memories[i]
               w == [NoJob EXCEPT !.at = "queued", !.op = kind, !.id = i, !.content = c,
                                  !.revision = m.revision, !.shown = m.content]
    <2>1. i \in Ids /\ m \in Records /\ created \in 0 .. MaxRecords /\ MaxRecords \in Nat
      BY DEF MemoryInv, MemoryTypeInv, Stored, Bounds
    <2>2. m.revision \in Nat /\ m.content \in Texts /\ c \in Texts /\ i \in Nat
      BY <2>1 DEF Records, Texts, Ids
    <2>3. i \in 1 .. created
      BY <2>1 DEF MemoryInv, IdsAreFresh, Stored, Ids
    <2>4. /\ jobs[j].at = "idle" /\ jobs' = [jobs EXCEPT ![j] = w]
          /\ UNCHANGED <<memories, created, holder, wanted>>
      BY <1>2 DEF StartReview
    <2> HIDE DEF m
    <2>5. w \in JobTypes
      BY <2>2 DEF NoJob, JobTypes, Texts, Reviews
    <2>6. /\ w.at = "queued" /\ w.recalled = {} /\ w.id = i /\ w.revision = m.revision
          /\ w.shown = m.content
      BY DEF NoJob
    <2>7. RevisionTells(w)
      BY <2>2, <2>3, <2>6 DEF RevisionTells, m
    <2> HIDE DEF w
    <2> QED
      BY <2>4, <2>5, <2>6, <2>7, Queued
  <1>3. ASSUME StartRecall(j)
        PROVE  MemoryInv'
    <2> DEFINE w == [NoJob EXCEPT !.at = "queued", !.op = "recall"]
    <2>1. w \in JobTypes /\ w.at = "queued" /\ w.recalled = {} /\ w.op \notin Reviews
      BY DEF NoJob, JobTypes, Texts, Reviews
    <2>2. /\ jobs[j].at = "idle" /\ jobs' = [jobs EXCEPT ![j] = w]
          /\ UNCHANGED <<memories, created, holder, wanted>>
      BY <1>3 DEF StartRecall
    <2> HIDE DEF w
    <2> QED
      BY <2>1, <2>2, Queued
  <1>4. ASSUME Retire(j)
        PROVE  MemoryInv'
    <2>1. UNCHANGED <<memories, created, holder, jobs>> /\ wanted' \subseteq wanted
      BY <1>4 DEF Retire
    <2>2. Stored' = Stored /\ Proposed' = Proposed
      BY <2>1 DEF Stored, Proposed
    <2>3. MemoryTypeInv' /\ IdsAreFresh'
      BY <2>1 DEF MemoryInv, MemoryTypeInv, IdsAreFresh, Ids
    <2>4. OneTransaction'
      <3>1. \A k \in Jobs : Refused(jobs[k])' <=> Refused(jobs[k])
        BY <2>1, <2>2 DEF Refused, Repeats, InboxFull, IsCurrent
      <3> QED
        BY <2>1, <3>1 DEF MemoryInv, OneTransaction
    <2>5. (\A k \in Jobs : jobs[k].op \in Reviews => RevisionTells(jobs[k]))'
      <3>1. \A k \in Jobs : RevisionTells(jobs[k])' <=> RevisionTells(jobs[k])
        BY <2>1, <2>2 DEF RevisionTells
      <3> QED
        BY <2>1, <3>1 DEF MemoryInv
    <2>6. OnlyEndorsedIsTrusted' /\ InboxIsBounded'
      BY <2>1, <2>2 DEF MemoryInv, OnlyEndorsedIsTrusted, InboxIsBounded, Endorsed
    <2> QED
      BY <2>3, <2>4, <2>5, <2>6 DEF MemoryInv
  <1> QED
    BY <1>1, <1>2, <1>3, <1>4

\* Every step of a worker thread.
LEMMA JobStepKeeps ==
    ASSUME Bounds, MemoryInv, NEW j \in Jobs, JobStep(j)
    PROVE  MemoryInv'
PROOF
  <1> DEFINE OnlyOne(h) == \A k \in Jobs \ {j} : jobs[k].at \in {"open", "commit"} => h = k
  <1>1. /\ holder \in Jobs \cup {"none"} /\ "none" \notin Jobs
        /\ \A k \in Jobs : jobs[k].at \in {"open", "commit"} => holder = k
    BY DEF MemoryInv, MemoryTypeInv, OneTransaction, Bounds
  <1>2. CASE Begin(j)
    <2>1. jobs[j].at = "queued" /\ holder = "none" /\ UNCHANGED <<memories, created, wanted>>
      BY <1>2 DEF Begin
    <2>2. \A h : OnlyOne(h)
      BY <1>1, <2>1
    <2>3. CASE j \in wanted
      BY <1>2, <2>1, <2>2, <2>3, GoesOn DEF Begin
    <2>4. CASE j \notin wanted
      BY <1>1, <1>2, <2>1, <2>2, <2>4, GoesOn DEF Begin
    <2> QED
      BY <2>3, <2>4
  <1>3. ASSUME jobs[j].at \in {"open", "commit"}, Finish(j, "done"),
               UNCHANGED <<memories, created, wanted>>
        PROVE  MemoryInv'
    <2>1. OnlyOne(holder') /\ holder' = "none" /\ Goto(j, "done")
      BY <1>1, <1>3 DEF Finish
    <2> QED
      BY <1>3, <2>1, GoesOn
  <1>4. CASE Refuse(j) \/ StoreFails(j)
    BY <1>3, <1>4 DEF Refuse, StoreFails
  <1>5. CASE Check(j)
    <2>1. jobs[j].at = "open" /\ ~Refused(jobs[j]) /\ UNCHANGED <<memories, created, wanted>>
      BY <1>5 DEF Check
    <2>2. CASE j \in wanted
      <3>1. Goto(j, "commit") /\ holder' = j /\ OnlyOne(holder')
        BY <1>1, <1>5, <2>1, <2>2 DEF Check
      <3> QED
        BY <2>1, <3>1, GoesOn
    <2>3. CASE j \notin wanted
      BY <1>3, <1>5, <2>1, <2>3 DEF Check
    <2> QED
      BY <2>2, <2>3
  <1>6. CASE CommitJob(j)
    BY <1>6, MemoryCommitKeeps
  <1>7. CASE Tell(j)
    <2> DEFINE told == IF j \in wanted THEN jobs[j].recalled ELSE {}
               at == IF j \in wanted THEN "told" ELSE "done"
               w == [jobs[j] EXCEPT !.at = at, !.recalled = told]
    <2>1. /\ jobs[j].at = "recalled" /\ UNCHANGED <<memories, created, holder, wanted>>
          /\ jobs' = [jobs EXCEPT ![j] = w]
      BY <1>7 DEF Tell
    <2>2. jobs[j] \in JobTypes /\ wanted \subseteq Jobs
      BY DEF MemoryInv, MemoryTypeInv
    <2>3. told \subseteq jobs[j].recalled /\ at \in {"told", "done"} /\ told \subseteq Records
      BY <2>2 DEF JobTypes
    <2> HIDE DEF told, at
    <2>4. w \in JobTypes
      BY <2>2, <2>3 DEF JobTypes
    <2>5. /\ w.at = at /\ w.recalled = told /\ w.op = jobs[j].op /\ w.id = jobs[j].id
          /\ w.revision = jobs[j].revision /\ w.shown = jobs[j].shown
      BY <2>2 DEF JobTypes
    <2> HIDE DEF w
    <2>6. \A r \in w.recalled : Endorsed(r) /\ r.review = "reviewed"
      BY <2>3, <2>5 DEF MemoryInv, OnlyEndorsedIsTrusted
    <2>7. w.op \in Reviews => RevisionTells(w)
      BY <2>5 DEF MemoryInv, RevisionTells
    <2>8. w.at \notin {"open", "commit"}
      BY <2>3, <2>5
    <2> QED
      BY <1>1, <2>1, <2>2, <2>4, <2>6, <2>7, <2>8, TableKept
  <1> QED
    BY <1>2, <1>4, <1>5, <1>6, <1>7 DEF JobStep

\* Every step of the store, its callers and those who give up.
LEMMA MemoryStepKeeps ==
    ASSUME Bounds, MemoryInv, [MemoryNext]_memoryVars
    PROVE  MemoryInv'
PROOF
  <1>1. CASE MemoryNext
    BY <1>1, CallsKeep, JobStepKeeps DEF MemoryNext, Reviews
  <1>2. CASE UNCHANGED memoryVars
    <2>1. Stored' = Stored /\ Proposed' = Proposed
      BY <1>2 DEF memoryVars, Stored, Proposed
    <2>2. /\ \A k \in Jobs : Refused(jobs[k])' <=> Refused(jobs[k])
          /\ \A k \in Jobs : RevisionTells(jobs[k])' <=> RevisionTells(jobs[k])
      BY <1>2, <2>1 DEF memoryVars, Refused, Repeats, InboxFull, IsCurrent, RevisionTells
    <2>3. MemoryTypeInv' /\ IdsAreFresh' /\ OneTransaction'
      BY <1>2, <2>2 DEF memoryVars, MemoryInv, MemoryTypeInv, IdsAreFresh, OneTransaction, Ids
    <2>4. OnlyEndorsedIsTrusted' /\ InboxIsBounded'
      BY <1>2, <2>1 DEF memoryVars, MemoryInv, OnlyEndorsedIsTrusted, InboxIsBounded, Endorsed
    <2> QED
      BY <1>2, <2>2, <2>3, <2>4 DEF memoryVars, MemoryInv
  <1> QED
    BY <1>1, <1>2

\* What counts as reviewed, and what a model is told from memory, says what the
\* owner wrote or approved, whatever was corrected, replaced or deleted between the
\* owner's look and the owner's word; and however many proposals are counted and
\* inserted by threads of their own, the inbox keeps its limit (store.py approve,
\* correct, ranked_reviewed, create).
THEOREM MemoryStaysSound ==
    ASSUME Bounds
    PROVE  MemorySpec => []MemoryIsSound
PROOF
  <1>1. MemoryInit => MemoryInv
    BY MemoryInitHolds
  <1>2. MemoryInv /\ [MemoryNext]_memoryVars => MemoryInv'
    BY MemoryStepKeeps
  <1>3. MemoryInv => MemoryIsSound
    BY DEF MemoryInv, MemoryIsSound
  <1> QED
    BY <1>1, <1>2, <1>3, PTL DEF MemorySpec

-----------------------------------------------------------------------------
(* The model route *)

\* The steps of the tasks that leave the route's provider alone: a task that took
\* the route stays committed, with what it has to close, or is over; what is
\* closed belongs to tasks that did not take it.
Undisturbed ==
    /\ route'.object = route.object
    /\ turn' = turn
    /\ \A o \in Requests : work[o].pc \in {"committed", "done"} =>
                               work'[o].pc \in {"committed", "done"}
    /\ \A o \in Requests : work[o].pc \in Ending => work'[o].pc \in Ending
    /\ \A r \in Requests : work'[r].pc = "committed" =>
           work[r].pc = "committed" /\ work'[r].previous = work[r].previous
    /\ \A o \in closedProviders' \ closedProviders :
           o \in Requests /\ work[o].pc = "scan" /\ work'[o].pc \in Ending

\* Steps that leave the route, the epoch and what was found alone.
LEMMA UndisturbedKeeps ==
    ASSUME MaxRequests \in Nat, RouteInv, RouteTypes', Undisturbed
    PROVE  RouteInv'
PROOF
  <1> USE DEF RouteInv, Undisturbed
  <1>1. 0 \notin Requests
    BY DEF Requests
  <1>2. \A o \in Objects : Taken(o) => Taken(o)'
    BY DEF Taken, Objects
  <1>3. \A o \in Objects : Over(o) => Over(o)'
    BY <1>2 DEF Over, Taken, Objects
  <1>4. route.object \in Objects
    BY DEF RouteTypes
  <1>5. /\ \A r \in Requests : work[r].previous \in Objects
        /\ closedProviders \subseteq Objects
    BY DEF RouteTypes, Works
  <1>6. Taken(route.object)'
    BY <1>2, <1>4 DEF RouteWasTaken, Taken
  <1>7. \A o \in closedProviders' : Over(o)'
    BY <1>3, <1>5 DEF RouteWasTaken, Over
  <1>8. \A r \in Requests : work'[r].pc = "committed" =>
            Taken(work[r].previous)' /\ work'[r].previous # route'.object
    BY <1>2, <1>5 DEF RouteWasTaken
  <1>9. RouteWasTaken'
    BY <1>6, <1>7, <1>8 DEF RouteWasTaken, Taken, Over
  <1>10. route'.object \notin closedProviders'
    BY <1>1 DEF RouteWasTaken, RouteIsUsable, Taken
  <1> QED
    BY <1>9, <1>10 DEF RouteIsUsable, RouteWasTaken

\* The step of one task r, to a pc of its own.
Steps(r, pc) ==
    /\ work'[r].pc = pc /\ work'[r].previous = work[r].previous
    /\ work'[r].epoch = work[r].epoch
    /\ \A s \in Requests \ {r} : work'[s] = work[s]
    /\ work' \in [Requests -> Works]

\* A request that moves, and no other does.
LEMMA MoveFacts ==
    ASSUME RouteTypes, NEW r \in Requests,
           NEW pc \in WorkPcs,
           work' = [work EXCEPT ![r].pc = pc]
    PROVE  Steps(r, pc)
PROOF
  <1>1. work[r] \in Works
    BY DEF RouteTypes
  <1> DEFINE moved == [work[r] EXCEPT !.pc = pc]
  <1>2. moved \in Works /\ moved.pc = pc /\ moved.previous = work[r].previous
        /\ moved.epoch = work[r].epoch
    BY <1>1 DEF Works
  <1>3. work' = [work EXCEPT ![r] = moved]
    OBVIOUS
  <1> HIDE DEF moved
  <1> QED
    BY <1>2, <1>3 DEF Steps, RouteTypes

\* A request begins well typed.
LEMMA NewWork ==
    ASSUME NEW kind \in {"refresh", "unload"}, NEW explicit \in BOOLEAN, NEW e \in Nat,
           NEW pc \in {"lock", "starting"}, NEW previous \in Objects
    PROVE  /\ Work(kind, pc, e, explicit, previous) \in Works
           /\ Work(kind, pc, e, explicit, previous).pc = pc
           /\ Work(kind, pc, e, explicit, previous).epoch = e
PROOF
  BY DEF Work, Works, WorkPcs

-----------------------------------------------------------------------------
\* Steps of one task that neither take the route nor close what it replaced.
LEMMA TaskKeeps ==
    ASSUME MaxRequests \in Nat, RouteInv, NEW r \in Requests,
           NEW pc \in WorkPcs \ {"none", "committed"}, Steps(r, pc),
           work[r].pc = "committed" => pc = "done",
           work[r].pc \in Ending => pc \in Ending, work[r].pc # "done",
           route' = route \/ route' = [route EXCEPT !.model = FALSE],
           closedProviders' = closedProviders
               \/ (/\ closedProviders' \subseteq closedProviders \cup {r}
                   /\ work[r].pc = "scan" /\ pc \in Ending),
           UNCHANGED <<turn, currentTask, epoch>>
    PROVE  RouteInv'
PROOF
  <1>1. RouteTypes'
    BY DEF RouteInv, RouteTypes, Steps, Objects
  <1>2. route'.object = route.object
    BY DEF RouteInv, RouteTypes
  <1>3. Undisturbed
    BY <1>2 DEF Undisturbed, Steps
  <1> QED
    BY <1>1, <1>3, UndisturbedKeeps

\* A request that is finished has moved,
LEMMA FinishedFacts ==
    ASSUME RouteTypes, NEW r \in Requests, Finished(r)
    PROVE  Steps(r, "done")
PROOF
  BY MoveFacts DEF Finished, WorkPcs, Ending

\* and so has one that goes on.
LEMMA AtFacts ==
    ASSUME RouteTypes, NEW r \in Requests,
           NEW pc \in WorkPcs,
           At(r, pc)
    PROVE  Steps(r, pc)
PROOF
  BY MoveFacts DEF At

\* What a refresh does of the route without taking it.
LEMMA DroppedFacts ==
    ASSUME NEW keeps \in BOOLEAN, Drops(keeps)
    PROVE  /\ route' = route \/ route' = [route EXCEPT !.model = FALSE]
           /\ fence' = fence \/ fence' = "unavailable"
PROOF
  BY DEF Drops

\* An unload that is given up is over, and may drop the route's model.
LEMMA GivenUpFacts ==
    ASSUME RouteTypes, NEW r \in Requests, UnloadGivenUp(r)
    PROVE  /\ Steps(r, "done")
           /\ route' = route \/ route' = [route EXCEPT !.model = FALSE]
PROOF
  BY FinishedFacts DEF UnloadGivenUp

\* The task of a request on its way.
LEMMA OnItsWayKeeps ==
    ASSUME MaxRequests \in Nat, RouteInv, NEW r \in Requests,
           \/ Announce(r) \/ Announced(r) \/ RetryDelayPasses(r) \/ UnloadReturns(r)
           \/ UnloadIsStale(r) \/ Unwound(r) \/ Reported(r)
    PROVE  RouteInv'
PROOF
  <1> USE DEF Running, WorkPcs, Ending
  <1>1. RouteTypes
    BY DEF RouteInv
  <1>2. CASE Announce(r)
    BY <1>1, <1>2, AtFacts, TaskKeeps DEF Announce
  <1>3. CASE Announced(r)
    <2>1. CASE work[r].kind = "unload"
      BY <1>1, <1>3, <2>1, AtFacts, TaskKeeps DEF Announced
    <2>2. CASE work[r].kind # "unload"
      BY <1>1, <1>3, <2>2, AtFacts, TaskKeeps DEF Announced
    <2> QED
      BY <2>1, <2>2
  <1>4. CASE RetryDelayPasses(r)
    BY <1>1, <1>4, AtFacts, TaskKeeps DEF RetryDelayPasses
  <1>5. CASE UnloadReturns(r)
    BY <1>1, <1>5, AtFacts, TaskKeeps DEF UnloadReturns
  <1>6. CASE Unwound(r)
    BY <1>1, <1>6, AtFacts, FinishedFacts, GivenUpFacts, TaskKeeps DEF Unwound
  <1>8. CASE UnloadIsStale(r)
    BY <1>1, <1>8, GivenUpFacts, TaskKeeps DEF UnloadIsStale
  <1>7. CASE Reported(r)
    BY <1>1, <1>7, FinishedFacts, TaskKeeps DEF Reported
  <1> QED
    BY <1>2, <1>3, <1>4, <1>5, <1>6, <1>7, <1>8

\* The ends of a discovery that does not take the route.
LEMMA ScanKeeps ==
    ASSUME MaxRequests \in Nat, RouteInv, NEW r \in Requests,
           \/ ScanRetries(r) \/ ScanIsStale(r) \/ StaleIsClosed(r) \/ ScanFails(r)
           \/ ScanFindsNothing(r) \/ FoundIsClosed(r) \/ ScanIsRefused(r) \/ RefusedIsClosed(r)
    PROVE  RouteInv'
PROOF
  <1> USE DEF Running, WorkPcs, Ending
  <1>1. RouteTypes
    BY DEF RouteInv
  <1>2. CASE ScanRetries(r)
    <2> DEFINE retrying == [work[r] EXCEPT !.pc = "retry", !.retries = work[r].retries + 1]
    <2>1. work' = [work EXCEPT ![r] = retrying]
      BY <1>1, <1>2 DEF ScanRetries, RouteTypes
    <2>2. work[r] \in Works /\ work[r].retries + 1 \in Nat
      BY <1>1 DEF RouteTypes, Works
    <2>3. /\ retrying \in Works /\ retrying.pc = "retry"
          /\ retrying.previous = work[r].previous /\ retrying.epoch = work[r].epoch
      BY <2>2 DEF Works
    <2> HIDE DEF retrying
    <2>4. Steps(r, "retry")
      BY <1>1, <2>1, <2>3 DEF Steps, RouteTypes
    <2> QED
      BY <1>2, <2>4, TaskKeeps DEF ScanRetries
  <1>3. CASE ScanIsStale(r)
    BY <1>1, <1>3, AtFacts, FinishedFacts, TaskKeeps DEF ScanIsStale
  <1>4. CASE ScanFails(r)
    <2>1. work[r].explicit \in BOOLEAN
      BY <1>1 DEF RouteTypes, Works
    <2> QED
      BY <1>1, <1>4, <2>1, AtFacts, DroppedFacts, TaskKeeps DEF ScanFails
  <1>5. CASE ScanFindsNothing(r)
    <2>1. CASE \E keeps \in BOOLEAN : Unavailable(r, keeps) /\ UNCHANGED closedProviders
      BY <1>1, <1>5, <2>1, AtFacts, DroppedFacts, TaskKeeps DEF ScanFindsNothing, Unavailable
    <2>2. CASE /\ \E pc \in {"sparing", "dropping"} : At(r, pc)
               /\ closedProviders' = closedProviders \cup {r}
               /\ UNCHANGED <<currentTask, epoch, route, turn>>
      BY <1>1, <1>5, <2>2, AtFacts, TaskKeeps DEF ScanFindsNothing
    <2> QED
      BY <1>5, <2>1, <2>2 DEF ScanFindsNothing
  <1>6. CASE ScanIsRefused(r)
    BY <1>1, <1>6, AtFacts, TaskKeeps DEF ScanIsRefused
  <1>7. CASE StaleIsClosed(r) \/ RefusedIsClosed(r)
    BY <1>1, <1>7, AtFacts, FinishedFacts, TaskKeeps DEF StaleIsClosed, RefusedIsClosed
  <1>8. CASE FoundIsClosed(r)
    BY <1>1, <1>8, AtFacts, DroppedFacts, TaskKeeps DEF FoundIsClosed, Unavailable
  <1> QED
    BY <1>2, <1>3, <1>4, <1>5, <1>6, <1>7, <1>8

\* Taking the route: nobody is using the one before, and only this task may close it.
LEMMA RefreshCommitKeeps ==
    ASSUME MaxRequests \in Nat, RouteInv, NEW r \in Requests, TakeRoute(r)
    PROVE  RouteInv'
PROOF
  <1> DEFINE taking == [work[r] EXCEPT !.pc = "committed", !.previous = route.object]
  <1>1. RouteTypes /\ RouteWasTaken /\ RouteIsUsable
    BY DEF RouteInv
  <1>2. work[r].pc = "scan" /\ ~turn.active /\ work[r] \in Works /\ route.object \in Objects
    BY <1>1 DEF TakeRoute, Running, RouteTypes
  <1>3. work' = [work EXCEPT ![r] = taking]
    BY <1>1 DEF TakeRoute, RouteTypes
  <1>4. taking \in Works /\ taking.pc = "committed" /\ taking.previous = route.object
    BY <1>2 DEF Works, WorkPcs
  <1> HIDE DEF taking
  <1>5. /\ work' \in [Requests -> Works]
        /\ work'[r].pc = "committed" /\ work'[r].previous = route.object
        /\ \A s \in Requests \ {r} : work'[s] = work[s]
    BY <1>1, <1>3, <1>4 DEF RouteTypes
  <1>6. /\ route'.object = r /\ route' \in [object : Objects, model : BOOLEAN]
        /\ UNCHANGED <<currentTask, epoch, turn, closedProviders>>
    BY DEF TakeRoute, Objects
  <1>7. RouteTypes'
    BY <1>1, <1>5, <1>6 DEF RouteTypes, Objects
  <1>8. r # 0 /\ ~Taken(r) /\ ~Over(r)
    BY <1>2 DEF Taken, Over, Requests, Ending
  <1>9. /\ \A o \in Objects : Taken(o) => o # r /\ Taken(o)'
        /\ \A o \in Objects : Over(o) => o # r /\ Over(o)'
    BY <1>5, <1>8 DEF Taken, Over, Objects
  <1>10. RouteIsUsable'
    BY <1>1, <1>2, <1>6, <1>8 DEF RouteIsUsable, RouteWasTaken, RouteTypes
  <1>11. Taken(route.object)' /\ \A o \in closedProviders' : Over(o)'
    BY <1>1, <1>5, <1>6, <1>9 DEF RouteWasTaken, RouteTypes, Taken
  <1>12. \A s \in Requests : work'[s].pc = "committed" =>
             Taken(work[s].previous)' /\ work'[s].previous # route'.object
    <2> SUFFICES ASSUME NEW s \in Requests, work'[s].pc = "committed"
                 PROVE  Taken(work[s].previous)' /\ work'[s].previous # route'.object
      OBVIOUS
    <2>1. work'[s].previous \in Objects /\ Taken(work'[s].previous)
      BY <1>1, <1>2, <1>5 DEF RouteWasTaken, RouteTypes, Works
    <2> QED
      BY <1>6, <1>9, <2>1 DEF Taken
  <1>13. RouteWasTaken'
    BY <1>2, <1>6, <1>11, <1>12 DEF RouteWasTaken, Taken, Over
  <1> QED
    BY <1>7, <1>10, <1>13 DEF RouteInv

\* Closing what the request replaced.
LEMMA ClosePreviousKeeps ==
    ASSUME MaxRequests \in Nat, RouteInv, NEW r \in Requests, ClosePrevious(r)
    PROVE  RouteInv'
PROOF
  <1>1. RouteTypes /\ RouteWasTaken /\ RouteIsUsable
    BY DEF RouteInv
  <1> DEFINE p == work[r].previous
  <1>2. /\ work[r].pc = "committed" /\ Steps(r, "done")
        /\ closedProviders' = closedProviders \cup {p}
        /\ UNCHANGED <<currentTask, epoch, route, turn>>
    BY <1>1, FinishedFacts DEF ClosePrevious, Running
  <1>3. p \in Objects /\ Taken(p) /\ p # route.object
    BY <1>1, <1>2 DEF RouteWasTaken, RouteTypes, Works
  <1> HIDE DEF p
  <1>4. RouteTypes'
    BY <1>1, <1>2, <1>3 DEF RouteTypes, Steps
  <1>5. /\ \A o \in Objects : Taken(o) => Taken(o)'
        /\ \A o \in Objects : Over(o) => Over(o)'
    BY <1>2 DEF Taken, Over, Objects, Steps, Ending
  <1>6. RouteIsUsable'
    BY <1>1, <1>2, <1>3 DEF RouteIsUsable, RouteWasTaken
  <1>7. Taken(route.object)'
    BY <1>1, <1>2, <1>5 DEF RouteWasTaken, RouteTypes, Taken
  <1>8. \A o \in closedProviders' : Over(o)'
    BY <1>1, <1>2, <1>3, <1>5 DEF RouteWasTaken, RouteTypes, Taken, Over
  <1>9. \A s \in Requests : work'[s].pc = "committed" =>
            Taken(work[s].previous)' /\ work'[s].previous # route'.object
    <2> SUFFICES ASSUME NEW s \in Requests, work'[s].pc = "committed"
                 PROVE  Taken(work[s].previous)' /\ work'[s].previous # route'.object
      OBVIOUS
    <2>1. work'[s] = work[s]
      BY <1>2 DEF Steps
    <2>2. work[s].previous \in Objects /\ Taken(work[s].previous)
          /\ work[s].previous # route.object
      BY <1>1, <2>1 DEF RouteWasTaken, RouteTypes, Works
    <2> QED
      BY <1>2, <1>5, <2>1, <2>2 DEF Taken
  <1>10. RouteWasTaken'
    BY <1>1, <1>2, <1>7, <1>8, <1>9 DEF RouteWasTaken, Taken, Over
  <1> QED
    BY <1>4, <1>6, <1>10 DEF RouteInv

-----------------------------------------------------------------------------
\* A task that is created has taken nothing yet.
LEMMA CreatedKeeps ==
    ASSUME MaxRequests \in Nat, RouteInv, NEW r \in Requests,
           NEW kind \in {"refresh", "unload"}, NEW explicit \in BOOLEAN, NEW e \in Nat,
           work[r].pc \in {"none", "starting"}, Created(r, kind, explicit, e),
           epoch' \in Nat, route' = route,
           UNCHANGED <<turn, closedProviders>>
    PROVE  RouteInv'
PROOF
  <1> DEFINE new == Work(kind, "lock", e, explicit, route.object)
  <1>1. RouteTypes
    BY DEF RouteInv
  <1>2. new \in Works /\ new.pc = "lock"
    BY <1>1, NewWork DEF RouteTypes
  <1>3. work' = [work EXCEPT ![r] = new] /\ currentTask' = r
    BY DEF Created
  <1> HIDE DEF new
  <1>4. /\ work' \in [Requests -> Works] /\ work'[r].pc = "lock"
        /\ \A s \in Requests \ {r} : work'[s] = work[s]
    BY <1>1, <1>2, <1>3 DEF RouteTypes
  <1>5. RouteTypes'
    BY <1>1, <1>3, <1>4 DEF RouteTypes, Objects
  <1>6. Undisturbed
    BY <1>4 DEF Undisturbed, Ending
  <1> QED
    BY <1>5, <1>6, UndisturbedKeeps

\* Cancelling a task that has taken the route leaves what it replaced open.
LEMMA CancelKeeps ==
    ASSUME MaxRequests \in Nat, RouteInv, CancelCurrent
    PROVE  RouteInv'
PROOF
  <1>1. RouteTypes /\ currentTask \in Requests /\ work[currentTask].pc # "done"
    BY DEF RouteInv, RouteTypes, CancelCurrent, Live, Objects
  <1>2. CASE InAdapter(currentTask)
    <2>1. Steps(currentTask, "unwind")
      BY <1>1, <1>2, AtFacts DEF CancelCurrent, CancelWork, WorkPcs
    <2> QED
      BY <1>1, <1>2, <2>1, TaskKeeps DEF CancelCurrent, InAdapter, WorkPcs, Ending
  <1>3. CASE ~InAdapter(currentTask)
    <2>1. Steps(currentTask, "done")
      BY <1>1, <1>3, FinishedFacts DEF CancelCurrent, CancelWork
    <2> QED
      BY <1>1, <2>1, TaskKeeps DEF CancelCurrent, WorkPcs, Ending
  <1> QED
    BY <1>2, <1>3

\* A new request, which makes all others old.
LEMMA RequestKeeps ==
    ASSUME MaxRequests \in Nat, RouteInv, NEW r \in NextRequest, NEW explicit \in BOOLEAN,
           RequestRefresh(r, explicit)
    PROVE  RouteInv'
PROOF
  <1>1. RouteTypes /\ r \in Requests /\ work[r].pc = "none" /\ epoch' = epoch + 1
        /\ UNCHANGED <<route, turn, closedProviders>>
    BY DEF RouteInv, NextRequest, RequestRefresh
  <1>2. epoch' \in Nat
    BY <1>1 DEF RouteTypes
  <1>3. CASE ~Live(currentTask)
    <2>1. Created(r, "refresh", explicit, epoch')
      BY <1>3 DEF RequestRefresh
    <2> QED
      BY <1>1, <1>2, <2>1, CreatedKeeps
  <1>4. CASE Live(currentTask)
    <2> DEFINE c == currentTask
               pc == IF InAdapter(c) THEN "unwind" ELSE "done"
               new == Work("refresh", "starting", epoch', explicit, c)
               ended == [work[c] EXCEPT !.pc = pc]
    <2>1. c \in Requests /\ c # r /\ c \in Objects
      BY <1>1, <1>4 DEF Live, RouteTypes, Objects
    <2>2. new \in Works /\ new.pc = "starting"
      BY <1>2, <2>1, NewWork
    <2>3. ended \in Works /\ ended.pc = pc /\ pc \in {"unwind", "done"}
      <3>1. work[c] \in Works /\ pc \in {"unwind", "done"}
        BY <1>1, <2>1 DEF RouteTypes
      <3> HIDE DEF c, pc
      <3> QED
        BY <3>1 DEF Works, WorkPcs, Ending
    <2>4. work' = [work EXCEPT ![c] = ended, ![r] = new]
      BY <1>4 DEF RequestRefresh
    <2>5. work[c].pc \in Ending \cup {"committed"} => pc = "done"
      BY DEF InAdapter, Ending
    <2>6. currentTask' = currentTask
      BY <1>4 DEF RequestRefresh
    <2> HIDE DEF c, pc, new, ended
    <2>7. /\ work' \in [Requests -> Works]
          /\ work'[c].pc = pc /\ work'[r].pc = "starting"
          /\ \A s \in Requests \ {r, c} : work'[s] = work[s]
      BY <1>1, <2>1, <2>2, <2>3, <2>4 DEF RouteTypes
    <2>8. RouteTypes'
      BY <1>1, <1>2, <2>6, <2>7 DEF RouteTypes
    <2>9. Undisturbed
      BY <1>1, <2>1, <2>3, <2>5, <2>7 DEF Undisturbed, Ending
    <2> QED
      BY <2>8, <2>9, UndisturbedKeeps
  <1> QED
    BY <1>3, <1>4

\* Turns take the route as it is and give it a model.
LEMMA TurnsKeep ==
    ASSUME MaxRequests \in Nat, RouteInv, SubmitTurn \/ SelectModel \/ TurnEnds
    PROVE  RouteInv'
PROOF
  <1>1. RouteTypes /\ RouteWasTaken /\ RouteIsUsable
    BY DEF RouteInv
  <1>2. UNCHANGED <<work, currentTask, epoch, closedProviders>>
    BY DEF SubmitTurn, SelectModel, TurnEnds
  <1>3. /\ route' \in [object : Objects, model : BOOLEAN]
        /\ route'.object = route.object
    BY <1>1 DEF SubmitTurn, SelectModel, TurnEnds, RouteTypes
  <1>4. /\ turn' \in [active : BOOLEAN, object : Objects, model : BOOLEAN, fenced : BOOLEAN]
        /\ turn'.active => turn'.object = route.object
    <2>1. CASE SubmitTurn
      BY <1>1, <2>1 DEF SubmitTurn, RouteTypes
    <2>2. CASE turn' = NoTurn
      BY <2>2 DEF NoTurn, Objects
    <2>3. CASE turn.active /\ turn' = [turn EXCEPT !.model = TRUE]
      BY <1>1, <2>3 DEF RouteTypes, RouteWasTaken
    <2> QED
      BY <2>1, <2>2, <2>3 DEF SelectModel, TurnEnds
  <1>5. RouteTypes'
    BY <1>1, <1>2, <1>3, <1>4 DEF RouteTypes
  <1>6. RouteIsUsable'
    BY <1>1, <1>2, <1>3, <1>4 DEF RouteIsUsable
  <1>7. RouteWasTaken'
    BY <1>1, <1>2, <1>3, <1>4 DEF RouteWasTaken, Taken, Over
  <1> QED
    BY <1>5, <1>6, <1>7 DEF RouteInv

-----------------------------------------------------------------------------
\* Nothing is routed yet.
LEMMA RefreshInitHolds == ProviderInit => RouteInv
PROOF
  <1> SUFFICES ASSUME ProviderInit
               PROVE  RouteInv
    OBVIOUS
  <1>1. \A r \in Requests : work[r] \in Works /\ work[r].pc = "none"
    BY DEF ProviderInit, NoWork, Work, Works, WorkPcs, Objects
  <1>2. RouteTypes
    BY <1>1 DEF ProviderInit, RouteTypes, Objects, NoTurn
  <1>3. RouteWasTaken /\ RouteIsUsable
    BY <1>1 DEF ProviderInit, RouteWasTaken, RouteIsUsable, Taken, NoTurn
  <1> QED
    BY <1>2, <1>3 DEF RouteInv

\* Every step of requests, turns and those who cancel them keeps the route usable.
LEMMA RefreshStepKeeps ==
    ASSUME MaxRequests \in Nat, RouteInv, [ProviderNext]_providerVars
    PROVE  RouteInv'
PROOF
  <1>1. ASSUME NEW r \in NextRequest, RequestUnload(r)
        PROVE  RouteInv'
    <2>1. r \in Requests /\ work[r].pc = "none" /\ epoch \in Nat
      BY DEF RouteInv, RouteTypes, NextRequest
    <2>2. epoch' = epoch + 1
      BY <1>1 DEF RequestUnload
    <2>3. epoch' \in Nat
      BY <2>1, <2>2
    <2>4. Created(r, "unload", TRUE, epoch') /\ UNCHANGED <<route, turn, closedProviders>>
      BY <1>1 DEF RequestUnload
    <2> QED
      BY <2>1, <2>3, <2>4, CreatedKeeps
  <1>2. ASSUME NEW r \in NextRequest, NEW e \in BOOLEAN, RequestRefresh(r, e)
        PROVE  RouteInv'
    BY <1>2, RequestKeeps
  <1>3. ASSUME NEW r \in Requests, StartAwaited(r)
        PROVE  RouteInv'
    <2>1. work[r].explicit \in BOOLEAN /\ work[r].epoch \in Nat /\ epoch \in Nat
      BY DEF RouteInv, RouteTypes, Works
    <2> QED
      BY <1>3, <2>1, CreatedKeeps DEF StartAwaited
  <1>4. ASSUME NEW r \in Requests, WorkStep(r), ~StartAwaited(r)
        PROVE  RouteInv'
    BY <1>4, OnItsWayKeeps, ScanKeeps, RefreshCommitKeeps, ClosePreviousKeeps DEF WorkStep
  <1>5. CASE CancelCurrent \/ SubmitTurn \/ SelectModel \/ TurnEnds
    BY <1>5, CancelKeeps, TurnsKeep
  <1>6. CASE UNCHANGED providerVars
    BY <1>6 DEF providerVars, RouteInv, RouteTypes, RouteWasTaken, RouteIsUsable, Taken, Over
  <1> QED
    BY <1>1, <1>2, <1>3, <1>4, <1>5, <1>6 DEF ProviderNext

\* Neither the route nor the response that runs names a provider that was closed
\* (runtime.py _perform_provider_refresh).
THEOREM RouteStaysUsable ==
    ASSUME MaxRequests \in Nat
    PROVE  ProviderSpec => []RouteIsUsable
PROOF
  <1>1. RouteInv /\ [ProviderNext]_providerVars => RouteInv'
    BY RefreshStepKeeps
  <1>2. RouteInv => RouteIsUsable
    BY DEF RouteInv
  <1> QED
    BY RefreshInitHolds, <1>1, <1>2, PTL DEF ProviderSpec

-----------------------------------------------------------------------------
(* The model route: its types, and what the epoch counts *)

\* Who gives the lock up leaves a queue of requests.
LEMMA LockGoesOn ==
    ASSUME refreshLock \in Seq(Requests), NEW r \in Requests,
           \/ refreshLock' = refreshLock
           \/ refreshLock' = Append(refreshLock, r)
           \/ refreshLock' = Only(refreshLock, Requests \ {r})
    PROVE  refreshLock' \in Seq(Requests)
PROOF
  BY OnlySelects, AppendProperties

\* The route changes hands only when a task takes it.
LEMMA TakenOrKept ==
    ASSUME RouteTypes, NEW r \in Requests, WorkStep(r)
    PROVE  \/ route'.object = route.object
           \/ route'.object = r /\ TakeRoute(r)
PROOF
  <1>1. CASE TakeRoute(r)
    BY <1>1 DEF TakeRoute
  <1>2. CASE ~TakeRoute(r)
    <2>1. route' = route \/ route' = [route EXCEPT !.model = FALSE]
      BY <1>2 DEF WorkStep, StartAwaited, Announce, Announced, ScanRetries, RetryDelayPasses,
         ScanIsStale, StaleIsClosed, ScanFails, ScanFindsNothing, Unavailable, FoundIsClosed,
         ScanIsRefused, RefusedIsClosed, ClosePrevious, Unwound, UnloadGivenUp, UnloadReturns,
         UnloadIsStale, Reported, Drops
    <2> QED
      BY <2>1 DEF RouteTypes
  <1> QED
    BY <1>1, <1>2

\* A task on its way is one that was counted, and keeps its epoch.
LEMMA TaskStaysCounted ==
    ASSUME RouteTypes, RequestsAreCounted, NEW r \in Requests, WorkStep(r), ~StartAwaited(r)
    PROVE  RequestsAreCounted'
PROOF
  <1>1. /\ work[r].pc # "none" /\ epoch' = epoch
        /\ work \in [Requests -> Works] /\ work[r] \in Works
    BY DEF RouteTypes, WorkStep, Announce, Announced, ScanRetries, RetryDelayPasses, ScanIsStale,
           StaleIsClosed, ScanFails, ScanFindsNothing, Unavailable, FoundIsClosed, ScanIsRefused,
           RefusedIsClosed, TakeRoute, ClosePrevious, Unwound, UnloadReturns, UnloadIsStale,
           Reported, Running
  <1>2. refreshLock' = refreshLock \/ refreshLock' = Only(refreshLock, Requests \ {r})
    BY DEF WorkStep, Announce, Announced, ScanRetries, RetryDelayPasses, ScanIsStale,
           StaleIsClosed, ScanFails, ScanFindsNothing, Unavailable, FoundIsClosed, ScanIsRefused,
           RefusedIsClosed, TakeRoute, ClosePrevious, Unwound, UnloadGivenUp, UnloadReturns,
           UnloadIsStale, Reported, At, Finished
  <1>3. fence' \in Fences
    BY DEF WorkStep, Announce, Announced, ScanRetries, RetryDelayPasses, ScanIsStale,
           StaleIsClosed, ScanFails, ScanFindsNothing, Unavailable, FoundIsClosed, ScanIsRefused,
           RefusedIsClosed, TakeRoute, ClosePrevious, Unwound, UnloadGivenUp, UnloadReturns,
           UnloadIsStale, Reported, Drops, RequestsAreCounted, Fences
  <1>4. /\ \A s \in Requests \ {r} : work'[s] = work[s]
        /\ work'[r].pc # "none" /\ work'[r].epoch = work[r].epoch
    <2>1. CASE \E pc : pc # "none" /\ work' = [work EXCEPT ![r].pc = pc]
      BY <1>1, <2>1 DEF Works
    <2>2. CASE ScanRetries(r)
      BY <1>1, <2>2 DEF ScanRetries, Works
    <2>3. CASE TakeRoute(r)
      BY <1>1, <2>3 DEF TakeRoute, Works
    <2>4. ScanRetries(r) \/ TakeRoute(r) \/ \E pc : pc # "none" /\ work' = [work EXCEPT ![r].pc = pc]
      BY DEF WorkStep, Announce, Announced, RetryDelayPasses, ScanIsStale, StaleIsClosed,
             ScanFails, ScanFindsNothing, Unavailable, FoundIsClosed, ScanIsRefused,
             RefusedIsClosed, ClosePrevious, Unwound, UnloadGivenUp, UnloadReturns,
             UnloadIsStale, Reported, At, Finished
    <2> QED
      BY <2>1, <2>2, <2>3, <2>4
  <1>5. refreshLock' \in Seq(Requests)
    BY <1>2, LockGoesOn DEF RequestsAreCounted
  <1>6. route'.object \in {route.object, r}
    BY TakenOrKept
  <1>7. route'.object <= epoch'
    <2>1. r <= epoch
      BY <1>1 DEF RequestsAreCounted, RouteTypes, Requests
    <2> QED
      BY <1>1, <1>6, <2>1 DEF RequestsAreCounted
  <1> QED
    BY <1>1, <1>3, <1>4, <1>5, <1>7 DEF RequestsAreCounted

\* A new request is the next number, and the epoch becomes it.
LEMMA NextIsCounted ==
    ASSUME MaxRequests \in Nat, RouteTypes, RequestsAreCounted, NEW r \in NextRequest
    PROVE  r = epoch + 1 /\ r \in Requests /\ r \in Nat /\ epoch \in Nat
PROOF
  <1>1. /\ r \in Requests /\ work[r].pc = "none" /\ \A s \in 1 .. r - 1 : work[s].pc # "none"
        /\ epoch \in Nat /\ r \in Nat /\ r \in 1 .. MaxRequests
    BY DEF NextRequest, RouteTypes, Requests
  <1>2. epoch < r
    BY <1>1 DEF RequestsAreCounted
  <1>3. ASSUME epoch + 1 < r PROVE FALSE
    <2>1. epoch + 1 \in 1 .. r - 1 /\ epoch + 1 \in Requests
      BY <1>1, <1>3 DEF Requests
    <2> QED
      BY <1>1, <2>1 DEF RequestsAreCounted
  <1> QED
    BY <1>1, <1>2, <1>3

\* Whatever happens, the epoch is the number of requests there were.
LEMMA RequestsStayCounted ==
    ASSUME MaxRequests \in Nat, RouteInv, RequestsAreCounted, [ProviderNext]_providerVars
    PROVE  RequestsAreCounted'
PROOF
  <1>1. /\ RouteTypes /\ work \in [Requests -> Works] /\ epoch \in Nat /\ currentTask \in Objects
        /\ \A r \in Requests : work[r].epoch \in Nat /\ r \in Nat
        /\ route.object \in Nat
    BY DEF RouteInv, RouteTypes, Works, Requests, Objects
  <1>2. ASSUME NEW r \in Requests, NEW kind,
               \E x \in BOOLEAN : Created(r, kind, x, r), fence' \in Fences, epoch' <= MaxRequests,
               route' = route,
               \/ r = epoch + 1 /\ epoch' = epoch + 1
               \/ work[r].pc # "none" /\ epoch' = epoch
        PROVE  RequestsAreCounted'
    <2>1. /\ \A s \in Requests \ {r} : work'[s] = work[s]
          /\ work'[r].pc # "none" /\ work'[r].epoch = r
      BY <1>1, <1>2 DEF Created, Work
    <2>2. refreshLock' \in Seq(Requests)
      BY <1>2, LockGoesOn DEF Created, RequestsAreCounted
    <2>3. \A s \in Requests : /\ work'[s].pc = "none" <=> epoch' < s
                              /\ work'[s].epoch = IF epoch' < s THEN 0 ELSE s
      BY <1>1, <1>2, <2>1 DEF RequestsAreCounted
    <2>4. route'.object <= epoch'
      BY <1>1, <1>2 DEF RequestsAreCounted
    <2> QED
      BY <1>2, <2>2, <2>3, <2>4 DEF RequestsAreCounted
  <1>3. ASSUME NEW r \in NextRequest, RequestUnload(r)
        PROVE  RequestsAreCounted'
    <2>1. /\ r = epoch + 1 /\ r \in Requests /\ epoch' = epoch + 1 /\ fence' = "unloading"
          /\ route' = route
          /\ Created(r, "unload", TRUE, epoch')
      BY <1>1, <1>3, NextIsCounted DEF RequestUnload
    <2>2. fence' \in Fences /\ epoch' <= MaxRequests /\ epoch' \in Nat
      BY <1>1, <2>1 DEF Fences, Requests
    <2>3. \E x \in BOOLEAN : Created(r, "unload", x, r)
      BY <2>1
    <2> QED
      BY <1>2, <2>1, <2>2, <2>3
  <1>4. ASSUME NEW r \in NextRequest, NEW explicit \in BOOLEAN, RequestRefresh(r, explicit)
        PROVE  RequestsAreCounted'
    <2>1. /\ r = epoch + 1 /\ r \in Requests /\ epoch' = epoch + 1 /\ fence' = fence
          /\ route' = route
      BY <1>1, <1>4, NextIsCounted DEF RequestRefresh
    <2>2. fence' \in Fences /\ epoch' <= MaxRequests /\ epoch' \in Nat
      BY <1>1, <2>1 DEF Requests, RequestsAreCounted
    <2>3. CASE ~Live(currentTask)
      <3>1. Created(r, "refresh", explicit, epoch')
        BY <1>4, <2>3 DEF RequestRefresh
      <3> QED
        BY <1>2, <2>1, <2>2, <3>1
    <2>4. CASE Live(currentTask)
      <3> DEFINE c == currentTask
                 pc == IF InAdapter(c) THEN "unwind" ELSE "done"
                 new == Work("refresh", "starting", epoch', explicit, c)
      <3>1. /\ work' = [work EXCEPT ![c].pc = pc, ![r] = new]
            /\ refreshLock' = refreshLock \/ refreshLock' = Only(refreshLock, Requests \ {c})
        BY <1>4, <2>4 DEF RequestRefresh
      <3>2. c \in Requests /\ work[c].pc # "none" /\ work[c] \in Works
        BY <1>1, <2>4 DEF Live, Objects
      <3>3. c # r
        BY <1>1, <2>1, <3>2 DEF RequestsAreCounted
      <3>4. pc # "none" /\ new.pc # "none" /\ new.epoch = epoch'
        BY DEF Work
      <3> HIDE DEF pc, new
      <3>5. /\ \A s \in Requests \ {r, c} : work'[s] = work[s]
            /\ work'[r] = new /\ work'[c].pc = pc /\ work'[c].epoch = work[c].epoch
        BY <1>1, <2>1, <3>1, <3>2, <3>3 DEF Works
      <3>6. refreshLock' \in Seq(Requests)
        BY <3>1, <3>2, LockGoesOn DEF RequestsAreCounted
      <3>7. \A s \in Requests : /\ work'[s].pc = "none" <=> epoch' < s
                                /\ work'[s].epoch = IF epoch' < s THEN 0 ELSE s
        BY <1>1, <2>1, <3>2, <3>3, <3>4, <3>5 DEF RequestsAreCounted
      <3>8. route'.object <= epoch'
        BY <1>1, <2>1 DEF RequestsAreCounted
      <3> QED
        BY <2>2, <3>6, <3>7, <3>8 DEF RequestsAreCounted
    <2> QED
      BY <2>3, <2>4
  <1>5. ASSUME NEW r \in Requests, StartAwaited(r)
        PROVE  RequestsAreCounted'
    <2>1. /\ work[r].pc = "starting" /\ epoch' = epoch /\ fence' = fence /\ route' = route
          /\ Created(r, "refresh", work[r].explicit, work[r].epoch)
      BY <1>5 DEF StartAwaited
    <2>2. fence' \in Fences /\ epoch' <= MaxRequests /\ work[r].epoch = r
      BY <1>1, <2>1 DEF RequestsAreCounted
    <2>3. \E x \in BOOLEAN : Created(r, "refresh", x, r)
      <3>1. work[r].explicit \in BOOLEAN
        BY <1>1 DEF Works
      <3> QED
        BY <2>1, <2>2, <3>1
    <2> QED
      BY <1>2, <2>1, <2>2, <2>3
  <1>6. ASSUME NEW r \in Requests, WorkStep(r), ~StartAwaited(r)
        PROVE  RequestsAreCounted'
    BY <1>1, <1>6, TaskStaysCounted
  <1>7. CASE CancelCurrent
    <2> DEFINE c == currentTask
    <2>1. /\ c \in Requests /\ work[c].pc # "none" /\ work[c] \in Works
          /\ epoch' = epoch /\ fence' = fence /\ route' = route
      BY <1>1, <1>7 DEF CancelCurrent, Live, Objects
    <2>2. \E pc : pc # "none" /\ work' = [work EXCEPT ![c].pc = pc]
      BY <1>7 DEF CancelCurrent, CancelWork, At, Finished
    <2>3. refreshLock' = refreshLock \/ refreshLock' = Only(refreshLock, Requests \ {c})
      BY <1>7 DEF CancelCurrent, CancelWork, At, Finished
    <2>4. refreshLock' \in Seq(Requests)
      BY <2>1, <2>3, LockGoesOn DEF RequestsAreCounted
    <2>5. /\ \A s \in Requests \ {c} : work'[s] = work[s]
          /\ work'[c].pc # "none" /\ work'[c].epoch = work[c].epoch
      BY <1>1, <2>1, <2>2 DEF Works
    <2> QED
      BY <2>1, <2>4, <2>5 DEF RequestsAreCounted
  <1>8. CASE SubmitTurn \/ SelectModel \/ TurnEnds \/ UNCHANGED providerVars
    <2>1. UNCHANGED <<work, epoch, refreshLock, fence>> /\ route'.object = route.object
      BY <1>1, <1>8 DEF SubmitTurn, SelectModel, TurnEnds, providerVars, RouteTypes
    <2> QED
      BY <2>1 DEF RequestsAreCounted
  <1> QED
    BY <1>3, <1>4, <1>5, <1>6, <1>7, <1>8 DEF ProviderNext

\* Nothing was asked for yet.
LEMMA NoRequestIsCounted ==
    ASSUME MaxRequests \in Nat, ProviderInit
    PROVE  RequestsAreCounted
PROOF
  <1>1. refreshLock \in Seq(Requests)
    BY EmptySeq DEF ProviderInit
  <1> QED
    BY <1>1 DEF ProviderInit, RequestsAreCounted, NoWork, Work, Requests, Fences

\* What is counted is typed.
LEMMA ProviderIsTyped ==
    ASSUME MaxRequests \in Nat, RouteInv, RequestsAreCounted
    PROVE  ProviderTypeInv
PROOF
  <1>1. /\ epoch \in Nat /\ \A r \in Requests : work[r].epoch \in Nat
        /\ currentTask \in Objects /\ Objects = 0 .. MaxRequests
    BY DEF RouteInv, RouteTypes, Works, Objects, Requests
  <1>2. \A r \in Requests : work[r].epoch \in 0 .. MaxRequests
    BY <1>1 DEF RequestsAreCounted, Requests
  <1>3. ToSet(refreshLock) \subseteq Requests
    BY ElementOfSeq, LenProperties DEF RequestsAreCounted, ToSet
  <1> QED
    BY <1>1, <1>2, <1>3 DEF ProviderTypeInv, RouteInv, RouteTypes, RequestsAreCounted

\* A result of an overtaken request, however late it comes, does not bring the route
\* back to what that request found (runtime.py _perform_provider_refresh,
\* _provider_refresh_epoch).
THEOREM LateResultsAreNotAdopted ==
    ASSUME MaxRequests \in Nat
    PROVE  ProviderSpec => LateResultsAdoptNoRoute
PROOF
  <1>1. RouteInv /\ RequestsAreCounted /\ [ProviderNext]_providerVars =>
            RouteInv' /\ RequestsAreCounted'
    BY RefreshStepKeeps, RequestsStayCounted
  <1>2. RouteInv /\ RequestsAreCounted /\ [ProviderNext]_providerVars =>
            [route'.object # route.object => route'.object > route.object]_providerVars
    <2> SUFFICES ASSUME RouteInv, RequestsAreCounted, ProviderNext,
                        route'.object # route.object
                 PROVE  route'.object > route.object
      OBVIOUS
    <2>1. RouteTypes /\ epoch \in Nat /\ route.object \in Nat
      BY DEF RouteInv, RouteTypes, Objects, Requests
    <2>2. PICK r \in Requests : WorkStep(r)
      BY <2>1 DEF ProviderNext, RequestUnload, RequestRefresh, CancelCurrent, SubmitTurn,
                  SelectModel, TurnEnds, RouteTypes
    <2>3. route'.object = r /\ work[r].pc = "scan" /\ work[r].epoch = epoch
      BY <2>1, <2>2, TakenOrKept DEF TakeRoute, Running
    <2>4. r = epoch
      BY <2>1, <2>3 DEF RequestsAreCounted, Requests
    <2> QED
      BY <2>1, <2>3, <2>4 DEF RequestsAreCounted
  <1>3. ProviderInit => RouteInv /\ RequestsAreCounted
    BY RefreshInitHolds, NoRequestIsCounted
  <1> QED
    BY <1>1, <1>2, <1>3, PTL DEF ProviderSpec, LateResultsAdoptNoRoute

-----------------------------------------------------------------------------
(* Speech recognition *)

\* The invariant holds before the core is put together.
LEMMA RecognitionStarts == Stt!SttInit => Stt!RecognitionInv
PROOF
  <1> SUFFICES ASSUME Stt!SttInit
               PROVE  Stt!RecognitionInv
    OBVIOUS
  <1>1. Stt!NewStream \in Stt!Utterance
    BY DEF Stt!NewStream, Stt!Utterance
  <1>2. Stt!StreamTypes
    BY <1>1 DEF Stt!SttInit, Stt!StreamTypes
  <1> QED
    BY <1>2 DEF Stt!SttInit, Stt!RecognitionInv, Stt!ServerIsStoppedWithSam,
       Stt!LanguageHasEvidence, Stt!ServerIsNotStarted

\* A stream that is done stays as it is, so what was heard keeps its evidence.
LEMMA EvidenceStays ==
    ASSUME Stt!StreamTypes, Stt!LanguageHasEvidence, NEW s \in Streams, streams[s].at # "done",
           NEW r, Stt!Set(s, r), recent' = recent
    PROVE  Stt!LanguageHasEvidence'
PROOF
  <1>1. \A t \in Streams \ {s} : streams'[t] = streams[t]
    BY DEF Stt!Set, Stt!StreamTypes
  <1>2. CASE recent = "none"
    BY <1>2 DEF Stt!LanguageHasEvidence
  <1>3. CASE recent # "none"
    <2>1. PICK t \in Streams : /\ streams[t].at = "done" /\ Stt!Evidence(streams[t])
                               /\ streams[t].detected = recent
      BY <1>3 DEF Stt!LanguageHasEvidence
    <2>2. streams'[t] = streams[t]
      BY <1>1, <2>1
    <2> QED
      BY <2>1, <2>2 DEF Stt!LanguageHasEvidence, Stt!Evidence
  <1> QED
    BY <1>2, <1>3

\* An utterance that is answered for good leaves the language of the
\* conversation, or is the evidence of the new one.
LEMMA HeardHasEvidence ==
    ASSUME Stt!StreamTypes, Stt!LanguageHasEvidence, NEW s \in Streams, streams[s].at # "done",
           NEW r \in Stt!Utterance, r.at = "done", Stt!Set(s, r), recent' = Stt!Heard(r)
    PROVE  Stt!LanguageHasEvidence'
PROOF
  <1>1. CASE ~Stt!Evidence(r)
    BY <1>1, EvidenceStays DEF Stt!Heard
  <1>2. CASE Stt!Evidence(r)
    <2>1. streams'[s] = r /\ recent' = r.detected
      BY <1>2 DEF Stt!Set, Stt!StreamTypes, Stt!Heard
    <2>2. r.at = "done" /\ Stt!Evidence(r)'
      BY <1>2 DEF Stt!Evidence
    <2> QED
      BY <1>2, <2>1 DEF Stt!LanguageHasEvidence, Stt!Evidence
  <1> QED
    BY <1>1, <1>2

\* Every step of a stream, of the server and of the core keeps both.
LEMMA RecognitionStep == Stt!RecognitionInv /\ [Stt!SttNext]_sttVars => Stt!RecognitionInv'
PROOF
  <1> SUFFICES ASSUME Stt!RecognitionInv, [Stt!SttNext]_sttVars
               PROVE  Stt!RecognitionInv'
    OBVIOUS
  <1> USE DEF Stt!RecognitionInv
  <1>1. ASSUME UNCHANGED <<recent, streams>>
        PROVE  Stt!StreamTypes' /\ Stt!LanguageHasEvidence'
    BY <1>1 DEF Stt!StreamTypes, Stt!LanguageHasEvidence, Stt!Evidence
  <1>2. ASSUME UNCHANGED Stt!serverVars
        PROVE  Stt!ServerIsStoppedWithSam' /\ Stt!ServerIsNotStarted'
    BY <1>2 DEF Stt!serverVars, Stt!ServerIsStoppedWithSam, Stt!ServerIsNotStarted
  <1>3. CASE Stt!Probe \/ Stt!Launch \/ Stt!ServiceAppears \/ Stt!ChildExits \/ Stt!PollsReady \/ Stt!StartupFails
             \/ Stt!Close \/ Stt!Terminate \/ Stt!Stopped
    <2>1. Stt!ServerIsStoppedWithSam' /\ Stt!ServerIsNotStarted'
      BY <1>3 DEF Stt!Probe, Stt!Launch, Stt!ServiceAppears, Stt!ChildExits, Stt!PollsReady, Stt!StartupFails,
         Stt!AbandonsStartup, Stt!Close, Stt!Terminate, Stt!Stopped, Stt!ServerIsStoppedWithSam, Stt!ServerIsNotStarted
    <2> QED
      BY <1>1, <1>3, <2>1 DEF Stt!Probe, Stt!Launch, Stt!ServiceAppears, Stt!ChildExits, Stt!PollsReady, Stt!StartupFails,
         Stt!AbandonsStartup, Stt!Close, Stt!Terminate, Stt!Stopped
  <1>4. ASSUME NEW s \in Streams, NEW r \in Stt!Utterance, streams[s].at # "done", Stt!Set(s, r),
               \/ recent' = recent
               \/ r.at = "done" /\ recent' = Stt!Heard(r)
        PROVE  Stt!StreamTypes' /\ Stt!LanguageHasEvidence'
    <2>1. Stt!StreamTypes'
      BY <1>4 DEF Stt!StreamTypes, Stt!Set
    <2> QED
      BY <1>4, <2>1, EvidenceStays, HeardHasEvidence
  <1>5. ASSUME NEW s \in Streams, NEW auto \in BOOLEAN, Stt!StartStream(s, auto)
        PROVE  Stt!RecognitionInv'
    <2>1. [Stt!NewStream EXCEPT !.at = "open", !.auto = auto] \in Stt!Utterance
      BY DEF Stt!NewStream, Stt!Utterance
    <2> QED
      BY <1>2, <1>4, <1>5, <2>1 DEF Stt!StartStream
  <1>6. ASSUME NEW s \in Streams, Stt!PushAudio(s)
        PROVE  Stt!RecognitionInv'
    <2>1. streams[s] \in Stt!Utterance
      BY DEF Stt!StreamTypes
    <2> DEFINE r == IF streams[s].frames = MaxFrames
                    THEN [streams[s] EXCEPT !.at = "failed"]
                    ELSE [streams[s] EXCEPT !.frames = @ + 1]
    <2>2. r \in Stt!Utterance
      BY <2>1 DEF Stt!Utterance
    <2>3. Stt!Set(s, r) /\ streams[s].at # "done" /\ UNCHANGED <<Stt!serverVars, recent>>
      BY <1>6 DEF Stt!PushAudio
    <2> QED
      BY <1>2, <1>4, <2>2, <2>3
  <1>7. ASSUME NEW s \in Streams, Stt!Finalize(s)
        PROVE  Stt!RecognitionInv'
    <2>1. streams[s] \in Stt!Utterance
      BY DEF Stt!StreamTypes
    <2> DEFINE r == [streams[s] EXCEPT !.at = IF streams[s].frames = 0 THEN "failed" ELSE "asking"]
    <2>2. r \in Stt!Utterance
      BY <2>1 DEF Stt!Utterance
    <2>3. Stt!Set(s, r) /\ streams[s].at # "done" /\ UNCHANGED <<Stt!serverVars, recent>>
      BY <1>7 DEF Stt!Finalize
    <2> QED
      BY <1>2, <1>4, <2>2, <2>3
  <1>8. ASSUME NEW s \in Streams, Stt!StreamFails(s)
        PROVE  Stt!RecognitionInv'
    <2>1. streams[s] \in Stt!Utterance
      BY DEF Stt!StreamTypes
    <2> DEFINE r == [streams[s] EXCEPT !.at = "failed", !.frames = 0]
    <2>2. r \in Stt!Utterance
      BY <2>1 DEF Stt!Utterance
    <2>3. Stt!Set(s, r) /\ streams[s].at # "done" /\ UNCHANGED <<Stt!serverVars, recent>>
      BY <1>8 DEF Stt!StreamFails
    <2> QED
      BY <1>2, <1>4, <2>2, <2>3
  <1>9. ASSUME NEW s \in Streams, NEW d \in Languages \cup {"none"}, NEW confident \in BOOLEAN,
               NEW blank \in BOOLEAN, Stt!Answered(s, d, confident, blank)
        PROVE  Stt!RecognitionInv'
    <2>1. streams[s] \in Stt!Utterance
      BY DEF Stt!StreamTypes
    <2> DEFINE r == [streams[s] EXCEPT !.detected = d, !.confident = confident,
                                       !.blank = blank, !.frames = 0]
               again == [r EXCEPT !.at = "again", !.frames = streams[s].frames]
               done == [r EXCEPT !.at = "done"]
    <2>2. again \in Stt!Utterance /\ done \in Stt!Utterance /\ done.at = "done" /\ Stt!Heard(r) = Stt!Heard(done)
      BY <2>1 DEF Stt!Utterance, Stt!Heard, Stt!Evidence
    <2>3. /\ \/ Stt!Set(s, again) /\ recent' = recent
             \/ Stt!Set(s, done) /\ recent' = Stt!Heard(r)
          /\ streams[s].at # "done" /\ UNCHANGED Stt!serverVars
      BY <1>9 DEF Stt!Answered
    <2> HIDE DEF r, again, done
    <2> QED
      BY <1>2, <1>4, <2>2, <2>3
  <1>10. ASSUME NEW s \in Streams, NEW blank \in BOOLEAN, Stt!AnsweredAgain(s, blank)
         PROVE  Stt!RecognitionInv'
    <2>1. streams[s] \in Stt!Utterance
      BY DEF Stt!StreamTypes
    <2> DEFINE r == [streams[s] EXCEPT !.at = "done", !.blank = blank, !.frames = 0]
    <2>2. r \in Stt!Utterance /\ r.at = "done"
      BY <2>1 DEF Stt!Utterance
    <2>3. Stt!Set(s, r) /\ recent' = Stt!Heard(r) /\ streams[s].at # "done" /\ UNCHANGED Stt!serverVars
      BY <1>10 DEF Stt!AnsweredAgain
    <2> QED
      BY <1>2, <1>4, <2>2, <2>3
  <1>11. CASE UNCHANGED sttVars
    BY <1>1, <1>2, <1>11 DEF sttVars, Stt!serverVars
  <1> QED
    BY <1>3, <1>5, <1>6, <1>7, <1>8, <1>9, <1>10, <1>11 DEF Stt!SttNext

-----------------------------------------------------------------------------
(* Local models *)

\* Other programs load no model anew that Sam once loaded (they may start the server
\* anew), and no model has the name of the server.
OthersLoadOnce == ~Replaces /\ "server" \notin Models

\* Nothing is claimed before the core is up.
LEMMA ClaimsStart == Local!LocalInit => Local!ClaimsInv
PROOF
  BY DEF Local!LocalInit, Local!ClaimsInv, Local!LocalTypes, Local!Claims, Local!MadeIsSams,
         Local!IsMade, Local!Unowned, Local!Unseen, Local!Refreshing

\* What a step of anyone does to the server and its models.
WorldStep ==
    \/ UNCHANGED Local!world
    \/ Local!StartsServer
    \/ \E m \in Models : Local!LoadsModel(m) \/ Local!UnloadsModel(m)
    \/ Local!StopsServer
    \/ server = "none" /\ server' = "other" /\ UNCHANGED <<loaded, made>>
    \/ \E m \in Models : /\ loaded[m] = "none" /\ m \notin made
                         /\ loaded' = [loaded EXCEPT ![m] = "other"]
                         /\ UNCHANGED <<server, made>>

\* However they change, no model that Sam loaded becomes another's.
LEMMA WorldKeeps ==
    ASSUME OthersLoadOnce, Local!LocalTypes, Local!MadeIsSams, WorldStep
    PROVE  /\ server' \in {"none", "sam", "other"}
           /\ loaded' \in [Models -> {"none", "sam", "other"}]
           /\ Local!MadeIsSams' /\ made \subseteq made'
PROOF
  <1> USE DEF OthersLoadOnce, Local!LocalTypes, Local!MadeIsSams
  <1>1. CASE UNCHANGED Local!world
    BY <1>1 DEF Local!world
  <1>2. CASE Local!StartsServer
    BY <1>2 DEF Local!StartsServer
  <1>3. CASE \E m \in Models : Local!LoadsModel(m)
    BY <1>3 DEF Local!LoadsModel
  <1>4. CASE \E m \in Models : Local!UnloadsModel(m)
    BY <1>4 DEF Local!UnloadsModel
  <1>5. CASE Local!StopsServer
    BY <1>5 DEF Local!StopsServer
  <1>6. CASE server = "none" /\ server' = "other" /\ UNCHANGED <<loaded, made>>
    BY <1>6
  <1>7. CASE \E m \in Models : /\ loaded[m] = "none" /\ m \notin made
                               /\ loaded' = [loaded EXCEPT ![m] = "other"]
                               /\ UNCHANGED <<server, made>>
    BY <1>7
  <1> QED
    BY <1>1, <1>2, <1>3, <1>4, <1>5, <1>6, <1>7 DEF WorldStep

\* What is remembered of a look and of the ledger, is of what was claimed.
LEMMA RestoredIsMade ==
    ASSUME ledger \in Local!Claims, Local!IsMade(ledger), NEW s, Local!IsMade(s),
           s.started \in BOOLEAN, s.running \in BOOLEAN, s.claims \in SUBSET Models
    PROVE  Local!Restored(s) \in Local!Claims /\ Local!IsMade(Local!Restored(s))
PROOF
  <1> DEFINE r == Local!Restored(s)
  <1>1. ledger.started \in BOOLEAN /\ ledger.claims \in SUBSET Models
    BY DEF Local!Claims
  <1>2. /\ r = [started |-> r.started, claims |-> r.claims]
        /\ r.started = (s.started \/ (ledger.started /\ s.running))
        /\ r.claims = s.claims \cup (ledger.claims \cap s.shown)
    BY DEF Local!Restored
  <1> HIDE DEF r
  <1>3. r.started \in BOOLEAN /\ r.claims \in SUBSET Models
    BY <1>1, <1>2
  <1>4. r \in Local!Claims
    BY <1>2, <1>3 DEF Local!Claims
  <1>5. Local!IsMade(r)
    <2>1. r.claims \subseteq made
      BY <1>2 DEF Local!IsMade
    <2>2. r.started => "server" \in made
      BY <1>1, <1>2 DEF Local!IsMade
    <2> QED
      BY <2>1, <2>2 DEF Local!IsMade
  <1> QED
    BY <1>4, <1>5 DEF r

\* What a task may have seen of the models.
Seen == [model : Models \cup {"none"}, status : {"unknown", "down", "up"},
         running : BOOLEAN, shown : SUBSET Models, started : BOOLEAN,
         claims : SUBSET Models, unload : BOOLEAN, stop : BOOLEAN]

\* A look shows models that are installed.
LEMMA LooksAreTyped ==
    ASSUME NEW look \in Local!Looks
    PROVE  look.running \in BOOLEAN /\ look.shown \in SUBSET Models
PROOF
  <1>1. Local!Shown \subseteq Models
    BY DEF Local!Shown
  <1>2. look = [running |-> FALSE, shown |-> {}] \/ look = [running |-> TRUE, shown |-> Local!Shown]
    BY DEF Local!Looks
  <1>3. CASE look = [running |-> FALSE, shown |-> {}]
    BY <1>3
  <1>4. CASE look = [running |-> TRUE, shown |-> Local!Shown]
    <2>1. look.running = TRUE /\ look.shown = Local!Shown
      BY <1>4
    <2> QED
      BY <1>1, <2>1
  <1> QED
    BY <1>2, <1>3, <1>4

\* A step that keeps what the core's task, its snapshots and the ledger claim to
\* what has been made.
LEMMA ClaimsKept ==
    ASSUME OthersLoadOnce, Local!ClaimsInv, WorldStep,
           seen' \in Seen, held' \in Local!Claims, ledger' \in Local!Claims,
           step' \in Local!Refreshing => seen'.model \in Models,
           step' = "confirming" => seen'.model \in made',
           seen'.claims \subseteq made', seen'.started => "server" \in made',
           held'.claims \subseteq made', held'.started => "server" \in made',
           ledger'.claims \subseteq made', ledger'.started => "server" \in made'
    PROVE  Local!ClaimsInv'
PROOF
  <1>1. /\ server' \in {"none", "sam", "other"}
        /\ loaded' \in [Models -> {"none", "sam", "other"}]
        /\ Local!MadeIsSams' /\ made \subseteq made'
    BY WorldKeeps DEF Local!ClaimsInv
  <1> QED
    BY <1>1 DEF Local!ClaimsInv, Local!LocalTypes, Local!IsMade, Seen

\* Every step of Sam, of the core's ends and of other programs keeps the claims true.
LEMMA ClaimsStep ==
    ASSUME OthersLoadOnce, Local!ClaimsInv, [Local!LocalNext]_localVars
    PROVE  Local!ClaimsInv'
PROOF
  <1>1. /\ seen \in Seen /\ held \in Local!Claims /\ ledger \in Local!Claims
        /\ step \in Local!Refreshing => seen.model \in Models
        /\ step = "confirming" => seen.model \in made
        /\ Local!IsMade(seen) /\ Local!IsMade(held) /\ Local!IsMade(ledger)
        /\ Local!LocalTypes
    BY DEF Local!ClaimsInv, Local!LocalTypes, Seen
  <1>2. Local!Unseen \in Seen /\ Local!IsMade(Local!Unseen)
    BY DEF Local!Unseen, Seen, Local!IsMade
  <1>3. Local!Unowned \in Local!Claims /\ Local!IsMade(Local!Unowned)
    BY DEF Local!Unowned, Local!Claims, Local!IsMade
  <1>4. WorldStep => made \subseteq made'
    BY WorldKeeps DEF Local!ClaimsInv
  \* Steps of the task that has only this to lose.
  <1>5. ASSUME WorldStep, UNCHANGED <<held, ledger>>, seen' \in Seen, Local!IsMade(seen)',
               step' \in Local!Refreshing => seen'.model \in Models,
               step' = "confirming" => seen'.model \in made'
        PROVE  Local!ClaimsInv'
    BY <1>1, <1>4, <1>5, ClaimsKept DEF Local!IsMade
  <1>6. ASSUME WorldStep, UNCHANGED <<held, ledger>>, seen' = Local!Unseen,
               step' \notin Local!Refreshing
        PROVE  Local!ClaimsInv'
    <2>1. Local!Unseen.claims = {} /\ ~Local!Unseen.started
      BY DEF Local!Unseen
    <2>2. Local!IsMade(seen)'
      BY <1>6, <2>1 DEF Local!IsMade
    <2>3. step' # "confirming"
      BY <1>6 DEF Local!Refreshing
    <2> QED
      BY <1>2, <1>5, <1>6, <2>2, <2>3
  \* Steps that only give up claims.
  <1>7. ASSUME WorldStep, held' \in Local!Claims, ledger' \in Local!Claims,
               seen' \in {seen, Local!Unseen}, step' = step \/ step' \notin Local!Refreshing,
               held'.claims \subseteq held.claims, held'.started => held.started,
               ledger'.claims \subseteq ledger.claims, ledger'.started => ledger.started,
               seen' = seen \/ step' \notin Local!Refreshing
        PROVE  Local!ClaimsInv'
    BY <1>1, <1>2, <1>4, <1>7, ClaimsKept DEF Local!IsMade, Local!Refreshing
  <1>8. ASSUME NEW m, NEW own \in Local!Claims
        PROVE  /\ Local!Without(own, m) \in Local!Claims
               /\ Local!Without(own, m).claims \subseteq own.claims
               /\ Local!Without(own, m).started => own.started
    BY DEF Local!Without, Local!Claims
  <1>9. UNCHANGED Local!world => WorldStep
    BY DEF WorldStep
  <1>10. ASSUME NEW look \in Local!Looks
         PROVE  /\ Local!Sees(seen, look) \in Seen /\ Local!Sees(Local!Unseen, look) \in Seen
                /\ Local!Sees(seen, look).model = seen.model
                /\ Local!Sees(seen, look).claims = seen.claims
                /\ Local!Sees(seen, look).started = seen.started
                /\ Local!Sees(Local!Unseen, look).claims = {}
                /\ ~Local!Sees(Local!Unseen, look).started
    BY <1>1, <1>2, LooksAreTyped DEF Local!Sees, Local!Unseen, Seen
  <1>11. CASE Local!CoreStarts
    <2>1. PICK look \in Local!Looks : held' = Local!Restored(Local!Sees(Local!Unseen, look))
      BY <1>11 DEF Local!CoreStarts
    <2>2. held' \in Local!Claims /\ Local!IsMade(held')
      <3> DEFINE s == Local!Sees(Local!Unseen, look)
      <3>1. s.started \in BOOLEAN /\ s.running \in BOOLEAN /\ s.claims \in SUBSET Models
        BY <1>10 DEF Seen
      <3>2. Local!IsMade(s)
        BY <1>10 DEF Local!IsMade
      <3> HIDE DEF s
      <3>3. Local!Restored(s) \in Local!Claims /\ Local!IsMade(Local!Restored(s))
        BY <1>1, <3>1, <3>2, RestoredIsMade
      <3> QED
        BY <2>1, <3>3 DEF s
    <2> QED
      BY <1>1, <1>2, <1>9, <1>11, <2>2, ClaimsKept
      DEF Local!CoreStarts, Local!Goto, Local!world, Local!IsMade, Local!Refreshing, Local!Unseen
  <1>12. ASSUME NEW m \in Models, Local!Refresh(m)
         PROVE  Local!ClaimsInv'
    <2>1. PICK status \in {"unknown", "down", "up"} :
              seen' = [Local!Unseen EXCEPT !.model = m, !.status = status] /\ step' = "probing"
      BY <1>12 DEF Local!Refresh, Local!Goto
    <2>2. seen' \in Seen /\ seen'.model = m /\ Local!IsMade(seen)'
      BY <2>1 DEF Local!Unseen, Seen, Local!IsMade
    <2> QED
      BY <1>5, <1>9, <1>12, <2>1, <2>2 DEF Local!Refresh
  <1>13. CASE Local!Probe
    <2>1. PICK look \in Local!Looks : seen' = Local!Sees(seen, look)
                                      /\ step' = Local!Ahead(Local!Sees(seen, look))
      BY <1>13 DEF Local!Probe, Local!Goto
    <2>2. seen' \in Seen /\ seen'.model = seen.model /\ Local!IsMade(seen)'
      BY <1>1, <1>9, <1>10, <1>13, <2>1 DEF Local!Probe, Local!IsMade, Local!world
    <2>3. seen.model \in Models
      BY <1>1, <1>13 DEF Local!Probe, Local!Refreshing
    <2>4. \A s : Local!Ahead(s) # "confirming"
      BY DEF Local!Ahead
    <2> QED
      BY <1>5, <1>9, <1>13, <2>1, <2>2, <2>3, <2>4 DEF Local!Probe
  <1>14. CASE Local!StartServer
    <2>1. WorldStep /\ UNCHANGED <<held, ledger>>
      BY <1>14 DEF Local!StartServer, WorldStep
    <2>2. seen.model \in Models
      BY <1>1, <1>14 DEF Local!StartServer, Local!Refreshing
    <2>3. CASE Local!StartsServer /\ Local!Goto("waiting", [seen EXCEPT !.started = TRUE])
      <3>1. seen' \in Seen /\ seen'.model = seen.model /\ Local!IsMade(seen)'
        BY <1>1, <2>3 DEF Local!StartsServer, Local!Goto, Seen, Local!IsMade
      <3> QED
        BY <1>5, <2>1, <2>2, <2>3, <3>1 DEF Local!Goto
    <2>4. CASE Local!StartFails
      <3>1. seen' = seen /\ step' = "recording"
        BY <2>4 DEF Local!StartFails, Local!GivesUp, Local!Goto
      <3> QED
        BY <1>1, <1>7, <2>1, <3>1 DEF Local!Refreshing
    <2> QED
      BY <1>14, <2>3, <2>4 DEF Local!StartServer
  <1>15. CASE Local!ReadinessEnds
    BY <1>1, <1>7, <1>9, <1>15 DEF Local!ReadinessEnds, Local!GivesUp, Local!Goto, Local!Refreshing
  <1>16. CASE Local!LoadModel
    <2>1. seen.model \in Models
      BY <1>1, <1>16 DEF Local!LoadModel, Local!Refreshing
    <2>2. WorldStep /\ UNCHANGED <<held, ledger>>
      BY <1>16, <2>1 DEF Local!LoadModel, WorldStep
    <2>3. CASE Local!GivesUp
      BY <1>1, <1>7, <2>2, <2>3 DEF Local!GivesUp, Local!Goto, Local!Refreshing
    <2>4. CASE Local!LoadsModel(seen.model) /\ Local!Goto("confirming", seen)
      <3>1. seen' = seen /\ step' = "confirming" /\ made' = made \cup {seen.model}
        BY <2>4 DEF Local!LoadsModel, Local!Goto
      <3>2. Local!IsMade(seen)'
        BY <1>1, <3>1 DEF Local!IsMade
      <3> QED
        BY <1>1, <1>5, <2>1, <2>2, <3>1, <3>2
    <2> QED
      BY <1>16, <2>3, <2>4 DEF Local!LoadModel
  <1>17. CASE Local!Confirm
    <2>1. PICK look \in Local!Looks :
              LET s == Local!Sees(seen, look) IN
              /\ step' = "recording"
              /\ seen' = IF s.model \in s.shown
                         THEN [s EXCEPT !.claims = @ \cup {s.model}] ELSE s
      BY <1>17 DEF Local!Confirm, Local!Goto
    <2>2. seen.model \in Models /\ seen.model \in made
      BY <1>1, <1>17 DEF Local!Confirm, Local!Refreshing
    <2>3. seen' \in Seen /\ seen'.claims \subseteq seen.claims \cup {seen.model}
          /\ seen'.started = seen.started
      <3> DEFINE s == Local!Sees(seen, look)
      <3>1. s \in Seen /\ s.model = seen.model /\ s.claims = seen.claims /\ s.started = seen.started
        BY <1>10
      <3> HIDE DEF s
      <3>2. seen' = IF s.model \in s.shown THEN [s EXCEPT !.claims = @ \cup {s.model}] ELSE s
        BY <2>1 DEF s
      <3> QED
        BY <2>2, <3>1, <3>2 DEF Seen
    <2>4. Local!IsMade(seen)'
      BY <1>1, <1>17, <2>2, <2>3 DEF Local!IsMade, Local!Confirm, Local!world
    <2> QED
      BY <1>5, <1>9, <1>17, <2>1, <2>3, <2>4 DEF Local!Confirm, Local!Refreshing
  <1>18. CASE Local!Record
    <2> DEFINE own == Local!Restored(seen)
    <2>1. own \in Local!Claims /\ Local!IsMade(own)
      BY <1>1, RestoredIsMade DEF Seen
    <2>2. /\ seen' = Local!Unseen /\ step' = "idle" /\ UNCHANGED Local!world
          /\ ledger' = Local!Proven(own, seen)
          /\ held' \in {Local!Merged(held, own), held}
      BY <1>18 DEF Local!Record, Local!Goto
    <2> HIDE DEF own
    <2>3. ledger' \in Local!Claims /\ ledger'.claims \subseteq own.claims
          /\ (ledger'.started => own.started)
      BY <1>1, <2>1, <2>2 DEF Local!Proven, Local!Claims, Seen
    <2>4. held' \in Local!Claims /\ Local!IsMade(held')
      BY <1>1, <2>1, <2>2 DEF Local!Merged, Local!Claims, Local!IsMade
    <2> QED
      BY <1>1, <1>2, <1>9, <2>1, <2>2, <2>3, <2>4, ClaimsKept
      DEF Local!IsMade, Local!world, Local!Refreshing
  <1>19. CASE Local!CancelRefresh
    <2>1. step = "loading" => seen.model \in Models
      BY <1>1 DEF Local!Refreshing
    <2>2. WorldStep
      BY <1>19, <2>1 DEF Local!CancelRefresh, WorldStep
    <2> QED
      BY <1>6, <1>19, <2>2 DEF Local!CancelRefresh, Local!Goto, Local!Refreshing
  <1>20. ASSUME NEW m \in Models, Local!OwnerUnload(m)
         PROVE  Local!ClaimsInv'
    <2>1. WorldStep
      BY <1>9, <1>20 DEF Local!OwnerUnload
    <2>2. CASE Local!Goto("unloading", [Local!Unseen EXCEPT !.model = m])
               /\ UNCHANGED <<held, ledger>>
      <3>1. seen' \in Seen /\ Local!IsMade(seen)' /\ step' = "unloading"
        BY <2>2 DEF Local!Goto, Local!Unseen, Seen, Local!IsMade
      <3> QED
        BY <1>5, <2>1, <2>2, <3>1 DEF Local!Refreshing
    <2>3. CASE /\ held' = Local!Without(held, m) /\ ledger' = Local!Without(ledger, m)
               /\ UNCHANGED <<step, seen>>
      BY <1>1, <1>7, <1>8, <2>1, <2>3
    <2> QED
      BY <1>20, <2>2, <2>3 DEF Local!OwnerUnload
  <1>21. CASE Local!UnloadModel
    <2>1. WorldStep
      <3>1. Local!UnloadsModel(seen.model) \/ UNCHANGED Local!world
        BY <1>21 DEF Local!UnloadModel
      <3>2. seen.model \notin Models /\ Local!UnloadsModel(seen.model) => UNCHANGED Local!world
        BY <1>1 DEF Local!UnloadsModel, Local!world, Local!LocalTypes
      <3> QED
        BY <3>1, <3>2 DEF WorldStep
    <2> QED
      BY <1>1, <1>7, <1>21, <2>1 DEF Local!UnloadModel, Local!Refreshing
  <1>22. CASE Local!ConfirmUnload
    <2>1. seen' = Local!Unseen /\ step' = "idle" /\ WorldStep
          /\ \/ held' = Local!Without(held, seen.model) /\ ledger' = Local!Without(ledger, seen.model)
             \/ UNCHANGED <<held, ledger>>
      BY <1>9, <1>22 DEF Local!ConfirmUnload, Local!Goto
    <2> QED
      BY <1>1, <1>6, <1>7, <1>8, <2>1 DEF Local!Refreshing
  <1>23. CASE Local!Quit
    <2>1. PICK unload, stop \in BOOLEAN :
              seen' = [Local!Unseen EXCEPT !.unload = unload, !.stop = stop] /\ step' = "closing"
      BY <1>23 DEF Local!Quit, Local!Goto
    <2>2. seen' \in Seen /\ Local!IsMade(seen)'
      BY <2>1 DEF Local!Unseen, Seen, Local!IsMade
    <2> QED
      BY <1>5, <1>9, <1>23, <2>1, <2>2 DEF Local!Quit, Local!Refreshing
  <1>24. ASSUME NEW m \in Models, Local!CloseModel(m)
         PROVE  Local!ClaimsInv'
    <2>1. WorldStep /\ UNCHANGED ledger
      BY <1>9, <1>24 DEF Local!CloseModel
    <2>2. CASE Local!Goto("releasing", [seen EXCEPT !.model = m]) /\ UNCHANGED held
      <3>1. seen' \in Seen /\ step' = "releasing" /\ seen'.claims = seen.claims
            /\ seen'.started = seen.started /\ made' = made
        BY <1>1, <1>24, <2>2 DEF Local!Goto, Seen, Local!CloseModel, Local!world
      <3> QED
        BY <1>1, <1>5, <2>1, <2>2, <3>1 DEF Local!Refreshing, Local!IsMade
    <2>3. CASE held' = Local!Without(held, m) /\ UNCHANGED <<step, seen>>
      BY <1>1, <1>7, <1>8, <2>1, <2>3
    <2> QED
      BY <1>24, <2>2, <2>3 DEF Local!CloseModel
  <1>25. CASE Local!ReleaseModel
    <2>1. WorldStep
      <3>1. Local!UnloadsModel(seen.model) \/ UNCHANGED Local!world
        BY <1>25 DEF Local!ReleaseModel
      <3>2. seen.model \notin Models /\ Local!UnloadsModel(seen.model) => UNCHANGED Local!world
        BY <1>1 DEF Local!UnloadsModel, Local!world, Local!LocalTypes
      <3> QED
        BY <3>1, <3>2 DEF WorldStep
    <2> QED
      BY <1>1, <1>7, <1>8, <1>25, <2>1 DEF Local!ReleaseModel, Local!Goto, Local!Refreshing
  <1>26. CASE Local!CloseServer
    <2>1. WorldStep
      BY <1>26 DEF Local!CloseServer, WorldStep
    <2> QED
      BY <1>1, <1>7, <1>26, <2>1 DEF Local!CloseServer, Local!Claims
  <1>27. CASE Local!QuitEnds
    BY <1>1, <1>3, <1>7, <1>9, <1>27
    DEF Local!QuitEnds, Local!Goto, Local!Unowned, Local!Refreshing
  <1>28. CASE Local!CoreEnds
    BY <1>1, <1>3, <1>7, <1>9, <1>28
    DEF Local!CoreEnds, Local!Goto, Local!Unowned, Local!Refreshing
  <1>29. CASE Local!Outside
    <2>1. WorldStep
      BY <1>29 DEF Local!Outside, WorldStep, OthersLoadOnce
    <2> QED
      BY <1>1, <1>7, <1>29, <2>1 DEF Local!Outside
  <1>30. CASE UNCHANGED localVars
    BY <1>1, <1>7, <1>9, <1>30 DEF localVars, Local!world
  <1> QED
    BY <1>11, <1>12, <1>13, <1>14, <1>15, <1>16, <1>17, <1>18, <1>19, <1>20, <1>21, <1>22, <1>23,
       <1>24, <1>25, <1>26, <1>27, <1>28, <1>29, <1>30 DEF Local!LocalNext

\* A model Sam loaded is Sam's as long as it is there.
LEMMA ClaimsInvIsEnough == Local!ClaimsInv => Local!ClaimsAreOwn
PROOF
  BY DEF Local!ClaimsInv, Local!ClaimsAreOwn, Local!IsOwn, Local!IsMade, Local!MadeIsSams,
         Local!LocalTypes, Local!Claims

-----------------------------------------------------------------------------
(* MCP client *)

\* Where a request is, and whose answer its caller got.
Ats == {"none", "lock", "drain", "wait", "notify", "done", "failed"}
Gots == {<<>>, <<"error">>} \cup Mcp!Requests

\* A request is not the mark of none, nor an error.
LEMMA RequestsArePairs ==
    ASSUME NEW r \in Mcp!Requests
    PROVE  /\ r # <<>> /\ r # <<"error">> /\ r = <<r[1], r[2]>>
           /\ r[1] \in Callers /\ r[2] \in {"list", "call"}
PROOF
  BY DEF Mcp!Requests, Mcp!Steps

\* Nobody has asked anything yet.
LEMMA RequestsStart == Mcp!McpInit => Mcp!RequestsInv
PROOF
  <1> SUFFICES ASSUME Mcp!McpInit
               PROVE  Mcp!RequestsInv
    OBVIOUS
  <1> USE DEF Mcp!McpInit
  <1>1. \A c \in Callers, s \in Mcp!Steps : <<c, s>> \in Mcp!Requests
    BY DEF Mcp!Requests
  <1>2. \A r \in Mcp!Requests : /\ requests[r].at = "none" /\ requests[r].id = 0
                                /\ requests[r].got = <<>>
    BY DEF Mcp!NotMade
  <1>3. Mcp!RequestTypes
    BY DEF Mcp!RequestTypes, Mcp!NotMade
  <1>4. Mcp!IdsAreOwn /\ Mcp!AnswersFindTheirRequest
    BY <1>2 DEF Mcp!IdsAreOwn, Mcp!AnswersFindTheirRequest, Mcp!At
  <1>5. Mcp!IdsAreTrue
    BY DEF Mcp!IdsAreTrue
  <1>6. Mcp!CallsAreMadeLater
    BY <1>1, <1>2 DEF Mcp!CallsAreMadeLater, Mcp!At, Mcp!Steps
  <1> QED
    BY <1>3, <1>4, <1>5, <1>6 DEF Mcp!RequestsInv

\* A step in which requests that were made go on, and nothing is said of an id
\* that was not true of it before.
LEMMA RequestsGoOn ==
    ASSUME Mcp!RequestsInv,
           requests' \in [Mcp!Requests -> [at : Ats, id : Nat, got : Gots]],
           \A q \in Mcp!Requests : /\ requests'[q].id = requests[q].id
                                   /\ (requests'[q].at = "none") <=> (requests[q].at = "none")
                                   /\ requests'[q].got \in {<<>>, <<"error">>, q},
           nextId' = nextId,
           \A id \in DOMAIN pending' : id \in DOMAIN pending /\ pending'[id] = pending[id],
           \A m \in inbox' \cup outbox' :
               \/ m \in inbox \cup outbox
               \/ \E q \in Mcp!Requests : requests[q].at # "none" /\ m = [id |-> requests[q].id, of |-> q],
           calls' \in [Callers -> {"idle", "listing", "calling", "cancelled", "answered", "failed"}],
           \A c \in Callers : calls'[c] \in {"idle", "listing"} => calls'[c] = calls[c],
           writer' \in {<<>>} \cup Mcp!Requests,
           writer' # <<>> => requests'[writer'].at = "drain"
    PROVE  Mcp!RequestsInv'
PROOF
  <1> USE DEF Mcp!RequestsInv
  <1>1. Mcp!RequestTypes'
    BY DEF Mcp!RequestTypes, Ats, Gots
  <1>2. Mcp!IdsAreOwn'
    BY DEF Mcp!IdsAreOwn, Mcp!At
  <1>3. Mcp!IdsAreTrue'
    <2>1. ASSUME NEW id \in DOMAIN pending'
          PROVE  pending'[id] \in Mcp!Requests /\ id # 0 /\ requests'[pending'[id]].id = id
      BY <2>1 DEF Mcp!IdsAreTrue
    <2>2. ASSUME NEW m \in inbox' \cup outbox'
          PROVE  m.of \in Mcp!Requests /\ requests'[m.of].id = m.id /\ m.id # 0
      <3>1. CASE m \in inbox \cup outbox
        BY <3>1 DEF Mcp!IdsAreTrue
      <3>2. CASE \E q \in Mcp!Requests : requests[q].at # "none" /\ m = [id |-> requests[q].id, of |-> q]
        <4>1. PICK q \in Mcp!Requests : requests[q].at # "none" /\ m = [id |-> requests[q].id, of |-> q]
          BY <3>2
        <4>2. m.of = q /\ m.id = requests[q].id
          BY <4>1
        <4>3. requests[q].id # 0
          BY <4>1 DEF Mcp!IdsAreOwn, Mcp!At
        <4> QED
          BY <4>2, <4>3
      <3> QED
        BY <2>2, <3>1, <3>2
    <2> QED
      BY <2>1, <2>2 DEF Mcp!IdsAreTrue
  <1>4. Mcp!CallsAreMadeLater'
    <2>1. \A c \in Callers : <<c, "list">> \in Mcp!Requests /\ <<c, "call">> \in Mcp!Requests
      BY DEF Mcp!Requests, Mcp!Steps
    <2> QED
      BY <2>1 DEF Mcp!CallsAreMadeLater, Mcp!At
  <1>5. Mcp!AnswersFindTheirRequest'
    BY DEF Mcp!AnswersFindTheirRequest, Mcp!At
  <1> QED
    BY <1>1, <1>2, <1>3, <1>4, <1>5

\* The same for one request that goes on.
LEMMA RequestGoesOn ==
    ASSUME Mcp!RequestsInv, NEW r \in Mcp!Requests, requests[r].at # "none",
           NEW at \in Ats \ {"none"}, Mcp!To(r, at),
           nextId' = nextId, UNCHANGED calls,
           pending' = pending \/ pending' = Mcp!Without(pending, requests[r].id),
           \A m \in inbox' \cup outbox' :
               m \in inbox \cup outbox \/ m = [id |-> requests[r].id, of |-> r],
           \/ writer' = <<>>
           \/ writer' = writer /\ writer # r
           \/ writer' = r /\ at = "drain"
    PROVE  Mcp!RequestsInv'
PROOF
  <1>1. /\ requests \in [Mcp!Requests -> [at : Ats, id : Nat, got : Gots]]
        /\ writer \in {<<>>} \cup Mcp!Requests
        /\ calls \in [Callers -> {"idle", "listing", "calling", "cancelled", "answered", "failed"}]
    BY DEF Mcp!RequestsInv, Mcp!RequestTypes, Ats, Gots
  <1>2. requests' \in [Mcp!Requests -> [at : Ats, id : Nat, got : Gots]]
    BY <1>1 DEF Mcp!To
  <1>3. ASSUME NEW q \in Mcp!Requests
        PROVE  /\ requests'[q].id = requests[q].id /\ requests'[q].got = requests[q].got
               /\ requests'[q].at = IF q = r THEN at ELSE requests[q].at
    BY <1>1 DEF Mcp!To
  <1>4. \A q \in Mcp!Requests : requests[q].got \in {<<>>, <<"error">>, q}
    BY DEF Mcp!RequestsInv, Mcp!AnswersFindTheirRequest
  <1>5. \A id \in DOMAIN pending' : id \in DOMAIN pending /\ pending'[id] = pending[id]
    BY DEF Mcp!Without
  <1>6. writer' \in {<<>>} \cup Mcp!Requests
    BY <1>1
  <1>7. writer' # <<>> => requests'[writer'].at = "drain"
    BY <1>1, <1>3 DEF Mcp!RequestsInv, Mcp!AnswersFindTheirRequest, Mcp!At
  <1>8. \A q \in Mcp!Requests : (requests'[q].at = "none") <=> (requests[q].at = "none")
    BY <1>3
  <1> QED
    BY <1>1, <1>2, <1>3, <1>4, <1>5, <1>6, <1>7, <1>8, RequestsGoOn

\* StdioMcpTransport.request draws an id that nothing has yet.
LEMMA RequestIsMade ==
    ASSUME Mcp!RequestsInv, NEW r \in Mcp!Requests, Mcp!Request(r),
           UNCHANGED <<writer, inbox, outbox>>,
           calls' \in [Callers -> {"idle", "listing", "calling", "cancelled", "answered", "failed"}],
           \A c \in Callers : /\ calls'[c] = "idle" => calls[c] = "idle" /\ c # r[1]
                              /\ calls'[c] \in {"idle", "listing"} =>
                                    calls[c] \in {"idle", "listing"} /\ r # <<c, "call">>
    PROVE  Mcp!RequestsInv'
PROOF
  <1> DEFINE fresh == nextId + 1
  <1>1. /\ nextId \in Nat /\ writer \in {<<>>} \cup Mcp!Requests
        /\ requests \in [Mcp!Requests -> [at : Ats, id : Nat, got : Gots]]
    BY DEF Mcp!RequestsInv, Mcp!RequestTypes, Ats, Gots
  <1>2. /\ requests[r].at = "none" /\ nextId' = fresh
        /\ pending' = Mcp!With(pending, fresh, r)
        /\ requests' = [requests EXCEPT ![r] = [@ EXCEPT !.at = "lock", !.id = fresh]]
    BY DEF Mcp!Request, Mcp!FreshId, Mcp!At
  <1>3. requests' \in [Mcp!Requests -> [at : Ats, id : Nat, got : Gots]]
    <2>1. fresh \in Nat
      BY <1>1
    <2> HIDE DEF fresh
    <2>2. [requests[r] EXCEPT !.at = "lock", !.id = fresh] \in [at : Ats, id : Nat, got : Gots]
      BY <1>1, <2>1 DEF Ats
    <2> QED
      BY <1>1, <1>2, <2>2
  <1>4. /\ requests'[r].at = "lock" /\ requests'[r].id = fresh
        /\ requests'[r].got = requests[r].got
    BY <1>1, <1>2
  <1>5. \A q \in Mcp!Requests \ {r} : requests'[q] = requests[q]
    BY <1>1, <1>2
  <1>6. \A q \in Mcp!Requests : requests[q].id # fresh
    BY <1>1 DEF Mcp!RequestsInv, Mcp!IdsAreOwn
  <1>7. requests[r].id = 0
    BY <1>2 DEF Mcp!RequestsInv, Mcp!IdsAreOwn, Mcp!At
  <1> HIDE DEF fresh
  <1>8. fresh \in Nat \ {0} /\ nextId < fresh
    BY <1>1 DEF fresh
  <1>9. Mcp!RequestTypes'
    <2>1. nextId' \in Nat /\ writer' \in {<<>>} \cup Mcp!Requests
      BY <1>1, <1>2, <1>8
    <2> QED
      BY <1>3, <2>1 DEF Mcp!RequestTypes, Ats, Gots
  <1>10. Mcp!IdsAreOwn'
    <2> SUFFICES ASSUME NEW p \in Mcp!Requests
                 PROVE  /\ requests'[p].id <= nextId'
                        /\ requests'[p].at = "none" <=> requests'[p].id = 0
                        /\ \A q \in Mcp!Requests :
                              requests'[q].id = requests'[p].id /\ requests'[p].id # 0 => q = p
      BY DEF Mcp!IdsAreOwn, Mcp!At
    <2>1. CASE p = r
      BY <1>1, <1>2, <1>4, <1>5, <1>6, <1>8, <2>1
    <2>2. CASE p # r
      <3>1. /\ requests[p].id <= nextId /\ (requests[p].at = "none" <=> requests[p].id = 0)
            /\ \A q \in Mcp!Requests : requests[q].id = requests[p].id /\ requests[p].id # 0 => q = p
        BY DEF Mcp!RequestsInv, Mcp!IdsAreOwn, Mcp!At
      <3>2. requests[p].id \in Nat
        BY <1>1
      <3>3. requests'[p] = requests[p]
        BY <1>5, <2>2
      <3>4. requests'[p].id <= nextId'
        BY <1>1, <1>2, <1>8, <3>1, <3>2, <3>3
      <3>5. ASSUME NEW q \in Mcp!Requests, requests'[q].id = requests'[p].id, requests'[p].id # 0
            PROVE  q = p
        BY <1>4, <1>5, <1>6, <3>1, <3>3, <3>5
      <3> QED
        BY <3>1, <3>3, <3>4, <3>5
    <2> QED
      BY <2>1, <2>2
  <1>11. Mcp!IdsAreTrue'
    <2>1. ASSUME NEW id \in DOMAIN pending'
          PROVE  pending'[id] \in Mcp!Requests /\ id # 0 /\ requests'[pending'[id]].id = id
      <3>1. CASE id = fresh
        BY <1>2, <1>4, <1>8, <3>1, <2>1 DEF Mcp!With
      <3>2. CASE id # fresh
        <4>1. id \in DOMAIN pending /\ pending'[id] = pending[id]
          BY <1>2, <2>1, <3>2 DEF Mcp!With
        <4>2. pending[id] \in Mcp!Requests /\ id # 0 /\ requests[pending[id]].id = id
          BY <4>1 DEF Mcp!RequestsInv, Mcp!IdsAreTrue
        <4>3. pending[id] # r
          BY <1>7, <4>2
        <4> QED
          BY <1>5, <4>1, <4>2, <4>3
      <3> QED
        BY <3>1, <3>2
    <2>2. ASSUME NEW m \in inbox' \cup outbox'
          PROVE  m.of \in Mcp!Requests /\ requests'[m.of].id = m.id /\ m.id # 0
      <3>1. m.of \in Mcp!Requests /\ requests[m.of].id = m.id /\ m.id # 0
        BY <2>2 DEF Mcp!RequestsInv, Mcp!IdsAreTrue
      <3>2. m.of # r
        BY <1>7, <3>1
      <3> QED
        BY <1>5, <3>1, <3>2
    <2> QED
      BY <2>1, <2>2 DEF Mcp!IdsAreTrue
  <1>12. Mcp!CallsAreMadeLater'
    <2> SUFFICES ASSUME NEW c \in Callers
                 PROVE  /\ calls'[c] = "idle" => requests'[<<c, "list">>].at = "none"
                        /\ calls'[c] \in {"idle", "listing"} => requests'[<<c, "call">>].at = "none"
      BY DEF Mcp!CallsAreMadeLater, Mcp!At
    <2>1. <<c, "list">> \in Mcp!Requests /\ <<c, "call">> \in Mcp!Requests
      BY DEF Mcp!Requests, Mcp!Steps
    <2>2. /\ calls[c] = "idle" => requests[<<c, "list">>].at = "none"
          /\ calls[c] \in {"idle", "listing"} => requests[<<c, "call">>].at = "none"
      BY DEF Mcp!RequestsInv, Mcp!CallsAreMadeLater, Mcp!At
    <2>3. c # r[1] => r # <<c, "list">>
      OBVIOUS
    <2> QED
      BY <1>5, <2>1, <2>2, <2>3
  <1>13. Mcp!AnswersFindTheirRequest'
    <2>1. \A q \in Mcp!Requests : requests'[q].got = requests[q].got
      BY <1>4, <1>5
    <2>2. writer # <<>> => writer # r /\ requests'[writer].at = "drain"
      BY <1>1, <1>2, <1>5 DEF Mcp!RequestsInv, Mcp!AnswersFindTheirRequest, Mcp!At
    <2> QED
      BY <2>1, <2>2 DEF Mcp!RequestsInv, Mcp!AnswersFindTheirRequest, Mcp!At
  <1> QED
    BY <1>9, <1>10, <1>11, <1>12, <1>13 DEF Mcp!RequestsInv

\* Every step of callers, reader and server keeps the requests apart.
LEMMA RequestsStep ==
    ASSUME Mcp!RequestsInv, [Mcp!McpNext]_mcpVars
    PROVE  Mcp!RequestsInv'
PROOF
  <1>1. /\ requests \in [Mcp!Requests -> [at : Ats, id : Nat, got : Gots]]
        /\ writer \in {<<>>} \cup Mcp!Requests
        /\ calls \in [Callers -> {"idle", "listing", "calling", "cancelled", "answered", "failed"}]
    BY DEF Mcp!RequestsInv, Mcp!RequestTypes, Ats, Gots
  <1>2. /\ \A q \in Mcp!Requests : requests[q].got \in {<<>>, <<"error">>, q}
        /\ writer # <<>> => requests[writer].at = "drain"
    BY DEF Mcp!RequestsInv, Mcp!AnswersFindTheirRequest, Mcp!At
  <1>3. \A c \in Callers : <<c, "list">> \in Mcp!Requests /\ <<c, "call">> \in Mcp!Requests
    BY DEF Mcp!Requests, Mcp!Steps
  <1>4. ASSUME NEW r \in Mcp!Requests, Mcp!Write(r)
        PROVE  Mcp!RequestsInv'
    BY <1>4, RequestGoesOn DEF Mcp!Write, Mcp!At, Mcp!callVars, Ats
  <1>5. ASSUME NEW r \in Mcp!Requests, Mcp!Drained(r)
        PROVE  Mcp!RequestsInv'
    BY <1>5, RequestGoesOn DEF Mcp!Drained, Mcp!At, Mcp!callVars, Mcp!pipes, Ats
  <1>6. ASSUME NEW r \in Mcp!Requests, Mcp!SendFails(r)
        PROVE  Mcp!RequestsInv'
    BY <1>6, RequestGoesOn DEF Mcp!SendFails, Mcp!callVars, Mcp!pipes, Ats
  <1>7. ASSUME NEW r \in Mcp!Requests, Mcp!Returns(r)
        PROVE  Mcp!RequestsInv'
    <2>1. PICK at \in {"failed", "done"} : Mcp!To(r, at)
      BY <1>7 DEF Mcp!Returns
    <2>2. writer # r
      BY <1>2, <1>7, RequestsArePairs DEF Mcp!Returns, Mcp!At
    <2> QED
      BY <1>7, <2>1, <2>2, RequestGoesOn DEF Mcp!Returns, Mcp!At, Mcp!callVars, Mcp!pipes, Ats
  <1>8. ASSUME NEW r \in Mcp!Requests, Mcp!GiveUp(r)
        PROVE  Mcp!RequestsInv'
    <2>1. writer # r
      BY <1>2, <1>8, RequestsArePairs DEF Mcp!GiveUp, Mcp!At
    <2> QED
      BY <1>8, <2>1, RequestGoesOn DEF Mcp!GiveUp, Mcp!At, Mcp!callVars, Mcp!pipes, Ats
  <1>9. ASSUME NEW r \in Mcp!Requests, Mcp!Notified(r)
        PROVE  Mcp!RequestsInv'
    BY <1>9, RequestGoesOn DEF Mcp!Notified, Mcp!At, Mcp!callVars, Mcp!pipes, Ats
  <1>10. ASSUME NEW a \in outbox, Mcp!ReadAnswer(a)
         PROVE  Mcp!RequestsInv'
    <2>1. a.of \in Mcp!Requests /\ requests[a.of].id = a.id /\ a.id # 0
      BY DEF Mcp!RequestsInv, Mcp!IdsAreTrue
    <2>2. a.id \in DOMAIN pending => pending[a.id] = a.of
      <3> SUFFICES ASSUME a.id \in DOMAIN pending
                   PROVE  pending[a.id] = a.of
        OBVIOUS
      <3>1. pending[a.id] \in Mcp!Requests /\ requests[pending[a.id]].id = a.id
        BY DEF Mcp!RequestsInv, Mcp!IdsAreTrue
      <3> QED
        BY <2>1, <3>1 DEF Mcp!RequestsInv, Mcp!IdsAreOwn
    <2>3. requests' = [requests EXCEPT ![a.of].got = a.of] \/ requests' = requests
      BY <1>10, <2>2 DEF Mcp!ReadAnswer, Mcp!Deliver
    <2>4. requests' \in [Mcp!Requests -> [at : Ats, id : Nat, got : Gots]]
      BY <1>1, <2>1, <2>3 DEF Gots
    <2>5. \A q \in Mcp!Requests : /\ requests'[q].id = requests[q].id
                                  /\ requests'[q].at = requests[q].at
                                  /\ requests'[q].got \in {<<>>, <<"error">>, q}
      BY <1>1, <1>2, <2>1, <2>3
    <2>6. /\ UNCHANGED <<nextId, pending, writer, calls, inbox>> /\ outbox' \subseteq outbox
      BY <1>10 DEF Mcp!ReadAnswer, Mcp!callVars
    <2> QED
      BY <1>1, <1>2, <2>4, <2>5, <2>6, RequestsGoOn
  <1>11. CASE Mcp!ReaderEnds
    <2>1. requests' \in [Mcp!Requests -> [at : Ats, id : Nat, got : Gots]]
      BY <1>1, <1>11 DEF Mcp!ReaderEnds, Gots
    <2>2. \A q \in Mcp!Requests : /\ requests'[q].id = requests[q].id
                                  /\ requests'[q].at = requests[q].at
                                  /\ requests'[q].got \in {<<>>, <<"error">>, q}
      BY <1>1, <1>2, <1>11 DEF Mcp!ReaderEnds
    <2>3. UNCHANGED <<nextId, pending, writer, calls, inbox, outbox>>
      BY <1>11 DEF Mcp!ReaderEnds, Mcp!callVars, Mcp!pipes
    <2> QED
      BY <1>1, <1>2, <2>1, <2>2, <2>3, RequestsGoOn
  <1>12. ASSUME NEW c \in Callers, Mcp!StartCall(c)
         PROVE  Mcp!RequestsInv'
    <2>1. /\ calls' = [calls EXCEPT ![c] = "listing"] /\ calls[c] = "idle"
          /\ Mcp!Request(<<c, "list">>) /\ UNCHANGED <<writer, inbox, outbox>>
      BY <1>12 DEF Mcp!StartCall, Mcp!pipes
    <2>2. calls' \in [Callers -> {"idle", "listing", "calling", "cancelled", "answered", "failed"}]
      BY <1>1, <2>1
    <2>3. \A d \in Callers : <<c, "list">>[1] = c /\ <<c, "list">> # <<d, "call">>
      OBVIOUS
    <2> QED
      BY <1>1, <1>3, <2>1, <2>2, <2>3, RequestIsMade
  <1>13. ASSUME NEW c \in Callers, Mcp!ListReturns(c)
         PROVE  Mcp!RequestsInv'
    <2>1. calls[c] = "listing" /\ UNCHANGED <<writer, inbox, outbox>>
      BY <1>13 DEF Mcp!ListReturns, Mcp!pipes
    <2>2. CASE calls' = [calls EXCEPT ![c] = "calling"] /\ Mcp!Request(<<c, "call">>)
      <3>1. calls' \in [Callers -> {"idle", "listing", "calling", "cancelled", "answered", "failed"}]
        BY <1>1, <2>2
      <3>2. \A d \in Callers : d # c => <<c, "call">> # <<d, "call">>
        OBVIOUS
      <3>3. <<c, "call">>[1] = c
        OBVIOUS
      <3> QED
        BY <1>1, <1>3, <2>1, <2>2, <3>1, <3>2, <3>3, RequestIsMade
    <2>3. CASE calls' = [calls EXCEPT ![c] = "failed"] /\ UNCHANGED <<nextId, pending, requests>>
      <3>1. calls' \in [Callers -> {"idle", "listing", "calling", "cancelled", "answered", "failed"}]
        BY <1>1, <2>3
      <3>2. \A d \in Callers : calls'[d] \in {"idle", "listing"} => calls'[d] = calls[d]
        BY <1>1, <2>3
      <3> QED
        BY <1>1, <1>2, <2>1, <2>3, <3>1, <3>2, RequestsGoOn
    <2> QED
      BY <1>13, <2>2, <2>3 DEF Mcp!ListReturns
  <1>14. ASSUME NEW c \in Callers, Mcp!CallReturns(c) \/ Mcp!Abandon(c)
         PROVE  Mcp!RequestsInv'
    <2>1. UNCHANGED <<nextId, pending, writer, requests, inbox, outbox>>
      BY <1>14 DEF Mcp!CallReturns, Mcp!Abandon, Mcp!pipes
    <2>2. PICK end \in {"answered", "failed"} : calls' = [calls EXCEPT ![c] = end]
      BY <1>1, <1>14 DEF Mcp!CallReturns, Mcp!Abandon
    <2>3. /\ calls' \in [Callers -> {"idle", "listing", "calling", "cancelled", "answered", "failed"}]
          /\ \A d \in Callers : calls'[d] \in {"idle", "listing"} => calls'[d] = calls[d]
      BY <1>1, <2>2
    <2> QED
      BY <1>1, <1>2, <2>1, <2>3, RequestsGoOn
  <1>15. ASSUME NEW c \in Callers, Mcp!CancelCall(c)
         PROVE  Mcp!RequestsInv'
    <2> DEFINE r == <<c, "call">>
    <2>1. r \in Mcp!Requests
      BY <1>3
    <2>2. requests' = [requests EXCEPT ![r] =
              [@ EXCEPT !.at = IF requests[r].at = "wait" THEN "notify" ELSE requests[r].at]]
      BY <1>15 DEF Mcp!CancelCall
    <2> HIDE DEF r
    <2>3. requests' \in [Mcp!Requests -> [at : Ats, id : Nat, got : Gots]]
      BY <1>1, <2>1, <2>2 DEF Ats
    <2>4. \A q \in Mcp!Requests : /\ requests'[q].id = requests[q].id
                                  /\ requests'[q].got = requests[q].got
                                  /\ requests'[q].at # requests[q].at =>
                                        requests[q].at = "wait" /\ requests'[q].at = "notify"
      BY <1>1, <2>1, <2>2
    <2>5. /\ calls' \in [Callers -> {"idle", "listing", "calling", "cancelled", "answered", "failed"}]
          /\ \A d \in Callers : calls'[d] \in {"idle", "listing"} => calls'[d] = calls[d]
      BY <1>1, <1>15 DEF Mcp!CancelCall
    <2>6. UNCHANGED <<nextId, pending, writer, inbox, outbox>>
      BY <1>15 DEF Mcp!CancelCall, Mcp!pipes
    <2>7. \A q \in Mcp!Requests : requests'[q].at = "none" <=> requests[q].at = "none"
      BY <2>4
    <2>8. writer' # <<>> => requests'[writer'].at = "drain"
      BY <1>1, <1>2, <2>4, <2>6
    <2> QED
      BY <1>1, <1>2, <2>3, <2>4, <2>5, <2>6, <2>7, <2>8, RequestsGoOn
  <1>16. ASSUME UNCHANGED <<nextId, pending, writer, requests, calls>>,
                inbox' \cup outbox' \subseteq inbox \cup outbox
         PROVE  Mcp!RequestsInv'
    BY <1>1, <1>2, <1>16, RequestsGoOn
  <1>17. ASSUME NEW m \in inbox, Mcp!ServerAnswers(m)
         PROVE  Mcp!RequestsInv'
    BY <1>16, <1>17 DEF Mcp!ServerAnswers
  <1>18. CASE Mcp!ServerChangesTools \/ Mcp!ServerExits
    BY <1>16, <1>18 DEF Mcp!ServerChangesTools, Mcp!ServerExits, Mcp!callVars, Mcp!pipes
  <1>19. CASE UNCHANGED mcpVars
    BY <1>16, <1>19 DEF mcpVars
  <1> QED
    BY <1>4, <1>5, <1>6, <1>7, <1>8, <1>9, <1>10, <1>11, <1>12, <1>13, <1>14, <1>15, <1>17,
       <1>18, <1>19 DEF Mcp!McpNext, Mcp!RequestStep

-----------------------------------------------------------------------------
(* Files written *)

\* Nobody has looked for the target yet.
LEMMA WritesStart == Writing!WriteInit => Writing!WritesInv
PROOF
  BY DEF Writing!WriteInit, Writing!WritesInv, Writing!WriteTypes, Writing!PlacesAreTold,
         Writing!HasPlaced

\* A step of one call that puts nothing in place.
LEMMA WriteGoesOn ==
    ASSUME Writing!WritesInv, NEW c \in Writing!Calls, replaced' = replaced,
           NEW next \in {"begin", "write", "place", "unlink", "end"}, Writing!To(c, next),
           \/ temporary' = temporary
           \/ \E temp \in {"none", "empty", "whole"} : Writing!Temp(c, temp),
           \/ reported' = reported
           \/ \E what \in {"exists", "failed"} : Writing!Tells(c, what),
           next = "place" => temporary'[c] = "whole",
           next \in {"begin", "write", "place"} => ~Writing!HasPlaced(c),
           next \in {"unlink", "end"} /\ reported'[c] # "failed" =>
              (reported'[c] \in {"created", "overwritten"} <=> Writing!HasPlaced(c))
    PROVE  Writing!WritesInv'
PROOF
  <1>1. Writing!WriteTypes'
    BY DEF Writing!WritesInv, Writing!WriteTypes, Writing!To, Writing!Temp, Writing!Tells
  <1>2. ASSUME NEW d \in Writing!Calls \ {c}
        PROVE  writeAt'[d] = writeAt[d] /\ temporary'[d] = temporary[d] /\ reported'[d] = reported[d]
    BY DEF Writing!WritesInv, Writing!WriteTypes, Writing!To, Writing!Temp, Writing!Tells
  <1>3. writeAt'[c] = next
    BY DEF Writing!WritesInv, Writing!WriteTypes, Writing!To
  <1>4. \A d \in Writing!Calls : /\ Writing!HasPlaced(d)' = Writing!HasPlaced(d)
                                 /\ Writing!HasPlaced(d) \in BOOLEAN
    BY DEF Writing!HasPlaced
  <1>5. Writing!PlacesAreTold'
    BY <1>2, <1>3, <1>4 DEF Writing!WritesInv, Writing!PlacesAreTold
  <1> QED
    BY <1>1, <1>5 DEF Writing!WritesInv

\* Every step of the writers and of those who replace the target keeps it.
LEMMA WritesStep ==
    ASSUME Writing!WritesInv, [Writing!WriteNext]_writeVars
    PROVE  Writing!WritesInv'
PROOF
  <1>1. Writing!WriteTypes /\ Writing!PlacesAreTold
    BY DEF Writing!WritesInv
  <1>2. ASSUME NEW c \in Writing!Calls, Writing!Begin(c)
        PROVE  Writing!WritesInv'
    <2>1. ~Writing!HasPlaced(c) /\ replaced' = replaced
      BY <1>1, <1>2 DEF Writing!PlacesAreTold, Writing!Begin
    <2>2. CASE Writing!To(c, "end") /\ Writing!Tells(c, "exists") /\ UNCHANGED temporary
      <3>1. reported'[c] = "exists"
        BY <1>1, <2>2 DEF Writing!Tells, Writing!WriteTypes
      <3> QED
        BY <2>1, <2>2, <3>1, WriteGoesOn
    <2>3. CASE Writing!To(c, "write") /\ Writing!Temp(c, "empty") /\ UNCHANGED reported
      BY <2>1, <2>3, WriteGoesOn
    <2> QED
      BY <1>2, <2>2, <2>3 DEF Writing!Begin
  <1>3. ASSUME NEW c \in Writing!Calls, Writing!Write(c)
        PROVE  Writing!WritesInv'
    <2>1. ~Writing!HasPlaced(c) /\ UNCHANGED <<replaced, reported>>
      BY <1>1, <1>3 DEF Writing!PlacesAreTold, Writing!Write
    <2>2. Writing!To(c, "place") /\ Writing!Temp(c, "whole") /\ temporary'[c] = "whole"
      BY <1>1, <1>3 DEF Writing!Write, Writing!Temp, Writing!WriteTypes
    <2> QED
      BY <2>1, <2>2, WriteGoesOn
  <1>4. ASSUME NEW c \in Writing!Calls, Writing!Place(c)
        PROVE  Writing!WritesInv'
    <2> DEFINE r == [call |-> c, of |-> target, with |-> temporary[c]]
    <2>1. /\ r.call = c /\ r.of = target /\ r.with = "whole"
          /\ c \in Careful => r.of = "none"
      BY <1>1, <1>4 DEF Writing!Place, Writing!Placed, Writing!PlacesAreTold
    <2>2. PICK what \in {"overwritten", "created"} : Writing!Tells(c, what)
      BY <1>4 DEF Writing!Place
    <2>3. PICK temp \in {"whole", "none"} : Writing!Temp(c, temp)
      BY <1>4 DEF Writing!Place
    <2>4. Writing!To(c, "unlink") /\ replaced' = replaced \cup {r}
      BY <1>4 DEF Writing!Place
    <2> HIDE DEF r
    <2>5. Writing!WriteTypes'
      BY <1>1, <2>2, <2>3, <2>4 DEF Writing!WriteTypes, Writing!To, Writing!Temp, Writing!Tells
    <2>6. ASSUME NEW d \in Writing!Calls \ {c}
          PROVE  /\ writeAt'[d] = writeAt[d] /\ temporary'[d] = temporary[d]
                 /\ reported'[d] = reported[d] /\ Writing!HasPlaced(d)' = Writing!HasPlaced(d)
      BY <1>1, <2>1, <2>2, <2>3, <2>4
      DEF Writing!WriteTypes, Writing!To, Writing!Temp, Writing!Tells, Writing!HasPlaced
    <2>7. writeAt'[c] = "unlink" /\ reported'[c] = what /\ Writing!HasPlaced(c)'
      BY <1>1, <2>1, <2>2, <2>4 DEF Writing!WriteTypes, Writing!To, Writing!Tells, Writing!HasPlaced
    <2>8. \A s \in replaced' : (s.call \in Careful => s.of = "none") /\ s.with = "whole"
      BY <1>1, <2>1, <2>4 DEF Writing!PlacesAreTold
    <2>9. \A d \in Writing!Calls : /\ Writing!HasPlaced(d) \in BOOLEAN
                                   /\ Writing!HasPlaced(d)' \in BOOLEAN
      BY DEF Writing!HasPlaced
    <2>10. Writing!PlacesAreTold'
      BY <1>1, <2>6, <2>7, <2>8, <2>9 DEF Writing!PlacesAreTold
    <2> QED
      BY <2>5, <2>10 DEF Writing!WritesInv
  <1>5. ASSUME NEW c \in Writing!Calls, Writing!PlaceTaken(c) \/ Writing!Fails(c)
        PROVE  Writing!WritesInv'
    <2>1. PICK what \in {"exists", "failed"} : Writing!Tells(c, what) /\ (what = "exists" => writeAt[c] = "place")
      BY <1>5 DEF Writing!PlaceTaken, Writing!Fails
    <2>2. Writing!To(c, "unlink") /\ UNCHANGED <<temporary, replaced>> /\ ~Writing!HasPlaced(c)
      BY <1>1, <1>5 DEF Writing!PlaceTaken, Writing!Fails, Writing!PlacesAreTold
    <2>3. reported'[c] = what
      BY <1>1, <2>1 DEF Writing!Tells, Writing!WriteTypes
    <2> QED
      BY <2>1, <2>2, <2>3, WriteGoesOn
  <1>6. ASSUME NEW c \in Writing!Calls, Writing!Unlink(c)
        PROVE  Writing!WritesInv'
    <2>1. Writing!To(c, "end") /\ Writing!Temp(c, "none") /\ UNCHANGED <<reported, replaced>>
      BY <1>6 DEF Writing!Unlink
    <2>2. reported[c] # "failed" =>
              (reported[c] \in {"created", "overwritten"} <=> Writing!HasPlaced(c))
      BY <1>1, <1>6 DEF Writing!Unlink, Writing!PlacesAreTold
    <2> QED
      BY <2>1, <2>2, WriteGoesOn
  <1>7. ASSUME NEW c \in Writing!Calls, Writing!UnlinkFails(c)
        PROVE  Writing!WritesInv'
    <2>1. /\ Writing!To(c, "end") /\ Writing!Tells(c, "failed")
          /\ UNCHANGED <<temporary, replaced>> /\ reported'[c] = "failed"
      BY <1>1, <1>7 DEF Writing!UnlinkFails, Writing!Tells, Writing!WriteTypes
    <2> QED
      BY <2>1, WriteGoesOn
  <1>8. CASE UNCHANGED <<writeAt, temporary, reported, replaced>>
    BY <1>1, <1>8 DEF Writing!WritesInv, Writing!WriteTypes, Writing!PlacesAreTold, Writing!HasPlaced
  <1>9. Writing!Outside \/ UNCHANGED writeVars => UNCHANGED <<writeAt, temporary, reported, replaced>>
    BY DEF Writing!Outside, writeVars
  <1> QED
    BY <1>2, <1>3, <1>4, <1>5, <1>6, <1>7, <1>8, <1>9 DEF Writing!WriteNext

\* Who must not overwrite has placed a file only where there was none.
LEMMA WritesInvIsEnough == Writing!WritesInv => Writing!NothingIsOverwritten
PROOF
  BY DEF Writing!WritesInv, Writing!PlacesAreTold, Writing!NothingIsOverwritten, Writing!HasPlaced

-----------------------------------------------------------------------------
(* Files found *)

\* The walk begins with the root.
LEMMA WalkStarts == WalkBounds /\ Walk!WalkInit => Walk!WalkInv
PROOF
  <1> SUFFICES ASSUME WalkBounds, Walk!WalkInit PROVE Walk!WalkInv
    OBVIOUS
  <1> USE DEF Walk!WalkInit
  <1>1. Walk!IsTree(tree) /\ Walk!IsLimits(limits) /\ depth \in Nat
    BY DEF WalkBounds
  <1>2. 1 \in DOMAIN tree
    <2>1. tree \in Seq(Seq(Walk!Entries(tree))) /\ tree # <<>>
      BY <1>1 DEF Walk!IsTree
    <2> QED
      BY <2>1, EmptySeq, LenProperties
  <1>3. /\ limits.directories \in Nat \ {0} /\ limits.files \in Nat \ {0}
        /\ limits.matches \in Nat \ {0}
    BY <1>1 DEF Walk!IsLimits
  <1>4. queue \in Seq([dir : DOMAIN tree, level : Nat]) /\ Len(queue) = 1
    BY <1>2
  <1>5. batch \in [level : Nat, left : Seq(Walk!Entries(tree))]
    BY EmptySeq
  <1>6. Walk!WalkTypes
    BY <1>1, <1>4, <1>5 DEF Walk!WalkTypes
  <1>7. Walk!WithinLimits
    BY <1>3, <1>4 DEF Walk!WithinLimits
  <1> QED
    BY <1>3, <1>6, <1>7 DEF Walk!WalkInv

\* What the walk selects with is what Selection does.
LEMMA OnlyInWalk == \A q, S : Walk!Only(q, S) = Only(q, S)
PROOF
  <1>1. \A S : Walk!Cardinality(S) = Cardinality(S)
    BY DEF Walk!Cardinality, Cardinality
  <1>2. \A I, n : Walk!Place(I, n) = Place(I, n)
    BY <1>1 DEF Walk!Place, Place
  <1>3. \A q, I : Walk!Kept(q, I) = Kept(q, I)
    BY <1>1, <1>2 DEF Walk!Kept, Kept
  <1> QED
    BY <1>3 DEF Walk!Only, Only

\* What is scanned of a directory are entries of the tree.
LEMMA ScannedAreEntries ==
    ASSUME Walk!WalkTypes, NEW d \in DOMAIN tree
    PROVE  Walk!Scanned(d) \in Seq(Walk!Entries(tree))
PROOF
  <1> DEFINE E == Walk!Entries(tree)
             v == Walk!Visible(d)
  <1>1. tree[d] \in Seq(E)
    <2>1. tree \in Seq(Seq(E))
      BY DEF Walk!WalkTypes, Walk!IsTree
    <2> QED
      BY <2>1, LenProperties
  <1>2. v \in Seq(E)
    BY <1>1, OnlyInWalk, OnlySelects DEF Walk!Visible
  <1>3. limits.scan \in Nat /\ Len(v) \in Nat /\ DOMAIN v = 1 .. Len(v)
    BY <1>2, LenProperties DEF Walk!WalkTypes, Walk!IsLimits
  <1> HIDE DEF E, v
  <1>4. ASSUME NEW n \in Nat, n <= Len(v) PROVE SubSeq(v, 1, n) \in Seq(E)
    <2>1. \A i \in 1 .. n : v[i] \in E
      BY <1>2, <1>3, <1>4, ElementOfSeq
    <2> QED
      BY <1>4, <2>1, SubSeqProperties, <1>2
  <1> QED
    BY <1>3, <1>4 DEF Walk!Scanned, v, E

\* What a step may count on: the next entry and the next directory.
LEMMA WalkParts ==
    ASSUME Walk!WalkTypes
    PROVE  /\ limits.directories \in Nat /\ limits.files \in Nat /\ limits.matches \in Nat
           /\ Len(queue) \in Nat
           /\ queue # <<>> => /\ Head(queue) \in [dir : DOMAIN tree, level : Nat]
                              /\ Tail(queue) \in Seq([dir : DOMAIN tree, level : Nat])
                              /\ Len(Tail(queue)) = Len(queue) - 1
           /\ batch.level \in Nat
           /\ batch.left # <<>> => /\ Head(batch.left) \in Walk!Entries(tree)
                                   /\ Tail(batch.left) \in Seq(Walk!Entries(tree))
PROOF
  <1>1. limits.directories \in Nat /\ limits.files \in Nat /\ limits.matches \in Nat
    BY DEF Walk!WalkTypes, Walk!IsLimits
  <1>2. queue \in Seq([dir : DOMAIN tree, level : Nat])
    BY DEF Walk!WalkTypes
  <1>3. batch.level \in Nat /\ batch.left \in Seq(Walk!Entries(tree))
    BY DEF Walk!WalkTypes
  <1> QED
    BY <1>1, <1>2, <1>3, HeadTailProperties, LenProperties

\* The entry is taken.
LEMMA TakenKeeps ==
    ASSUME Walk!WalkTypes, Walk!Taking, Walk!Next1
    PROVE  batch' \in [level : Nat, left : Seq(Walk!Entries(tree))]
PROOF
  <1>1. batch.left # <<>>
    BY DEF Walk!Taking
  <1>2. batch \in [level : Nat, left : Seq(Walk!Entries(tree))]
    BY DEF Walk!WalkTypes
  <1>3. batch' = [batch EXCEPT !.left = Tail(batch.left)]
    BY DEF Walk!Next1
  <1>4. Tail(batch.left) \in Seq(Walk!Entries(tree))
    BY <1>1, WalkParts
  <1> QED
    BY <1>2, <1>3, <1>4

\* A directory is put at the end of the queue.
LEMMA EnqueuedKeeps ==
    ASSUME Walk!WalkTypes, Walk!Taking, Walk!First.kind = "dir", Walk!Enqueued(Walk!First.value)
    PROVE  queue' \in Seq([dir : DOMAIN tree, level : Nat]) /\ Len(queue') = Len(queue) + 1
PROOF
  <1>1. Walk!First \in Walk!Entries(tree) /\ batch.level \in Nat
    BY WalkParts DEF Walk!Taking, Walk!First
  <1>2. Walk!First.value \in DOMAIN tree
    BY <1>1 DEF Walk!Entries
  <1> DEFINE D == [dir : DOMAIN tree, level : Nat]
             d == [dir |-> Walk!First.value, level |-> batch.level + 1]
  <1>3. d \in D /\ queue \in Seq(D) /\ queue' = Append(queue, d)
    BY <1>1, <1>2 DEF Walk!WalkTypes, Walk!Enqueued
  <1> HIDE DEF D, d
  <1>4. queue' \in Seq(D) /\ Len(queue') = Len(queue) + 1
    BY <1>3, AppendProperties
  <1> QED
    BY <1>4 DEF D

\* Every entry, directory and end keeps the walk within its limits.
LEMMA WalkStep ==
    ASSUME Walk!WalkInv, [Walk!WalkNext]_walkVars
    PROVE  Walk!WalkInv'
PROOF
  <1>1. Walk!WalkTypes /\ Walk!WithinLimits
        /\ (walkAt \in {"scan", "entries"} => found < limits.matches /\ files <= limits.files)
    BY DEF Walk!WalkInv
  <1>2. /\ limits.directories \in Nat /\ limits.files \in Nat /\ limits.matches \in Nat
        /\ Len(queue) \in Nat /\ directories \in Nat /\ files \in Nat /\ found \in Nat
        /\ truncated \in BOOLEAN /\ op \in {"search", "list"}
        /\ walkAt \in {"scan", "entries", "done", "failed"}
    BY <1>1, WalkParts DEF Walk!WalkTypes
  <1>3. ASSUME Walk!WalkTypes', Walk!WithinLimits',
               walkAt' \in {"scan", "entries"} => found' < limits'.matches /\ files' <= limits'.files
        PROVE  Walk!WalkInv'
    BY <1>3 DEF Walk!WalkInv
  <1>4. ASSUME UNCHANGED Walk!request,
               queue' \in Seq([dir : DOMAIN tree, level : Nat]),
               batch' \in [level : Nat, left : Seq(Walk!Entries(tree))],
               directories' \in Nat, files' \in Nat, found' \in Nat,
               truncated' \in BOOLEAN, walkAt' \in {"scan", "entries", "done", "failed"}
        PROVE  Walk!WalkTypes'
    BY <1>1, <1>4 DEF Walk!WalkTypes, Walk!request
  <1>5. CASE Walk!Scan
    <2>1. /\ queue # <<>> /\ UNCHANGED <<Walk!request, files, found>> /\ queue' = Tail(queue)
          /\ directories' = directories + 1 /\ walkAt' = "entries" /\ walkAt = "scan"
      BY <1>5 DEF Walk!Scan
    <2> DEFINE q == Head(queue)
    <2>2. q.dir \in DOMAIN tree /\ q.level \in Nat /\ Len(Tail(queue)) = Len(queue) - 1
          /\ queue' \in Seq([dir : DOMAIN tree, level : Nat])
      BY <1>1, <2>1, WalkParts
    <2>3. batch' = [level |-> q.level, left |-> Walk!Scanned(q.dir)]
          /\ truncated' = (truncated \/ Len(Walk!Visible(q.dir)) > limits.scan)
      BY <1>5 DEF Walk!Scan
    <2>4. batch' \in [level : Nat, left : Seq(Walk!Entries(tree))]
      BY <1>1, <2>2, <2>3, ScannedAreEntries
    <2>5. truncated' \in BOOLEAN
      BY <2>3
    <2>6. Walk!WalkTypes'
      BY <1>2, <1>4, <2>1, <2>2, <2>4, <2>5
    <2> QED
      BY <1>1, <1>2, <1>3, <2>1, <2>2, <2>6 DEF Walk!WithinLimits, Walk!request
  <1>6. CASE Walk!SearchDirectory
    <2>1. /\ UNCHANGED <<Walk!request, directories, files, found, walkAt>>
          /\ Walk!Taking /\ Walk!Next1 /\ Walk!First.kind = "dir" /\ op = "search"
      BY <1>6 DEF Walk!SearchDirectory
    <2>2. \/ truncated' = TRUE /\ queue' = queue
          \/ /\ directories + Len(queue) < limits.directories /\ truncated' = truncated
             /\ Walk!Enqueued(Walk!First.value)
      BY <1>2, <1>6 DEF Walk!SearchDirectory
    <2>3. /\ truncated' \in BOOLEAN
          /\ queue' \in Seq([dir : DOMAIN tree, level : Nat])
          /\ directories + Len(queue') <= limits.directories
      <3>1. directories + Len(queue) <= limits.directories
            /\ queue \in Seq([dir : DOMAIN tree, level : Nat])
        BY <1>1, <2>1 DEF Walk!WalkTypes, Walk!WithinLimits
      <3>2. CASE queue' = queue /\ truncated' = TRUE
        BY <3>1, <3>2
      <3>3. CASE /\ directories + Len(queue) < limits.directories /\ truncated' = truncated
                 /\ Walk!Enqueued(Walk!First.value)
        <4>1. /\ queue' \in Seq([dir : DOMAIN tree, level : Nat])
              /\ Len(queue') = Len(queue) + 1
          BY <1>1, <2>1, <3>3, EnqueuedKeeps
        <4>2. directories + Len(queue') <= limits.directories
          BY <1>2, <3>3, <4>1
        <4> QED
          BY <1>2, <3>3, <4>1, <4>2
      <3> QED
        BY <2>2, <3>2, <3>3
    <2>4. batch' \in [level : Nat, left : Seq(Walk!Entries(tree))]
      BY <1>1, <2>1, TakenKeeps
    <2>5. Walk!WalkTypes'
      BY <1>2, <1>4, <2>1, <2>3, <2>4
    <2> QED
      BY <1>1, <1>3, <2>1, <2>3, <2>5 DEF Walk!WithinLimits, Walk!request
  <1>7. CASE Walk!SearchOther
    <2>1. /\ UNCHANGED <<Walk!request, queue, directories, files, found, truncated, walkAt>>
          /\ Walk!Taking /\ Walk!Next1
      BY <1>7 DEF Walk!SearchOther
    <2>2. Walk!WalkTypes'
      BY <1>1, <1>2, <1>4, <2>1, TakenKeeps DEF Walk!WalkTypes
    <2> QED
      BY <1>1, <1>3, <2>1, <2>2 DEF Walk!WithinLimits, Walk!request
  <1>8. CASE Walk!TooManyFiles
    <2>1. /\ UNCHANGED <<Walk!request, queue, batch, directories, found>>
          /\ files' = files + 1 /\ files = limits.files /\ truncated' = TRUE /\ walkAt' = "done"
      BY <1>8 DEF Walk!TooManyFiles, Walk!Said
    <2>2. Walk!WalkTypes'
      BY <1>1, <1>2, <1>4, <2>1 DEF Walk!WalkTypes
    <2> QED
      BY <1>1, <1>2, <1>3, <2>1, <2>2 DEF Walk!WithinLimits, Walk!request
  <1>9. CASE Walk!SearchFile
    <2>1. /\ UNCHANGED <<Walk!request, queue, directories>> /\ Walk!Taking /\ Walk!Next1
          /\ files < limits.files /\ files' = files + 1 /\ walkAt = "entries"
      BY <1>9 DEF Walk!SearchFile, Walk!Taking
    <2> DEFINE all == found + Walk!Hits(Walk!First)
    <2>2. all \in Nat
      <3>1. Walk!First \in Walk!Entries(tree)
        BY <1>1, <2>1, WalkParts DEF Walk!Taking, Walk!First
      <3>2. Walk!Hits(Walk!First) \in Nat
        BY <3>1 DEF Walk!Entries, Walk!Hits
      <3> QED
        BY <1>2, <3>2
    <2>3. \/ /\ found' = limits.matches /\ truncated' = TRUE /\ walkAt' = "done"
          \/ ~(all >= limits.matches) /\ found' = all /\ UNCHANGED <<truncated, walkAt>>
      BY <1>9 DEF Walk!SearchFile
    <2> HIDE DEF all
    <2>4. /\ found' \in Nat /\ found' <= limits.matches
          /\ walkAt' \in {"scan", "entries"} => found' < limits.matches
          /\ truncated' \in BOOLEAN /\ walkAt' \in {"entries", "done"}
      <3>1. CASE found' = limits.matches /\ truncated' = TRUE /\ walkAt' = "done"
        BY <1>2, <3>1
      <3>2. CASE ~(all >= limits.matches) /\ found' = all /\ UNCHANGED <<truncated, walkAt>>
        BY <1>2, <2>1, <2>2, <3>2
      <3> QED
        BY <2>3, <3>1, <3>2
    <2>5. batch' \in [level : Nat, left : Seq(Walk!Entries(tree))]
      BY <1>1, <2>1, TakenKeeps
    <2>6. files' \in Nat /\ queue' \in Seq([dir : DOMAIN tree, level : Nat])
      BY <1>1, <1>2, <2>1 DEF Walk!WalkTypes
    <2>7. Walk!WalkTypes'
      BY <1>2, <1>4, <2>1, <2>4, <2>5, <2>6
    <2> QED
      BY <1>1, <1>2, <1>3, <2>1, <2>4, <2>7 DEF Walk!WithinLimits, Walk!request
  <1>10. CASE Walk!ListEntry
    <2>1. /\ UNCHANGED <<Walk!request, directories, files>> /\ Walk!Taking /\ Walk!Next1
          /\ walkAt = "entries" /\ op = "list"
      BY <1>10 DEF Walk!ListEntry, Walk!Taking
    <2>2. \/ UNCHANGED <<found, truncated, walkAt, queue>>
          \/ found' = found + 1 /\ truncated' = TRUE /\ walkAt' = "done" /\ queue' = queue
          \/ /\ found' = found + 1 /\ ~(found' >= limits.matches) /\ UNCHANGED <<truncated, walkAt>>
             /\ \/ queue' = queue
                \/ Walk!First.kind = "dir" /\ Walk!Enqueued(Walk!First.value)
      BY <1>10 DEF Walk!ListEntry
    <2>3. /\ found' \in Nat /\ found' <= limits.matches
          /\ walkAt' \in {"scan", "entries"} => found' < limits.matches
          /\ truncated' \in BOOLEAN /\ walkAt' \in {"entries", "done"}
      <3>1. found < limits.matches
        BY <1>1, <2>1
      <3>2. CASE UNCHANGED <<found, truncated, walkAt, queue>>
        BY <1>2, <2>1, <3>1, <3>2
      <3>3. CASE found' = found + 1 /\ truncated' = TRUE /\ walkAt' = "done"
        BY <1>2, <3>1, <3>3
      <3>4. CASE found' = found + 1 /\ ~(found' >= limits.matches) /\ UNCHANGED <<truncated, walkAt>>
        BY <1>2, <2>1, <3>1, <3>4
      <3> QED
        BY <2>2, <3>2, <3>3, <3>4
    <2>4. queue' \in Seq([dir : DOMAIN tree, level : Nat])
      BY <1>1, <2>1, <2>2, EnqueuedKeeps DEF Walk!WalkTypes
    <2>5. batch' \in [level : Nat, left : Seq(Walk!Entries(tree))]
      BY <1>1, <2>1, TakenKeeps
    <2>6. Walk!WalkTypes'
      BY <1>2, <1>4, <2>1, <2>3, <2>4, <2>5
    <2> QED
      BY <1>1, <1>2, <1>3, <2>1, <2>3, <2>6 DEF Walk!WithinLimits, Walk!request
  <1>11. CASE Walk!DirectoryEnds \/ Walk!Cancelled
    <2>1. /\ UNCHANGED <<Walk!request, queue, batch, directories, files, found, truncated>>
          /\ walkAt \in {"scan", "entries"} /\ walkAt' \in {"scan", "entries", "done", "failed"}
      BY <1>11 DEF Walk!DirectoryEnds, Walk!Cancelled
    <2>2. Walk!WalkTypes'
      BY <1>1, <1>2, <1>4, <2>1 DEF Walk!WalkTypes
    <2> QED
      BY <1>1, <1>3, <2>1, <2>2 DEF Walk!WithinLimits, Walk!request
  <1>12. CASE UNCHANGED walkVars
    <2>1. UNCHANGED <<Walk!request, queue, batch, directories, files, found, truncated, walkAt>>
      BY <1>12 DEF walkVars, Walk!request
    <2>2. Walk!WalkTypes'
      BY <1>1, <1>2, <1>4, <2>1 DEF Walk!WalkTypes
    <2> QED
      BY <1>1, <1>3, <2>1, <2>2 DEF Walk!WithinLimits, Walk!request
  <1> QED
    BY <1>5, <1>6, <1>7, <1>8, <1>9, <1>10, <1>11, <1>12 DEF Walk!WalkNext

-----------------------------------------------------------------------------
(* Messages and settings *)

\* r is q without some of its members.
Part(r, q) ==
    \E f \in [1 .. Len(r) -> 1 .. Len(q)] :
       /\ \A k, m \in 1 .. Len(r) : k < m => f[k] < f[m]
       /\ \A k \in 1 .. Len(r) : r[k] = q[f[k]]

\* The end of a queue is a part of it.
LEMMA LastOfIsPart ==
    ASSUME NEW T, NEW q \in Seq(T), NEW n \in Nat
    PROVE  /\ State!LastOf(q, n) \in Seq(T) /\ Part(State!LastOf(q, n), q)
           /\ Len(State!LastOf(q, n)) <= n
           /\ \A i \in 1 .. Len(State!LastOf(q, n)) : State!LastOf(q, n)[i] \in {q[k] : k \in 1 .. Len(q)}
PROOF
  <1> DEFINE d == IF Len(q) > n THEN Len(q) - n ELSE 0
             r == SubSeq(q, d + 1, Len(q))
             f == [k \in 1 .. Len(q) - d |-> k + d]
  <1>1. Len(q) \in Nat /\ d \in 0 .. Len(q) /\ Len(q) - d <= n
        /\ \A k \in 1 .. Len(q) : q[k] \in T
    BY LenProperties, ElementOfSeq
  <1>2. State!LastOf(q, n) = r
    BY <1>1 DEF State!LastOf
  <1> HIDE DEF d
  <1>3. /\ r \in Seq(T) /\ Len(r) = Len(q) - d
        /\ \A i \in 1 .. Len(q) - d : r[i] = q[i + d]
    <2>1. \A i \in d + 1 .. Len(q) : q[i] \in T
      BY <1>1
    <2>2. /\ r \in Seq(T)
          /\ Len(r) = IF d + 1 <= Len(q) THEN Len(q) - (d + 1) + 1 ELSE 0
          /\ \A i \in 1 .. Len(q) - (d + 1) + 1 : r[i] = q[(d + 1) + i - 1]
      <3> HIDE DEF r
      <3> QED
        BY <1>1, <2>1, SubSeqProperties DEF r
    <2> HIDE DEF r
    <2>3. \A i \in 1 .. Len(q) - d : (d + 1) + i - 1 = i + d
      BY <1>1
    <2> QED
      BY <1>1, <2>2, <2>3
  <1> HIDE DEF r
  <1>4. f \in [1 .. Len(r) -> 1 .. Len(q)]
    BY <1>1, <1>3
  <1>5. \A k \in 1 .. Len(r) : r[k] = q[f[k]]
    BY <1>3
  <1>6. \A k, m \in 1 .. Len(r) : k < m => f[k] < f[m]
    BY <1>1, <1>3
  <1> HIDE DEF f
  <1>7. Part(r, q)
    BY <1>4, <1>5, <1>6 DEF Part
  <1> QED
    BY <1>1, <1>2, <1>3, <1>4, <1>5, <1>7

\* So is what is selected from it.
LEMMA OnlyIsPart ==
    ASSUME NEW T, NEW q \in Seq(T), NEW S
    PROVE  /\ Only(q, S) \in Seq(T) /\ Part(Only(q, S), q)
           /\ Len(Only(q, S)) <= Len(q)
           /\ \A i \in 1 .. Len(Only(q, S)) : Only(q, S)[i] \in S \cap {q[k] : k \in 1 .. Len(q)}
PROOF
  <1> DEFINE r == Only(q, S)
  <1>1. r \in Seq(T)
    BY OnlySelects
  <1>2. PICK f : Selects(f, q, S, r)
    BY OnlySelects
  <1> HIDE DEF r
  <1>3. Part(r, q)
    BY <1>2 DEF Part, Selects
  <1>4. \A i \in 1 .. Len(r) : r[i] \in S \cap {q[k] : k \in 1 .. Len(q)}
    BY <1>2 DEF Selects
  <1>5. Len(Only(q, S)) <= Len(q)
    BY KeptIsSequence DEF Only
  <1> QED
    BY <1>1, <1>3, <1>4, <1>5 DEF r

\* What is in order stays so when some of it goes.
LEMMA PartInOrder ==
    ASSUME NEW T, NEW q \in Seq(T), NEW r \in Seq(T), Part(r, q), State!InOrder(q)
    PROVE  State!InOrder(r)
PROOF
  <1>1. DOMAIN q = 1 .. Len(q) /\ DOMAIN r = 1 .. Len(r)
    BY LenProperties
  <1> QED
    BY <1>1 DEF Part, State!InOrder

\* An empty context has no size.
LEMMA NothingHasNoSize == State!SizeOf(<<>>) = 0
PROOF
  <1> DEFINE plus(m, n) == n + m.size
             f(i) == <<>>[i]
             g(s) == CHOOSE x \in s : TRUE
             Is(h) == h = [s \in SUBSET {} |-> IF s = {} THEN 0 
                            ELSE LET x == g(s) IN plus(f(x), h[s \ {x}])]
             iter == CHOOSE h : Is(h)
  <1>1. Is([s \in SUBSET {} |-> 0])
    OBVIOUS
  <1>2. Is(iter)
    BY <1>1
  <1>3. iter[{}] = 0
    BY <1>2
  <1>4. DOMAIN <<>> = {}
    OBVIOUS
  <1>5. State!SizeOf(<<>>) = iter[{}]
    BY <1>4 DEF State!SizeOf, State!FoldSeq, State!FoldFunction, State!FoldFunctionOnSet,
                 State!MapThenFoldSet
  <1> QED
    BY <1>3, <1>5

\* The most of a queue that has room.
LEMMA MostHasRoom ==
    ASSUME StateBounds, NEW T, NEW e \in Seq(T)
    PROVE  \E n \in 0 .. Len(e) : /\ State!SizeOf(State!LastOf(e, n)) <= Room
                                  /\ n < Len(e) => ~(State!SizeOf(State!LastOf(e, n + 1)) <= Room)
PROOF
  <1> DEFINE Fits(n) == State!SizeOf(State!LastOf(e, n)) <= Room
             over == {n \in 0 .. Len(e) : ~Fits(n)}
  <1> SUFFICES \E n \in 0 .. Len(e) : Fits(n) /\ (n < Len(e) => ~Fits(n + 1))
    OBVIOUS
  <1>1. Len(e) \in Nat
    BY LenProperties
  <1>2. State!LastOf(e, 0) = <<>>
    <2>1. (IF Len(e) > 0 THEN Len(e) - 0 + 1 ELSE 1) = Len(e) + 1
      BY <1>1
    <2>2. State!LastOf(e, 0) = SubSeq(e, Len(e) + 1, Len(e))
      BY <2>1 DEF State!LastOf
    <2> QED
      BY <1>1, <2>2, SubSeqEmpty
  <1>3. Fits(0)
    BY <1>2, NothingHasNoSize DEF StateBounds
  <1> HIDE DEF Fits
  <1>4. CASE over = {}
    BY <1>1, <1>4
  <1>5. CASE over # {}
    <2>1. PICK x \in over : \A y \in over : x <= y
      <3>1. over \in SUBSET (1 .. Len(e))
        BY <1>1, <1>3
      <3> HIDE DEF over
      <3>2. /\ Cardinality(over) \in Nat
            /\ \A k \in 1 .. Cardinality(over) : Place(over, k) \in over
            /\ \A i \in over : \E k \in 1 .. Cardinality(over) : Place(over, k) = i
            /\ \A k, m \in 1 .. Cardinality(over) :
                 k < m <=> Place(over, k) < Place(over, m)
        BY <1>1, <3>1, PlacesAreNumbered
      <3>3. 1 \in 1 .. Cardinality(over) /\ Place(over, 1) \in over
        BY <1>5, <3>2
      <3>4. \A y \in over : Place(over, 1) <= y
        <4> SUFFICES ASSUME NEW y \in over PROVE Place(over, 1) <= y
          OBVIOUS
        <4>1. PICK k \in 1 .. Cardinality(over) : Place(over, k) = y
          BY <3>2
        <4>2. k = 1 \/ 1 < k
          BY <3>2
        <4>3. Place(over, 1) \in 1 .. Len(e) /\ y \in 1 .. Len(e)
          BY <3>1, <3>3
        <4> QED
          BY <1>1, <3>2, <3>3, <4>1, <4>2, <4>3
      <3> QED
        BY <3>3, <3>4
    <2>2. x \in 1 .. Len(e)
      BY <1>1, <1>3
    <2>3. x - 1 \notin over
      BY <1>1, <2>1, <2>2
    <2> QED
      BY <1>1, <2>2, <2>3
  <1> QED
    BY <1>4, <1>5

\* What the component selects with is what Selection does.
LEMMA OnlyHere == \A q, S : State!Only(q, S) = Only(q, S)
PROOF
  <1>1. \A S : State!Cardinality(S) = Cardinality(S)
    BY DEF State!Cardinality, Cardinality
  <1>2. \A I, n : State!Place(I, n) = Place(I, n)
    BY <1>1 DEF State!Place, Place
  <1>3. \A q, I : State!Kept(q, I) = Kept(q, I)
    BY <1>1, <1>2 DEF State!Kept, Kept
  <1> QED
    BY <1>3 DEF State!Only, Only

\* What a turn gives the model of earlier ones.
LEMMA SelectedIsSound ==
    ASSUME StateBounds, messages \in Seq(State!Message), State!InOrder(messages), NEW t
    PROVE  LET c == State!Selected(t) IN
           /\ c \in Seq(State!Message) /\ State!InOrder(c)
           /\ State!SizeOf(c) <= Room /\ Len(c) <= RecentLimit
           /\ \A i \in DOMAIN c : c[i].turn # t /\ c[i] \in State!Held(messages)
PROOF
  <1> DEFINE M == State!Message
             l == State!LastOf(messages, RecentLimit)
             e == State!Eligible(t)
             Fits(n) == State!SizeOf(State!LastOf(e, n)) <= Room
             most == CHOOSE n \in 0 .. Len(e) : Fits(n) /\ (n < Len(e) => ~Fits(n + 1))
             c == State!LastOf(e, most)
  <1>1. c = State!Selected(t)
    BY DEF State!Selected
  <1>2. /\ l \in Seq(M) /\ Part(l, messages) /\ Len(l) <= RecentLimit
        /\ \A i \in 1 .. Len(l) : l[i] \in {messages[k] : k \in 1 .. Len(messages)}
    BY LastOfIsPart DEF StateBounds
  <1>3. State!InOrder(l)
    BY <1>2, PartInOrder
  <1>4. e = Only(l, {m \in M : m.turn # t})
    BY OnlyHere DEF State!Eligible
  <1> HIDE DEF l, e
  <1>5. /\ e \in Seq(M) /\ Part(e, l) /\ Len(e) <= Len(l)
        /\ \A i \in 1 .. Len(e) :
              e[i] \in {m \in M : m.turn # t} \cap {l[k] : k \in 1 .. Len(l)}
    <2> DEFINE S == {m \in M : m.turn # t}
    <2> HIDE DEF M, S
    <2>1. /\ Only(l, S) \in Seq(M) /\ Part(Only(l, S), l) /\ Len(Only(l, S)) <= Len(l)
          /\ \A i \in 1 .. Len(Only(l, S)) : 
                Only(l, S)[i] \in S \cap {l[k] : k \in 1 .. Len(l)}
      BY <1>2, OnlyIsPart
    <2> QED
      BY <1>4, <2>1 DEF S
  <1>6. State!InOrder(e)
    BY <1>2, <1>3, <1>5, PartInOrder
  <1>7. \E n \in 0 .. Len(e) : Fits(n) /\ (n < Len(e) => ~Fits(n + 1))
    BY <1>5, MostHasRoom
  <1> HIDE DEF Fits
  <1>8. most \in 0 .. Len(e) /\ Fits(most)
    BY <1>7
  <1> HIDE DEF most
  <1>9. Len(e) \in Nat /\ Len(l) \in Nat /\ most \in Nat
    BY <1>2, <1>5, <1>8, LenProperties
  <1>10. /\ c \in Seq(M) /\ Part(c, e) /\ Len(c) <= most
         /\ \A i \in 1 .. Len(c) : c[i] \in {e[k] : k \in 1 .. Len(e)}
    BY <1>5, <1>9, LastOfIsPart
  <1>11. State!SizeOf(c) <= Room
    BY <1>8 DEF Fits
  <1> HIDE DEF c
  <1>12. State!InOrder(c)
    BY <1>5, <1>6, <1>10, PartInOrder
  <1>13. Len(c) <= RecentLimit
    BY <1>2, <1>5, <1>8, <1>9, <1>10, LenProperties DEF StateBounds
  <1>14. DOMAIN c = 1 .. Len(c) /\ DOMAIN messages = 1 .. Len(messages)
    BY <1>10, LenProperties
  <1>15. \A i \in 1 .. Len(c) : c[i].turn # t /\ c[i] \in State!Held(messages)
    <2> SUFFICES ASSUME NEW i \in 1 .. Len(c)
                 PROVE  c[i].turn # t /\ c[i] \in State!Held(messages)
      OBVIOUS
    <2>1. PICK k \in 1 .. Len(e) : c[i] = e[k]
      BY <1>10
    <2>2. PICK n \in 1 .. Len(l) : e[k].turn # t /\ e[k] = l[n]
      BY <1>5
    <2> QED
      BY <1>2, <1>14, <2>1, <2>2 DEF State!Held
  <1> QED
    BY <1>1, <1>10, <1>11, <1>12, <1>13, <1>14, <1>15

\* A message that is stored comes after all that is there of its turn.
LEMMA AppendedInOrder ==
    ASSUME StateBounds, messages \in Seq(State!Message), State!InOrder(messages),
           NEW m \in State!Message,
           m.role = "user" =>
              \A h \in State!Held(messages) : ~(h.turn = m.turn /\ h.role = "assistant")
    PROVE  LET r == State!Appended(m) IN
           /\ r \in Seq(State!Message) /\ State!InOrder(r)
           /\ State!Held(r) \subseteq State!Held(messages) \cup {m}
PROOF
  <1> DEFINE a == Append(messages, m)
             r == State!LastOf(a, MaximumMessages)
  <1>1. /\ DOMAIN messages = 1 .. Len(messages) /\ Len(messages) \in Nat
        /\ \A i \in 1 .. Len(messages) : messages[i] \in State!Message
    BY LenProperties, ElementOfSeq
  <1>2. CASE State!Stored(m)
    BY <1>2 DEF State!Appended
  <1>3. CASE ~State!Stored(m)
    <2>1. /\ a \in Seq(State!Message) /\ Len(a) = Len(messages) + 1
          /\ \A i \in 1 .. Len(messages) : a[i] = messages[i]
          /\ a[Len(messages) + 1] = m
      BY <1>1, AppendProperties
    <2> HIDE DEF a
    <2>2. DOMAIN a = 1 .. Len(messages) + 1
      BY <2>1, LenProperties
    <2>3. \A i \in 1 .. Len(messages) : messages[i].turn = m.turn => messages[i].role = "user"
      <3> SUFFICES ASSUME NEW i \in 1 .. Len(messages), messages[i].turn = m.turn
                   PROVE  messages[i].role = "user"
        OBVIOUS
      <3>1. messages[i].role # m.role
        BY <1>1, <1>3 DEF State!Stored
      <3>2. messages[i] \in State!Held(messages)
        BY <1>1 DEF State!Held
      <3> QED
        BY <1>1, <3>1, <3>2 DEF State!Message
    <2>4. State!InOrder(a)
      <3> SUFFICES ASSUME NEW i \in 1 .. Len(messages) + 1, NEW j \in 1 .. Len(messages) + 1,
                          i < j, a[i].turn = a[j].turn
                   PROVE  a[i].role = "user"
        BY <2>2 DEF State!InOrder
      <3>1. i \in 1 .. Len(messages) /\ a[i] = messages[i]
        BY <1>1, <2>1
      <3>2. CASE j = Len(messages) + 1
        BY <2>1, <2>3, <3>1, <3>2
      <3>3. CASE j \in 1 .. Len(messages)
        BY <1>1, <2>1, <3>1, <3>3 DEF State!InOrder
      <3> QED
        BY <1>1, <3>2, <3>3
    <2>5. /\ r \in Seq(State!Message) /\ Part(r, a)
          /\ \A i \in 1 .. Len(r) : r[i] \in {a[k] : k \in 1 .. Len(a)}
      BY <2>1, LastOfIsPart DEF StateBounds
    <2>6. r = State!Appended(m)
      BY <1>3 DEF State!Appended, a
    <2> HIDE DEF r
    <2>7. State!InOrder(r)
      BY <2>1, <2>4, <2>5, PartInOrder
    <2>8. DOMAIN r = 1 .. Len(r)
      BY <2>5, LenProperties
    <2>9. State!Held(r) \subseteq State!Held(messages) \cup {m}
      <3>1. \A k \in 1 .. Len(a) : a[k] \in State!Held(messages) \cup {m}
        <4> SUFFICES ASSUME NEW k \in 1 .. Len(a)
                     PROVE  a[k] \in State!Held(messages) \cup {m}
          OBVIOUS
        <4>1. k \in 1 .. Len(messages) \/ k = Len(messages) + 1
          BY <1>1, <2>1
        <4> QED
          BY <1>1, <2>1, <4>1 DEF State!Held
      <3> QED
        BY <2>5, <2>8, <3>1 DEF State!Held
    <2> QED
      BY <2>5, <2>6, <2>7, <2>9
  <1> QED
    BY <1>2, <1>3

\* What a step leaves of the writes of the turns when it adds none.
LEMMA TurnsGoOn ==
    ASSUME State!StateTypes, State!WritesInTurn,
           writing' \subseteq writing, completed \subseteq completed',
           State!Held(messages)' \subseteq State!Held(messages) \cup writing,
           \A t \in Turns : turnAt'[t] # turnAt[t] =>
              \/ turnAt'[t] \in {"storing", "delivery", "ended"}
              \/ turnAt[t] = "asking" /\ turnAt'[t] = "model" /\ \A m \in writing' : m.turn # t
              \/ turnAt[t] = "model" /\ turnAt'[t] = "inference"
    PROVE  State!WritesInTurn'
PROOF
  <1>1. \A t, role : State!Known(t, role)' => State!Known(t, role)
    BY DEF State!Known
  <1> QED
    BY <1>1 DEF State!WritesInTurn

\* Nothing is stored yet.
LEMMA StateStarts == StateBounds /\ State!StateInit => State!StateInv
PROOF
  <1> SUFFICES ASSUME StateBounds, State!StateInit PROVE State!StateInv
    OBVIOUS
  <1> USE DEF State!StateInit
  <1>1. State!StateTypes
    BY EmptySeq DEF State!StateTypes, State!Kinds
  <1>2. State!Held(messages) = {}
    BY DEF State!Held
  <1>3. \A t, role : ~State!Known(t, role)
    BY <1>2 DEF State!Known
  <1>4. State!WritesInTurn
    BY <1>3 DEF State!WritesInTurn
  <1>5. State!InOrder(messages)
    BY DEF State!InOrder
  <1>6. State!ContextIsSound
    BY NothingHasNoSize DEF State!ContextIsSound, StateBounds
  <1> QED
    BY <1>1, <1>4, <1>5, <1>6 DEF State!StateInv, State!ReportedSettingIsKept

\* Contexts that stay are as sound as they were.
LEMMA ContextsStay ==
    ASSUME State!ContextIsSound, context' = context, completed \subseteq completed'
    PROVE  State!ContextIsSound'
PROOF
  BY DEF State!ContextIsSound

\* A step of one turn that writes nothing and gives the model nothing.
LEMMA StateGoesOn ==
    ASSUME State!StateInv, messages' = messages, context' = context, writing' \subseteq writing,
           completed' = completed, UNCHANGED <<running, stored, confirmed>>,
           turnAt' \in [Turns -> {"next", "asking", "model", "inference", "storing",
                                "delivery", "ended"}],
           \A t \in Turns : turnAt'[t] \in {turnAt[t], "ended"}
    PROVE  State!StateInv'
PROOF
  <1>1. State!StateTypes'
    BY DEF State!StateInv, State!StateTypes
  <1>2. State!Held(messages)' = State!Held(messages)
    BY DEF State!Held
  <1>3. State!WritesInTurn'
    BY <1>2, TurnsGoOn DEF State!StateInv
  <1>4. State!InOrder(messages)'
    BY DEF State!StateInv, State!InOrder
  <1>5. State!ContextIsSound'
    BY ContextsStay DEF State!StateInv
  <1> QED
    BY <1>1, <1>3, <1>4, <1>5 DEF State!StateInv, State!ReportedSettingIsKept

\* Every step of turns, worker threads and settings keeps the contexts sound.
LEMMA StateStep ==
    ASSUME StateBounds, State!StateInv, [State!StateNext]_stateVars
    PROVE  State!StateInv'
PROOF
  <1> DEFINE settings == <<running, stored, confirmed>>
  <1>1. /\ State!StateTypes /\ State!WritesInTurn /\ State!InOrder(messages)
        /\ State!ContextIsSound /\ State!ReportedSettingIsKept
    BY DEF State!StateInv
  <1>2. ASSUME UNCHANGED settings PROVE State!ReportedSettingIsKept'
    BY <1>1, <1>2 DEF State!ReportedSettingIsKept
  <1>3. ASSUME messages' = messages
        PROVE  State!Held(messages)' = State!Held(messages) /\ State!InOrder(messages)'
    BY <1>1, <1>3 DEF State!Held, State!InOrder
  <1>4. ASSUME NEW t \in Turns, State!Submit(t)
        PROVE  State!StateInv'
    <2>1. PICK s \in Sizes[t] : writing' = writing \cup {[turn |-> t, role |-> "user", size |-> s]}
      BY <1>4 DEF State!Submit, State!Hand
    <2> DEFINE n == [turn |-> t, role |-> "user", size |-> s]
    <2>2. n \in State!Message /\ n.turn = t /\ n.role = "user"
      BY DEF State!Message
    <2> HIDE DEF n
    <2>3. /\ turnAt[t] = "next" /\ turnAt' = [turnAt EXCEPT ![t] = "asking"]
          /\ UNCHANGED <<messages, context, completed, settings>>
      BY <1>4 DEF State!Submit, State!To, State!settings
    <2>4. State!StateTypes'
      BY <1>1, <2>1, <2>2, <2>3 DEF State!StateTypes, n
    <2>5. /\ turnAt'[t] = "asking"
          /\ \A u \in Turns : u # t => turnAt'[u] = turnAt[u]
      BY <1>1, <2>3 DEF State!StateTypes
    <2>6. writing' = writing \cup {n} /\ State!Held(messages)' = State!Held(messages)
      BY <1>3, <2>1, <2>3 DEF n
    <2>7. \A u, role : State!Known(u, role)' <=> State!Known(u, role) \/ (u = t /\ role = "user")
      BY <2>2, <2>6 DEF State!Known
    <2>8. ~State!Known(t, "user") /\ ~State!Known(t, "assistant")
      BY <1>1, <2>3 DEF State!WritesInTurn
    <2>9. \A m \in writing : m.turn # t
      BY <1>1, <2>8 DEF State!Known, State!StateTypes, State!Message
    <2>10. /\ \A u \in Turns :
               /\ turnAt'[u] = "next" => ~State!Known(u, "user")'
               /\ turnAt'[u] \in {"next", "asking", "model", "inference"} =>
                     ~State!Known(u, "assistant")'
               /\ turnAt'[u] \in {"model", "inference"} => \A m \in writing' : m.turn # u
               /\ State!Known(u, "assistant")' => u \in completed'
      BY <1>1, <2>2, <2>3, <2>5, <2>6, <2>7, <2>8 DEF State!WritesInTurn
    <2>11. \A m, o \in writing' : m.turn = o.turn => m = o
      BY <1>1, <2>2, <2>6, <2>9 DEF State!WritesInTurn
    <2>12. \A m \in writing' : m.role = "user" => ~State!Known(m.turn, "assistant")'
      BY <1>1, <2>2, <2>6, <2>7, <2>8 DEF State!WritesInTurn
    <2>13. State!WritesInTurn'
      BY <2>10, <2>11, <2>12 DEF State!WritesInTurn
    <2> QED
      BY <1>1, <1>2, <1>3, <2>3, <2>4, <2>13, ContextsStay DEF State!StateInv
  <1>5. ASSUME NEW m \in writing, State!Commit(m)
        PROVE  State!StateInv'
    <2> DEFINE next == IF turnAt[m.turn] = "asking" THEN "model"
                       ELSE IF turnAt[m.turn] = "storing" THEN "delivery" ELSE turnAt[m.turn]
    <2>1. m \in State!Message /\ m.turn \in Turns
      BY <1>1 DEF State!StateTypes, State!Message
    <2>2. /\ writing' = writing \ {m} /\ messages' = State!Appended(m)
          /\ turnAt' = [turnAt EXCEPT ![m.turn] = next]
          /\ UNCHANGED <<context, completed, settings>>
      BY <1>5 DEF State!Commit, State!settings
    <2>3. m.role = "user" =>
              \A h \in State!Held(messages) : ~(h.turn = m.turn /\ h.role = "assistant")
      BY <1>1 DEF State!WritesInTurn, State!Known
    <2>4. /\ messages' \in Seq(State!Message) /\ State!InOrder(messages)'
          /\ State!Held(messages)' \subseteq State!Held(messages) \cup {m}
      <3>1. LET r == State!Appended(m) IN
             /\ r \in Seq(State!Message) /\ State!InOrder(r)
             /\ State!Held(r) \subseteq State!Held(messages) \cup {m}
        BY <1>1, <2>1, <2>3, AppendedInOrder DEF State!StateTypes
      <3> QED
        BY <2>2, <3>1 DEF State!InOrder, State!Held
    <2>5. State!StateTypes'
      BY <1>1, <2>1, <2>2, <2>4 DEF State!StateTypes
    <2>6. \A n \in writing' : n.turn # m.turn
      BY <1>1, <2>2 DEF State!WritesInTurn
    <2>7. ASSUME NEW t \in Turns, turnAt'[t] # turnAt[t]
          PROVE  \/ turnAt'[t] \in {"storing", "delivery", "ended"}
                 \/ turnAt[t] = "asking" /\ turnAt'[t] = "model" /\ \A n \in writing' : n.turn # t
      <3>1. t = m.turn /\ turnAt'[t] = next
        BY <1>1, <2>1, <2>2, <2>7 DEF State!StateTypes
      <3> QED
        BY <2>6, <2>7, <3>1
    <2> HIDE DEF next
    <2>8. State!WritesInTurn'
      BY <1>1, <2>2, <2>4, <2>7, TurnsGoOn
    <2> QED
      BY <1>1, <1>2, <2>2, <2>4, <2>5, <2>8, ContextsStay DEF State!StateInv
  <1>6. ASSUME NEW m \in writing, State!CommitFails(m)
        PROVE  State!StateInv'
    <2>1. m.turn \in Turns
      BY <1>1 DEF State!StateTypes, State!Message
    <2> QED
      BY <1>1, <1>6, <2>1, StateGoesOn
      DEF State!CommitFails, State!To, State!settings, State!StateTypes
  <1>7. ASSUME NEW t \in Turns, State!ReadContext(t)
        PROVE  State!StateInv'
    <2>1. /\ turnAt[t] = "model" /\ turnAt' = [turnAt EXCEPT ![t] = "inference"]
          /\ context' = [context EXCEPT ![t] = State!Selected(t)]
          /\ UNCHANGED <<writing, messages, completed, settings>>
      BY <1>7 DEF State!ReadContext, State!To, State!settings
    <2> DEFINE c == State!Selected(t)
    <2>2. /\ c \in Seq(State!Message) /\ State!InOrder(c)
          /\ State!SizeOf(c) <= Room /\ Len(c) <= RecentLimit
          /\ \A i \in DOMAIN c : c[i].turn # t /\ c[i] \in State!Held(messages)
      BY <1>1, SelectedIsSound DEF State!StateTypes
    <2> HIDE DEF c
    <2>3. State!StateTypes'
      BY <1>1, <2>1, <2>2 DEF State!StateTypes, c
    <2>4. \A u \in Turns : turnAt'[u] # turnAt[u] =>
              turnAt[u] = "model" /\ turnAt'[u] = "inference"
      BY <1>1, <2>1 DEF State!StateTypes
    <2>5. State!WritesInTurn'
      BY <1>1, <1>3, <2>1, <2>4, TurnsGoOn
    <2>6. \A i \in DOMAIN c : c[i].role = "assistant" => c[i].turn \in completed
      <3> SUFFICES ASSUME NEW i \in DOMAIN c, c[i].role = "assistant"
                   PROVE  c[i].turn \in completed
        OBVIOUS
      <3>1. State!Known(c[i].turn, "assistant")
        BY <2>2 DEF State!Known
      <3>2. c[i].turn \in Turns
        <4>1. i \in 1 .. Len(c)
          BY <2>2, LenProperties
        <4>2. c[i] \in State!Message
          BY <2>2, <4>1, ElementOfSeq
        <4> QED
          BY <4>2 DEF State!Message
      <3> QED
        BY <1>1, <3>1, <3>2 DEF State!WritesInTurn
    <2>7. /\ context'[t] = c
          /\ \A u \in Turns : u # t => context'[u] = context[u]
      BY <1>1, <2>1 DEF State!StateTypes, c
    <2>8. State!ContextIsSound'
      BY <1>1, <2>1, <2>2, <2>6, <2>7 DEF State!ContextIsSound, State!InOrder
    <2> QED
      BY <1>2, <1>3, <2>1, <2>3, <2>5, <2>8 DEF State!StateInv
  <1>8. ASSUME NEW t \in Turns, State!ModelCompletes(t)
        PROVE  State!StateInv'
    <2>1. PICK s \in Sizes[t] :
             writing' = writing \cup {[turn |-> t, role |-> "assistant", size |-> s]}
      BY <1>8 DEF State!ModelCompletes, State!Hand
    <2> DEFINE n == [turn |-> t, role |-> "assistant", size |-> s]
    <2>2. n \in State!Message /\ n.turn = t /\ n.role = "assistant"
      BY DEF State!Message
    <2> HIDE DEF n
    <2>3. /\ turnAt[t] = "inference" /\ turnAt' = [turnAt EXCEPT ![t] = "storing"]
          /\ completed' = completed \cup {t}
          /\ UNCHANGED <<messages, context, settings>>
      BY <1>8 DEF State!ModelCompletes, State!To, State!settings
    <2>4. State!StateTypes'
      BY <1>1, <2>1, <2>2, <2>3 DEF State!StateTypes, n
    <2>5. /\ turnAt'[t] = "storing"
          /\ \A u \in Turns : u # t => turnAt'[u] = turnAt[u]
      BY <1>1, <2>3 DEF State!StateTypes
    <2>6. writing' = writing \cup {n} /\ State!Held(messages)' = State!Held(messages)
      BY <1>3, <2>1, <2>3 DEF n
    <2>7. \A u, role : State!Known(u, role)' <=> State!Known(u, role) \/ (u = t /\ role = "assistant")
      BY <2>2, <2>6 DEF State!Known
    <2>8. \A m \in writing : m.turn # t
      BY <1>1, <2>3 DEF State!WritesInTurn
    <2>9. /\ \A u \in Turns :
               /\ turnAt'[u] = "next" => ~State!Known(u, "user")'
               /\ turnAt'[u] \in {"next", "asking", "model", "inference"} =>
                     ~State!Known(u, "assistant")'
               /\ turnAt'[u] \in {"model", "inference"} => \A m \in writing' : m.turn # u
               /\ State!Known(u, "assistant")' => u \in completed'
      BY <1>1, <2>2, <2>3, <2>5, <2>6, <2>7 DEF State!WritesInTurn
    <2>10. \A m, o \in writing' : m.turn = o.turn => m = o
      BY <1>1, <2>2, <2>6, <2>8 DEF State!WritesInTurn
    <2>11. \A m \in writing' : m.role = "user" => ~State!Known(m.turn, "assistant")'
      BY <1>1, <2>2, <2>6, <2>7, <2>8 DEF State!WritesInTurn
    <2>12. State!WritesInTurn'
      BY <2>9, <2>10, <2>11 DEF State!WritesInTurn
    <2> QED
      BY <1>1, <1>2, <1>3, <2>3, <2>4, <2>12, ContextsStay DEF State!StateInv
  <1>9. ASSUME NEW t \in Turns, State!Deliver(t) \/ State!TurnEnds(t)
        PROVE  State!StateInv'
    BY <1>1, <1>9, StateGoesOn
    DEF State!Deliver, State!TurnEnds, State!To, State!settings, State!StateTypes
  <1>10. ASSUME UNCHANGED <<turnAt, writing, messages, context, completed>>,
                State!ReportedSettingIsKept',
                running' \in [State!Kinds -> Values \cup {"default"}],
                stored' \in [State!Kinds -> Values \cup {"default"}]
         PROVE  State!StateInv'
    <2>1. State!StateTypes'
      BY <1>1, <1>10 DEF State!StateTypes
    <2>2. State!WritesInTurn'
      BY <1>1, <1>3, <1>10, TurnsGoOn
    <2> QED
      BY <1>1, <1>3, <1>10, <2>1, <2>2, ContextsStay DEF State!StateInv
  <1>11. ASSUME NEW v \in Values, NEW ok \in BOOLEAN, State!SetVisual(v, ok)
         PROVE  State!StateInv'
    BY <1>1, <1>10, <1>11
    DEF State!SetVisual, State!Confirmed, State!Set, State!turnState, State!StateTypes,
        State!ReportedSettingIsKept, State!Kinds
  <1>12. ASSUME NEW v \in Values, NEW ok \in BOOLEAN, State!SetLanguage(v, ok)
         PROVE  State!StateInv'
    BY <1>1, <1>10, <1>12
    DEF State!SetLanguage, State!Confirmed, State!Set, State!turnState, State!StateTypes,
        State!ReportedSettingIsKept, State!Kinds
  <1>13. CASE State!Restart
    <2>1. /\ turnAt' = [t \in Turns |-> IF t \in State!Active THEN "ended" ELSE turnAt[t]]
          /\ writing' = {} /\ running' = stored
          /\ UNCHANGED <<messages, context, completed, stored, confirmed>>
      BY <1>13 DEF State!Restart
    <2>2. State!StateTypes'
      BY <1>1, <2>1 DEF State!StateTypes
    <2>3. State!WritesInTurn'
      BY <1>1, <1>3, <2>1, TurnsGoOn
    <2> QED
      BY <1>1, <1>3, <2>1, <2>2, <2>3, ContextsStay DEF State!StateInv, State!ReportedSettingIsKept
  <1>14. CASE UNCHANGED stateVars
    BY <1>1, <1>10, <1>14 DEF stateVars, State!StateTypes, State!ReportedSettingIsKept
  <1> QED
    BY <1>4, <1>5, <1>6, <1>7, <1>8, <1>9, <1>11, <1>12, <1>13, <1>14 DEF State!StateNext

-----------------------------------------------------------------------------
(* Voice session *)

\* The phases in which a listener hears.
Listened == {"listen", "listenFinal"}

\* A listener that goes on as r fits the others.
Fits(k, r) ==
    /\ r \in Voice!ListenerRecord
    /\ r.token \in {0, listener[k].token} \/ (r.token = drawn' /\ drawn' = drawn + 1)
    /\ r.pc = "off" \/ k <= drawn'
    /\ r.token \in openStreams' => r.pc \in Voice!Streaming /\ ~Voice!Settled(r)
    /\ openStreams' \subseteq openStreams \cup {r.token}
    /\ listener[k].token \in openStreams' => listener[k].token = r.token
    /\ Voice!HasToken(r)

\* The fields of a listener.
LEMMA RecordFields ==
    \A l \in Voice!ListenerRecord :
       /\ l.pc \in Voice!ListenerPcs /\ l.manager \in Voice!Listeners
       /\ l.token \in Voice!Listeners /\ l.turn \in Voice!Listeners
       /\ l.stream \in {"none", "open", "final"} /\ l.epoch \in Nat
       /\ l.tries \in 0 .. Voice!MaxAttempts
PROOF
  BY DEF Voice!ListenerRecord

\* A step of one listener, and of whatever else moves with it.
LEMMA SessionGoesOn ==
    ASSUME VoiceBounds, Voice!VoiceInv, NEW k \in Voice!Listeners, NEW r, Fits(k, r),
           listener' = [listener EXCEPT ![k] = r],
           drawn' \in 0 .. MaxIds, drawn' \in {drawn, drawn + 1}, 
           cancelled' \subseteq Voice!Ids, openStreams' \subseteq Voice!Ids,
           Voice!ManagerTypes', Voice!TurnTypes', Voice!FlagTypes', Voice!MicrophoneIsTaken'
    PROVE  Voice!VoiceInv'
PROOF
  <1> USE DEF Voice!Listeners, Voice!Loop, Voice!Ids, VoiceBounds
  <1>1. /\ Voice!SessionTypes /\ Voice!TokensAreOwn /\ Voice!StreamsAreHeld
        /\ listener \in [Voice!Listeners -> Voice!ListenerRecord]
    BY DEF Voice!VoiceInv, Voice!SessionTypes
  <1>2. /\ listener' \in [Voice!Listeners -> Voice!ListenerRecord]
        /\ listener'[k] = r /\ \A j \in Voice!Listeners : j # k => listener'[j] = listener[j]
    BY <1>1 DEF Fits
  <1>3. Voice!SessionTypes'
    BY <1>2 DEF Voice!SessionTypes
  <1>4. /\ drawn \in Nat /\ r.token \in Nat
        /\ \A j \in Voice!Listeners : listener[j].token \in Nat /\ listener[j].token <= drawn
    <2>1. \A l \in Voice!ListenerRecord : l.token \in Nat
      BY RecordFields
    <2>2. r \in Voice!ListenerRecord /\ \A j \in Voice!Listeners : listener[j] \in Voice!ListenerRecord
      BY <1>1 DEF Fits
    <2> QED
      BY <1>1, <2>1, <2>2 DEF Voice!SessionTypes, Voice!TokensAreOwn, Voice!Token
  <1>5. Voice!TokensAreOwn'
    <2>1. r.token <= drawn'
      BY <1>4 DEF Fits
    <2>2. \A j \in Voice!Listeners : /\ Voice!Token(j)' <= drawn'
                                     /\ Voice!HasToken(listener[j])'
      BY <1>1, <1>2, <1>4, <2>1 DEF Voice!TokensAreOwn, Voice!Token, Voice!HasToken, Fits
    <2>3. \A j \in Voice!Listeners : j # k /\ r.token = listener[j].token => r.token = 0
      BY <1>1, <1>4 DEF Voice!TokensAreOwn, Voice!Token, Fits
    <2>4. \A i, j \in Voice!Listeners :
             Voice!Token(i)' = Voice!Token(j)' /\ i # j => Voice!Token(j)' = 0
      BY <1>1, <1>2, <2>3 DEF Voice!TokensAreOwn, Voice!Token
    <2>5. \A j \in Voice!Ids : j > drawn' => Voice!At(j, "off")'
      BY <1>1, <1>2, <1>4 DEF Voice!TokensAreOwn, Voice!At, Fits
    <2>6. \A t \in openStreams' : t <= drawn'
      BY <1>1, <1>4, <2>1 DEF Voice!TokensAreOwn, Fits
    <2> QED
      BY <2>2, <2>4, <2>5, <2>6 DEF Voice!TokensAreOwn
  <1>6. Voice!StreamsAreHeld'
    <2>1. ASSUME NEW t \in openStreams'
          PROVE  \E j \in Voice!Listeners : /\ Voice!Token(j)' = t
                                            /\ listener'[j].pc \in Voice!Streaming
      <3>1. CASE t = r.token
        BY <1>2, <2>1, <3>1 DEF Fits, Voice!Token
      <3>2. CASE t # r.token
        <4>1. t \in openStreams
          BY <2>1, <3>2 DEF Fits
        <4>2. PICK j \in Voice!Listeners : Voice!Token(j) = t /\ listener[j].pc \in Voice!Streaming
          BY <1>1, <4>1 DEF Voice!StreamsAreHeld, Voice!StreamsAreSettled, Voice!Streaming
        <4>3. j # k
          BY <2>1, <3>2, <4>2 DEF Fits, Voice!Token
        <4> QED
          BY <1>2, <4>2, <4>3 DEF Voice!Token
      <3> QED
        BY <3>1, <3>2
    <2>2. Voice!StreamsAreSettled'
      BY <2>1 DEF Voice!StreamsAreSettled, Voice!Streaming
    <2>3. ASSUME NEW j \in Voice!Listeners, Voice!Settled(listener[j])'
          PROVE  Voice!Token(j)' \notin openStreams'
      <3>1. CASE j = k
        BY <1>2, <2>3, <3>1 DEF Fits, Voice!Token, Voice!Settled
      <3>2. CASE j # k
        <4>1. listener'[j] = listener[j]
          BY <1>2, <3>2
        <4>2. Voice!Token(j) \notin openStreams
          BY <1>1, <2>3, <4>1 DEF Voice!StreamsAreHeld, Voice!Settled
        <4>3. Voice!Token(j) = r.token => r.token \notin openStreams'
          BY <1>1, <3>2, <1>4 DEF Voice!TokensAreOwn, Voice!Token, Fits
        <4> QED
          BY <4>1, <4>2, <4>3 DEF Fits, Voice!Token
      <3> QED
        BY <3>1, <3>2
    <2> QED
      BY <2>2, <2>3 DEF Voice!StreamsAreHeld
  <1> QED
    BY <1>3, <1>5, <1>6 DEF Voice!VoiceInv

\* What is known of each listener.
LEMMA ListenerIsOwn ==
    ASSUME VoiceBounds, Voice!VoiceInv, NEW k \in Voice!Listeners
    PROVE  /\ listener \in [Voice!Listeners -> Voice!ListenerRecord]
           /\ listener[k] \in Voice!ListenerRecord
           /\ listener[k].token = 0 \/ listener[k].token \in Voice!Ids
           /\ drawn \in Nat /\ drawn \in 0 .. MaxIds
           /\ cancelled \subseteq Voice!Ids /\ openStreams \subseteq Voice!Ids
           /\ Voice!HasToken(listener[k])
           /\ listener[k].pc = "off" \/ k <= drawn
           /\ listener[k].token \in openStreams =>
                 listener[k].pc \in Voice!Streaming /\ ~Voice!Settled(listener[k])
PROOF
  <1> USE DEF Voice!Listeners, Voice!Loop, Voice!Ids, VoiceBounds
  <1>1. /\ listener \in [Voice!Listeners -> Voice!ListenerRecord]
        /\ listener[k] \in Voice!ListenerRecord
        /\ drawn \in Nat /\ drawn \in 0 .. MaxIds
        /\ cancelled \subseteq Voice!Ids /\ openStreams \subseteq Voice!Ids
    BY DEF Voice!VoiceInv, Voice!SessionTypes
  <1>2. listener[k].token = 0 \/ listener[k].token \in Voice!Ids
    BY <1>1, RecordFields
  <1>3. /\ Voice!HasToken(listener[k]) /\ (listener[k].pc = "off" \/ k <= drawn)
        /\ \A j \in Voice!Listeners : listener[j].token = listener[k].token /\ j # k => listener[k].token = 0
        /\ Voice!Settled(listener[k]) => listener[k].token \notin openStreams
    BY <1>1 DEF Voice!VoiceInv, Voice!TokensAreOwn, Voice!StreamsAreHeld, Voice!Token, Voice!At
  <1>4. listener[k].token \in openStreams => listener[k].pc \in Voice!Streaming
    <2> SUFFICES ASSUME listener[k].token \in openStreams
                 PROVE  listener[k].pc \in Voice!Streaming
      OBVIOUS
    <2>1. PICK j \in Voice!Listeners : /\ listener[j].token = listener[k].token
                                       /\ listener[j].pc \in Voice!Streaming
      BY DEF Voice!VoiceInv, Voice!StreamsAreHeld, Voice!StreamsAreSettled,
             Voice!Streaming, Voice!Token
    <2>2. j = k
      BY <1>1, <1>3, <2>1
    <2> QED
      BY <2>1, <2>2
  <1> QED
    BY <1>1, <1>2, <1>3, <1>4

\* A listener that stays where it is fits when no stream begins.
LEMMA StayingFits ==
    ASSUME VoiceBounds, Voice!VoiceInv, UNCHANGED <<drawn, listener, openStreams>>
    PROVE  0 \in Voice!Listeners /\ Fits(0, listener[0]) /\ listener' = [listener EXCEPT ![0] = listener[0]]
PROOF
  <1>1. 0 \in Voice!Listeners
    BY DEF Voice!Listeners, Voice!Loop
  <1> QED
    BY <1>1, ListenerIsOwn DEF Fits

\* A listener that keeps its token, and its stream unless it is settled.
LEMMA MovingFits ==
    ASSUME VoiceBounds, Voice!VoiceInv, NEW k \in Voice!Listeners, 
           NEW r \in Voice!ListenerRecord, r.token = listener[k].token,
           drawn' = drawn, openStreams' \subseteq openStreams \cup {r.token},
           listener[k].pc # "off", Voice!HasToken(r),
           r.token \in openStreams' => r.pc \in Voice!Streaming /\ ~Voice!Settled(r)
    PROVE  Fits(k, r)
PROOF
  BY ListenerIsOwn DEF Fits

\* A listener that gives its token up, with its stream.
LEMMA LeavingFits ==
    ASSUME VoiceBounds, Voice!VoiceInv, NEW k \in Voice!Listeners, 
           NEW r \in Voice!ListenerRecord, r.token = 0,
           drawn' = drawn, openStreams' \subseteq openStreams,
           listener[k].pc # "off", Voice!HasToken(r),
           listener[k].token \notin openStreams'
    PROVE  Fits(k, r)
PROOF
  <1>1. 0 \notin Voice!Ids
    BY DEF Voice!Ids
  <1> QED
    BY <1>1, ListenerIsOwn DEF Fits

\* The microphone stays with who has it, or goes to who had the loop told.
LEMMA MicrophoneStays ==
    ASSUME Voice!VoiceInv, cancelled \subseteq cancelled',
           owner' # 0 => ~ordinary',
           listener'[0].pc \in Listened =>
              /\ listener[0].pc \in Listened /\ listener'[0].token = listener[0].token
              /\ listenToken' = listenToken
              /\ owner' # 0 => owner # 0 \/ listenToken \in cancelled'
    PROVE  Voice!MicrophoneIsTaken'
PROOF
  BY DEF Voice!VoiceInv, Voice!MicrophoneIsTaken, Listened, Voice!Token, Voice!Loop

\* A step in which turns, flags and managers keep their types, whoever listens.
LEMMA ListeningGoesOn ==
    ASSUME VoiceBounds, Voice!VoiceInv, NEW k \in Voice!Listeners, NEW r, Fits(k, r),
           listener' = [listener EXCEPT ![k] = r],
           drawn' \in 0 .. MaxIds, drawn' \in {drawn, drawn + 1}, 
           cancelled \subseteq cancelled', cancelled' \subseteq Voice!Ids,
           openStreams' \subseteq Voice!Ids, Voice!ManagerTypes',
           UNCHANGED <<voiceTurns, active, voiceEpoch, handoff, response>>, UNCHANGED Voice!flagVars,
           listener[k].pc = "off" => r.pc = "off",
           k = 0 /\ r.pc \in Listened => listener[k].pc \in Listened /\ r.token = listener[k].token
    PROVE  Voice!VoiceInv'
PROOF
  <1>1. listener \in [Voice!Listeners -> Voice!ListenerRecord] /\ 0 \in Voice!Listeners
    BY DEF Voice!VoiceInv, Voice!SessionTypes, Voice!Listeners, Voice!Loop
  <1>2. /\ listener'[k] = r /\ \A j \in Voice!Listeners : j # k => listener'[j] = listener[j]
    BY <1>1 DEF Fits
  <1>3. Voice!TurnTypes'
    BY DEF Voice!VoiceInv, Voice!SessionTypes, Voice!TurnTypes
  <1>4. Voice!FlagTypes'
    BY <1>1, <1>2 DEF Voice!VoiceInv, Voice!SessionTypes, Voice!FlagTypes, Voice!flagVars,
                      Voice!At, Voice!Loop
  <1>5. Voice!MicrophoneIsTaken'
    <2>1. owner' # 0 => ~ordinary'
      BY DEF Voice!VoiceInv, Voice!MicrophoneIsTaken, Voice!flagVars
    <2> QED
      BY <1>1, <1>2, <2>1, MicrophoneStays DEF Voice!flagVars
  <1> QED
    BY <1>3, <1>4, <1>5, SessionGoesOn

\* A manager goes to another phase than that of a suspicion.
LEMMA PhaseMoves ==
    ASSUME Voice!ManagerTypes, NEW m \in Voice!Listeners, NEW s \in Voice!Phases \ {"response", "candidate"},
           manager' = [manager EXCEPT ![m].state = s]
    PROVE  Voice!ManagerTypes'
PROOF
  BY DEF Voice!ManagerTypes

\* Managers that stay keep their types.
LEMMA ManagersStay ==
    Voice!ManagerTypes /\ manager' = manager => Voice!ManagerTypes'
PROOF
  BY DEF Voice!ManagerTypes

\* The manager of a listener goes to another phase.
LEMMA ManagerMoves ==
    ASSUME Voice!VoiceInv, NEW k \in Voice!Listeners, NEW s \in Voice!Phases \ {"response", "candidate"},
           Voice!ManagerIs(k, s)
    PROVE  Voice!ManagerTypes'
PROOF
  <1>1. listener[k].manager \in Voice!Listeners /\ Voice!ManagerTypes
    BY RecordFields DEF Voice!VoiceInv, Voice!SessionTypes
  <1> QED
    BY <1>1, PhaseMoves DEF Voice!ManagerIs

\* A listener as it goes on with the same manager, token and turn.
With(l, pc, after, stream) == [l EXCEPT !.pc = pc, !.after = after, !.stream = stream]

\* What may come after the stop of a stream.
Afters == {"none", "empty", "commit", "cancelled", "fail", "give up"}

\* Its fields are those it was given.
LEMMA WithFields ==
    ASSUME NEW l \in Voice!ListenerRecord, NEW pc \in Voice!ListenerPcs, NEW after \in Afters,
           NEW stream \in {"none", "open", "final"}
    PROVE  LET r == With(l, pc, after, stream) IN
           /\ r \in Voice!ListenerRecord /\ r.pc = pc /\ r.after = after /\ r.stream = stream
           /\ r.token = l.token
PROOF
  BY DEF With, Voice!ListenerRecord, Afters

\* Moves and closes are of that form.
LEMMA GotoIsWith ==
    ASSUME VoiceBounds, Voice!VoiceInv, NEW k \in Voice!Listeners, NEW pc
    PROVE  /\ Voice!Goto(k, pc) =>
                listener' = [listener EXCEPT ![k] = With(@, pc, @.after, @.stream)]
           /\ \A after : Voice!Close(k, pc, after) =>
                listener' = [listener EXCEPT ![k] = With(@, pc, after, @.stream)]
           /\ listener[k].after \in Afters /\ listener[k].stream \in {"none", "open", "final"}
PROOF
  <1>1. listener[k] \in Voice!ListenerRecord /\ listener \in [Voice!Listeners -> Voice!ListenerRecord]
    BY ListenerIsOwn
  <1> QED
    BY <1>1 DEF With, Voice!Goto, Voice!Close, Voice!ListenerRecord, Afters

\* A step of a listener that keeps its token while turns and flags stay.
LEMMA ListenerMoves ==
    ASSUME VoiceBounds, Voice!VoiceInv, NEW k \in Voice!Listeners,
           NEW pc \in Voice!ListenerPcs, NEW after \in Afters,
           NEW stream \in {"none", "open", "final"},
           listener' = [listener EXCEPT ![k] = With(@, pc, after, stream)],
           listener[k].pc # "off",
           k = 0 /\ pc \in Listened => listener[k].pc \in Listened,
           Voice!HasToken([token |-> listener[k].token, pc |-> pc, after |-> after,
                           stream |-> stream]),
           listener[k].token \in openStreams' =>
              /\ pc \in Voice!Streaming /\ stream # "final"
              /\ ~(pc = "monitorClose" /\ after = "commit"),
           UNCHANGED <<voiceTurns, active, voiceEpoch, handoff, response>>,
           UNCHANGED Voice!flagVars, drawn' = drawn, openStreams' \subseteq Voice!Ids,
           openStreams' \subseteq openStreams \cup {listener[k].token},
           cancelled \subseteq cancelled', cancelled' \subseteq Voice!Ids, Voice!ManagerTypes'
    PROVE  Voice!VoiceInv'
PROOF
  <1> DEFINE l == listener[k]
             r == With(l, pc, after, stream)
  <1>1. /\ l \in Voice!ListenerRecord /\ listener \in [Voice!Listeners -> Voice!ListenerRecord]
        /\ drawn \in 0 .. MaxIds /\ openStreams \subseteq Voice!Ids
    BY ListenerIsOwn
  <1>2. /\ r \in Voice!ListenerRecord /\ r.pc = pc /\ r.after = after /\ r.stream = stream
        /\ r.token = l.token
    BY <1>1, WithFields
  <1>3. listener' = [listener EXCEPT ![k] = r]
    OBVIOUS
  <1> HIDE DEF r
  <1>4. Voice!HasToken(r) /\ (l.token \in openStreams' => r.pc \in Voice!Streaming /\ ~Voice!Settled(r))
    BY <1>2 DEF Voice!HasToken, Voice!Settled
  <1>5. Fits(k, r)
    BY <1>2, <1>4, MovingFits
  <1> QED
    BY <1>1, <1>2, <1>3, <1>5, ListeningGoesOn

\* The steps of the loop while it listens, and while it waits to.
LEMMA LoopListens ==
    ASSUME VoiceBounds, Voice!VoiceInv,
           Voice!Released \/ Voice!WaitOn \/ Voice!Hear \/ Voice!HearNothing \/ Voice!Finalize
              \/ Voice!FinalArrives \/ Voice!Commit \/ Voice!ListenStops
    PROVE  Voice!VoiceInv'
PROOF
  <1> USE DEF Voice!Loop
  <1>1. 0 \in Voice!Listeners
    BY DEF Voice!Listeners
  <1> DEFINE l == listener[0]
  <1>2. /\ l \in Voice!ListenerRecord /\ Voice!HasToken(l)
        /\ drawn \in 0 .. MaxIds /\ drawn \in Nat
        /\ cancelled \subseteq Voice!Ids /\ openStreams \subseteq Voice!Ids
        /\ l.token = 0 \/ l.token \in Voice!Ids
        /\ l.token \in openStreams => l.pc \in Voice!Streaming /\ ~Voice!Settled(l)
        /\ l.after \in Afters /\ l.stream \in {"none", "open", "final"}
    BY <1>1, ListenerIsOwn, GotoIsWith
  <1>3. listener \in [Voice!Listeners -> Voice!ListenerRecord] /\ Voice!ManagerTypes
    BY DEF Voice!VoiceInv, Voice!SessionTypes
  <1>4. l.stream # "none" \/ l.pc \in {"listen", "listenFinal", "close"} => l.token # 0
    BY <1>2 DEF Voice!HasToken
  <1>5. l.token \in openStreams => l.pc \in Voice!Streaming /\ l.stream # "final"
    BY <1>2 DEF Voice!Settled
  <1>6. CASE Voice!Released \/ Voice!WaitOn
    <2>1. PICK pc \in {"mic", "micSet", "ordinary", "ordinarySet", "idle", "idleSet"} : Voice!Goto(0, pc)
      BY <1>6 DEF Voice!Released, Voice!EventSet, Voice!WaitOn, Voice!WaitAfter, Voice!NextWait
    <2>2. /\ l.pc \in {"mic", "ordinary", "idle", "top", "micSet", "ordinarySet", "idleSet"}
          /\ UNCHANGED <<Voice!turnVars, Voice!flagVars, drawn, cancelled, manager, openStreams>>
      BY <1>6 DEF Voice!Released, Voice!EventSet, Voice!WaitOn, Voice!At
    <2>3. l.token \notin openStreams'
      BY <1>5, <2>2 DEF Voice!Streaming
    <2>4. pc \in Voice!ListenerPcs /\ pc \notin Listened
      BY DEF Voice!ListenerPcs, Listened
    <2>5. Voice!HasToken([token |-> l.token, pc |-> pc, after |-> l.after, stream |-> l.stream])
      BY <1>4 DEF Voice!HasToken
    <2>6. listener' = [listener EXCEPT ![0] = With(@, pc, @.after, @.stream)]
      BY <1>1, <2>1, GotoIsWith
    <2>7. Voice!ManagerTypes'
      BY <1>3, <2>2, ManagersStay
    <2> QED
      BY <1>1, <1>2, <2>2, <2>3, <2>4, <2>5, <2>6, <2>7, ListenerMoves DEF Voice!turnVars
  <1>7. ASSUME NEW pc \in {"close", "listenFinal"}, Voice!Goto(0, pc) \/ \E after \in Afters : Voice!Close(0, pc, after),
               l.pc \in Listened, openStreams' = openStreams, cancelled' = cancelled,
               Voice!ManagerTypes',
               UNCHANGED <<voiceTurns, active, voiceEpoch, handoff, response, drawn>>,
               UNCHANGED Voice!flagVars
        PROVE  Voice!VoiceInv'
    <2>1. PICK after \in Afters : listener' = [listener EXCEPT ![0] = With(@, pc, after, @.stream)]
      BY <1>1, <1>2, <1>7, GotoIsWith
    <2>2. pc \in Voice!ListenerPcs /\ pc \in Voice!Streaming /\ l.pc # "off" /\ pc # "monitorClose"
          /\ l.token # 0
      BY <1>4, <1>7 DEF Voice!ListenerPcs, Voice!Streaming, Listened
    <2>3. Voice!HasToken([token |-> l.token, pc |-> pc, after |-> after, stream |-> l.stream])
      BY <2>2 DEF Voice!HasToken
    <2> QED
      BY <1>1, <1>2, <1>5, <1>7, <2>1, <2>2, <2>3, ListenerMoves
  <1>8. CASE Voice!Hear
    <2>1. /\ l.pc = "listen" /\ l.token # 0 /\ l.token \in Voice!Ids
          /\ UNCHANGED <<Voice!turnVars, Voice!flagVars, drawn, cancelled>>
      BY <1>2, <1>4, <1>8 DEF Voice!Hear, Voice!Listening, Voice!At
    <2>2. CASE Voice!StateOf(0) = "idle"
      <3>1. Voice!ManagerIs(0, "listening") /\ UNCHANGED <<listener, openStreams>>
        BY <1>8, <2>2 DEF Voice!Hear
      <3>2. Voice!ManagerTypes'
        BY <1>1, <3>1, ManagerMoves DEF Voice!Phases
      <3> QED
        BY <1>1, <1>2, <2>1, <3>1, <3>2, StayingFits, ListeningGoesOn DEF Voice!turnVars
    <2>3. CASE Voice!StateOf(0) # "idle"
      <3>1. /\ Voice!ManagerIs(0, "speech") /\ openStreams' = openStreams \cup {l.token}
            /\ listener' = [listener EXCEPT ![0].stream = "open"]
        BY <1>8, <2>3 DEF Voice!Hear, Voice!Token
      <3>2. Voice!ManagerTypes'
        BY <1>1, <3>1, ManagerMoves DEF Voice!Phases
      <3>3. listener' = [listener EXCEPT ![0] = With(@, "listen", @.after, "open")]
        BY <1>2, <1>3, <2>1, <3>1 DEF With, Voice!ListenerRecord
      <3>4. "listen" \in Voice!ListenerPcs /\ "listen" \in Voice!Streaming /\ "listen" \in Listened
        BY DEF Voice!ListenerPcs, Voice!Streaming, Listened
      <3>5. Voice!HasToken([token |-> l.token, pc |-> "listen", after |-> l.after, stream |-> "open"])
        BY <2>1 DEF Voice!HasToken
      <3> QED
        BY <1>1, <1>2, <2>1, <3>1, <3>2, <3>3, <3>4, <3>5, ListenerMoves DEF Voice!turnVars
    <2> QED
      BY <2>2, <2>3
  <1>9. CASE Voice!HearNothing
    <2>1. /\ l.pc = "listen" /\ Voice!Close(0, "close", "empty")
          /\ UNCHANGED <<Voice!turnVars, Voice!flagVars, drawn, cancelled, openStreams>>
          /\ Voice!ManagerIs(0, "listening") \/ UNCHANGED manager
      BY <1>9 DEF Voice!HearNothing, Voice!Listening, Voice!At
    <2>2. Voice!ManagerTypes'
      BY <1>1, <1>3, <2>1, ManagerMoves, ManagersStay DEF Voice!Phases
    <2> QED
      BY <1>7, <2>1, <2>2 DEF Voice!turnVars, Listened, Afters
  <1>10. CASE Voice!Finalize
    <2>1. /\ l.pc = "listen" /\ Voice!Goto(0, "listenFinal")
          /\ UNCHANGED <<Voice!turnVars, Voice!flagVars, drawn, cancelled, manager, openStreams>>
      BY <1>10 DEF Voice!Finalize, Voice!Listening, Voice!At
    <2>2. Voice!ManagerTypes'
      BY <1>3, <2>1, ManagersStay
    <2> QED
      BY <1>7, <2>1, <2>2 DEF Voice!turnVars, Listened
  <1>11. CASE Voice!FinalArrives
    <2>1. /\ l.pc = "listenFinal" /\ openStreams' = openStreams \ {l.token}
          /\ UNCHANGED <<Voice!turnVars, Voice!flagVars, drawn, cancelled, manager>>
      BY <1>11 DEF Voice!FinalArrives, Voice!At, Voice!Token
    <2>2. PICK pc \in {"close", "listen"}, after \in Afters :
             listener' = [listener EXCEPT ![0] = With(@, pc, after, "final")]
      <3>1. CASE listener' = [listener EXCEPT ![0].pc = "close", ![0].after = "empty",
                                              ![0].stream = "final"]
        <4>1. listener' = [listener EXCEPT ![0] = With(@, "close", "empty", "final")]
          BY <1>2, <1>3, <3>1 DEF With, Voice!ListenerRecord
        <4> QED
          BY <4>1 DEF Afters
      <3>2. CASE listener' = [listener EXCEPT ![0].pc = "listen", ![0].stream = "final"]
        <4>1. listener' = [listener EXCEPT ![0] = With(@, "listen", l.after, "final")]
          BY <1>2, <1>3, <3>2 DEF With, Voice!ListenerRecord
        <4> QED
          BY <1>2, <4>1
      <3> QED
        BY <1>11, <3>1, <3>2 DEF Voice!FinalArrives
    <2>3. Voice!ManagerTypes'
      BY <1>3, <2>1, ManagersStay
    <2>4. pc \in Voice!ListenerPcs /\ l.pc # "off" /\ l.pc \in Listened /\ l.token # 0
      BY <1>4, <2>1 DEF Voice!ListenerPcs, Voice!Streaming, Listened
    <2>5. Voice!HasToken([token |-> l.token, pc |-> pc, after |-> after, stream |-> "final"])
      BY <2>4 DEF Voice!HasToken
    <2> QED
      BY <1>1, <1>2, <2>1, <2>2, <2>3, <2>4, <2>5, ListenerMoves DEF Voice!turnVars
  <1>12. CASE Voice!Commit
    <2>1. /\ l.pc = "listen" /\ Voice!Close(0, "close", "commit") /\ Voice!ManagerIs(0, "committing")
          /\ UNCHANGED <<Voice!flagVars, drawn, cancelled, voiceTurns, active, voiceEpoch, handoff,
                         response, openStreams>>
      BY <1>12 DEF Voice!Commit, Voice!Listening, Voice!At
    <2>2. Voice!ManagerTypes'
      BY <1>1, <2>1, ManagerMoves DEF Voice!Phases
    <2> QED
      BY <1>7, <2>1, <2>2 DEF Listened, Afters
  <1>13. CASE Voice!ListenStops
    <2>1. PICK after \in {"cancelled", "fail", "give up"} : Voice!Close(0, "close", after)
      BY <1>13 DEF Voice!ListenStops
    <2>2. /\ l.pc \in Listened
          /\ UNCHANGED <<Voice!turnVars, Voice!flagVars, drawn, cancelled, manager, openStreams>>
      BY <1>13 DEF Voice!ListenStops, Listened
    <2>3. Voice!ManagerTypes'
      BY <1>3, <2>2, ManagersStay
    <2> QED
      BY <1>7, <2>1, <2>2, <2>3 DEF Voice!turnVars, Afters
  <1> QED
    BY <1>6, <1>8, <1>9, <1>10, <1>11, <1>12, <1>13

\* A manager is as it may be.
Proper(v) ==
    /\ v \in [state : Voice!Phases, turn : Voice!Listeners, candidate : Voice!Listeners]
    /\ v.state = "candidate" => v.candidate # 0
    /\ v.state \in {"response", "candidate"} => v.turn # 0

\* The manager of a listener is one.
LEMMA ManagerIsProper ==
    /\ Voice!ManagerTypes => \A m \in Voice!Listeners : Proper(manager[m])
    /\ \A m, v : Voice!ManagerTypes /\ manager' = [manager EXCEPT ![m] = v] /\ Proper(v)
                 => Voice!ManagerTypes'
PROOF
  BY DEF Voice!ManagerTypes, Proper

\* What can become of a manager that is suspicious.
LEMMA SuspicionIsProper ==
    ASSUME VoiceBounds, NEW v, Proper(v), v.state \in {"response", "candidate"}
    PROVE  /\ \A c \in Voice!Ids : Proper([v EXCEPT !.state = "candidate", !.candidate = c])
           /\ v.state = "candidate" =>
                 \A s \in {"response", "idle"} : Proper([v EXCEPT !.state = s, !.candidate = 0])
PROOF
  <1>1. 0 \in Voice!Listeners /\ 0 \notin Voice!Ids /\ Voice!Ids \subseteq Voice!Listeners
    BY DEF Voice!Listeners, Voice!Loop, Voice!Ids
  <1>2. {"response", "idle", "candidate"} \subseteq Voice!Phases
    BY DEF Voice!Phases
  <1> QED
    BY <1>1, <1>2 DEF Proper

\* The manager of a listener, and its token.
LEMMA ListenerHasManager ==
    ASSUME VoiceBounds, Voice!VoiceInv, NEW k \in Voice!Listeners
    PROVE  /\ listener[k].manager \in Voice!Listeners /\ listener[k].token \in Voice!Listeners
           /\ listener[k].turn \in Voice!Listeners
           /\ Voice!ManagerTypes /\ Proper(manager[listener[k].manager])
           /\ 0 \in Voice!Listeners /\ 0 \notin Voice!Ids /\ Voice!Ids \subseteq Voice!Listeners
PROOF
  <1>1. listener[k] \in Voice!ListenerRecord
    BY ListenerIsOwn
  <1>2. 0 \in Voice!Listeners /\ 0 \notin Voice!Ids /\ Voice!Ids \subseteq Voice!Listeners
    BY DEF Voice!Listeners, Voice!Loop, Voice!Ids
  <1>3. Voice!ManagerTypes
    BY DEF Voice!VoiceInv, Voice!SessionTypes
  <1> QED
    BY <1>1, <1>2, <1>3, RecordFields, ManagerIsProper

\* A suspected interruption comes, goes or is one.
LEMMA SuspicionMoves ==
    ASSUME VoiceBounds, Voice!VoiceInv, NEW k \in Voice!Listeners,
           \/ Voice!Rejected(k)
           \/ manager' = Voice!Confirmed(k)
           \/ /\ Voice!StateOf(k) = "response"
              /\ \E c \in Voice!Ids : manager' = [manager EXCEPT ![listener[k].manager] =
                                         [@ EXCEPT !.state = "candidate", !.candidate = c]]
    PROVE  Voice!ManagerTypes'
PROOF
  <1> DEFINE m == listener[k].manager
             v == manager[m]
  <1>1. /\ m \in Voice!Listeners /\ listener[k].token \in Voice!Listeners
        /\ Voice!ManagerTypes /\ Proper(v) /\ 0 \in Voice!Listeners
    BY ListenerHasManager
  <1>2. ASSUME NEW w, Proper(w), manager' = [manager EXCEPT ![m] = w]
        PROVE  Voice!ManagerTypes'
    BY <1>1, <1>2, ManagerIsProper
  <1>3. CASE Voice!Rejected(k)
    <2>1. CASE v.state = "candidate"
      <3>1. manager' = [manager EXCEPT ![m] = [v EXCEPT !.state = Voice!Resumed(m), !.candidate = 0]]
        BY <1>1, <1>3, <2>1 DEF Voice!Rejected, Voice!ManagerTypes
      <3>2. Voice!Resumed(m) \in {"response", "idle"}
        BY DEF Voice!Resumed
      <3> HIDE DEF m, v
      <3>3. Proper([v EXCEPT !.state = Voice!Resumed(m), !.candidate = 0])
        BY <1>1, <2>1, <3>2, SuspicionIsProper
      <3> QED
        BY <1>2, <3>1, <3>3
    <2>2. CASE v.state # "candidate"
      BY <1>1, <1>3, <2>2, ManagersStay DEF Voice!Rejected
    <2> QED
      BY <2>1, <2>2
  <1>4. CASE manager' = Voice!Confirmed(k)
    <2>1. Proper([state |-> "speech", turn |-> listener[k].token, candidate |-> 0])
      BY <1>1 DEF Proper, Voice!Phases
    <2> QED
      BY <1>2, <1>4, <2>1 DEF Voice!Confirmed, Voice!Token
  <1>5. ASSUME NEW c \in Voice!Ids, v.state = "response",
               manager' = [manager EXCEPT ![m] = [v EXCEPT !.state = "candidate", !.candidate = c]]
        PROVE  Voice!ManagerTypes'
    <2> HIDE DEF m, v
    <2>1. Proper([v EXCEPT !.state = "candidate", !.candidate = c])
      BY <1>1, <1>5, SuspicionIsProper
    <2> QED
      BY <1>2, <1>5, <2>1
  <1> QED
    BY <1>3, <1>4, <1>5 DEF Voice!StateOf

\* Who interrupts a response cancels its turn.
LEMMA InterruptedIsTurn ==
    ASSUME VoiceBounds, Voice!VoiceInv, NEW k \in Voice!Listeners, Voice!StateOf(k) = "candidate"
    PROVE  cancelled \subseteq Voice!Interrupted(k) /\ Voice!Interrupted(k) \subseteq Voice!Ids
PROOF
  <1>1. Proper(manager[listener[k].manager]) /\ cancelled \subseteq Voice!Ids
    BY ListenerHasManager, ListenerIsOwn
  <1>2. manager[listener[k].manager].turn \in Voice!Ids
    BY <1>1 DEF Proper, Voice!StateOf, Voice!Listeners, Voice!Loop
  <1> QED
    BY <1>1, <1>2 DEF Voice!Interrupted

\* A step of a listener that gives its token up, with its stream.
LEMMA ListenerLeaves ==
    ASSUME VoiceBounds, Voice!VoiceInv, NEW k \in Voice!Listeners,
           NEW r \in Voice!ListenerRecord, r.token = 0, Voice!HasToken(r),
           listener' = [listener EXCEPT ![k] = r], listener[k].pc # "off",
           k = 0 => r.pc \notin Listened,
           listener[k].token \notin openStreams', openStreams' \subseteq openStreams,
           UNCHANGED <<voiceTurns, active, voiceEpoch, handoff, response>>,
           UNCHANGED Voice!flagVars, drawn' = drawn,
           cancelled \subseteq cancelled', cancelled' \subseteq Voice!Ids, Voice!ManagerTypes'
    PROVE  Voice!VoiceInv'
PROOF
  <1>1. drawn \in 0 .. MaxIds /\ openStreams \subseteq Voice!Ids
    BY ListenerIsOwn
  <1>2. Fits(k, r)
    BY LeavingFits
  <1> QED
    BY <1>1, <1>2, ListeningGoesOn

\* What a monitor does while it listens, and after.
LEMMA MonitorListens ==
    ASSUME VoiceBounds, Voice!VoiceInv, NEW k \in Voice!Listeners,
           \/ Voice!MonitorLeaves(k) \/ Voice!SuspectInterruption(k) \/ Voice!CandidateExpires(k)
           \/ Voice!ConfirmInterruption(k) \/ Voice!MonitorFinalize(k)
           \/ Voice!MonitorFinalArrives(k) \/ Voice!MonitorCommit(k) \/ Voice!MonitorFails(k)
           \/ Voice!MonitorAgain(k)
    PROVE  Voice!VoiceInv'
PROOF
  <1> DEFINE l == listener[k]
  <1>1. /\ listener \in [Voice!Listeners -> Voice!ListenerRecord]
        /\ l \in Voice!ListenerRecord /\ Voice!HasToken(l)
        /\ drawn \in 0 .. MaxIds /\ drawn \in Nat
        /\ cancelled \subseteq Voice!Ids /\ openStreams \subseteq Voice!Ids
        /\ l.token = 0 \/ l.token \in Voice!Ids
        /\ l.token \in openStreams => l.pc \in Voice!Streaming /\ ~Voice!Settled(l)
        /\ l.after \in Afters /\ l.stream \in {"none", "open", "final"}
    BY ListenerIsOwn, GotoIsWith
  <1>2. /\ Voice!ManagerTypes /\ 0 \in Voice!Listeners /\ 0 \notin Voice!Ids
        /\ voiceTurns \in Voice!Listeners
    BY ListenerHasManager DEF Voice!VoiceInv, Voice!SessionTypes, Voice!TurnTypes
  <1>3. l.stream # "none" \/ l.pc = "monitorFinal" => l.token \in Voice!Ids
    BY <1>1 DEF Voice!HasToken
  <1>4. l.token \in openStreams => l.pc \in Voice!Streaming /\ l.stream # "final"
    BY <1>1 DEF Voice!Settled
  <1>5. /\ {"monitor", "monitorFinal", "monitorClose"} \subseteq Voice!ListenerPcs \cap Voice!Streaming
        /\ "sleep" \in Voice!ListenerPcs \ Voice!Streaming
        /\ "follow" \in Voice!ListenerPcs \ Voice!Streaming
        /\ {"monitor", "monitorFinal", "monitorClose", "sleep", "follow"} \cap (Listened \cup {"off"}) = {}
    BY DEF Voice!ListenerPcs, Voice!Streaming, Listened
  \* A step that keeps the token.
  <1>6. ASSUME NEW pc \in {"monitor", "monitorFinal", "monitorClose"}, NEW after \in Afters,
               NEW stream \in {"none", "open", "final"},
               listener' = [listener EXCEPT ![k] = With(@, pc, after, stream)],
               l.pc \in {"monitor", "monitorFinal"},
               Voice!HasToken([token |-> l.token, pc |-> pc, after |-> after, stream |-> stream]),
               stream = "final" \/ (pc = "monitorClose" /\ after = "commit")
                  => l.token \notin openStreams',
               UNCHANGED <<voiceTurns, active, voiceEpoch, handoff, response, drawn>>,
               UNCHANGED Voice!flagVars, openStreams' \subseteq openStreams,
               cancelled \subseteq cancelled', cancelled' \subseteq Voice!Ids, Voice!ManagerTypes'
        PROVE  Voice!VoiceInv'
    <2>1. /\ pc \in Voice!ListenerPcs /\ l.pc # "off" /\ pc \notin Listened
          /\ l.token \in openStreams' => pc \in Voice!Streaming /\ stream # "final"
                                         /\ ~(pc = "monitorClose" /\ after = "commit")
      BY <1>5, <1>6
    <2>2. openStreams' \subseteq Voice!Ids /\ openStreams' \subseteq openStreams \cup {l.token}
      BY <1>1, <1>6
    <2> QED
      BY <1>6, <2>1, <2>2, ListenerMoves
  \* A step that gives it up, with its stream.
  <1>7. ASSUME Voice!Forget(k, "monitor"), l.pc \in {"monitor", "monitorFinal"},
               openStreams' = openStreams \ {l.token}, 
               UNCHANGED <<voiceTurns, active, voiceEpoch, handoff, response, drawn>>,
               UNCHANGED Voice!flagVars,
               cancelled \subseteq cancelled', cancelled' \subseteq Voice!Ids, Voice!ManagerTypes'
        PROVE  Voice!VoiceInv'
    <2> DEFINE r == [l EXCEPT !.pc = "monitor", !.token = 0, !.stream = "none"]
    <2>1. listener' = [listener EXCEPT ![k] = r]
      BY <1>1, <1>7 DEF Voice!Forget
    <2>2. /\ r \in Voice!ListenerRecord /\ r.token = 0 /\ r.pc = "monitor" /\ r.stream = "none"
      BY <1>1, <1>2, <1>5 DEF Voice!ListenerRecord
    <2>3. Voice!HasToken(r) /\ r.pc \notin Listened /\ l.pc # "off"
      BY <1>5, <1>7, <2>2 DEF Voice!HasToken
    <2> HIDE DEF r
    <2> QED
      BY <1>7, <2>1, <2>2, <2>3, ListenerLeaves
  <1>8. CASE Voice!MonitorLeaves(k)
    <2>1. /\ l.pc = "monitor" /\ Voice!Close(k, "monitorClose", "none")
          /\ UNCHANGED <<Voice!turnVars, Voice!flagVars, drawn, cancelled, manager, openStreams>>
      BY <1>8 DEF Voice!MonitorLeaves, Voice!At
    <2>2. listener' = [listener EXCEPT ![k] = With(@, "monitorClose", "none", @.stream)]
      BY <2>1, GotoIsWith
    <2>3. Voice!HasToken([token |-> l.token, pc |-> "monitorClose", after |-> "none", stream |-> l.stream])
      BY <1>2, <1>3 DEF Voice!HasToken
    <2>4. Voice!ManagerTypes' /\ "none" \in Afters
      BY <1>2, <2>1, ManagersStay DEF Afters
    <2> QED
      BY <1>1, <1>4, <1>6, <2>1, <2>2, <2>3, <2>4 DEF Voice!turnVars
  <1>9. CASE Voice!SuspectInterruption(k)
    <2> DEFINE r == [l EXCEPT !.token = drawn', !.stream = "open"]
    <2>1. /\ l.pc = "monitor" /\ Voice!StateOf(k) = "response" /\ l.token = 0 /\ drawn < MaxIds
          /\ drawn' = drawn + 1 /\ openStreams' = openStreams \cup {drawn'}
          /\ manager' = [manager EXCEPT ![l.manager] =
                [@ EXCEPT !.state = "candidate", !.candidate = drawn']]
          /\ listener' = [listener EXCEPT ![k].token = drawn', ![k].stream = "open"]
          /\ UNCHANGED <<Voice!turnVars, Voice!flagVars, cancelled>>
      BY <1>9 DEF Voice!SuspectInterruption, Voice!Monitoring, Voice!At, Voice!Token
    <2>2. drawn' \in Voice!Ids /\ drawn' \in 0 .. MaxIds /\ drawn' \in Voice!Listeners /\ drawn' # 0
      BY <1>1, <2>1 DEF Voice!Ids, Voice!Listeners, VoiceBounds
    <2>3. Voice!ManagerTypes'
      BY <2>1, <2>2, SuspicionMoves
    <2>4. listener' = [listener EXCEPT ![k] = r]
      BY <1>1, <2>1
    <2>5. /\ r \in Voice!ListenerRecord /\ r.token = drawn' /\ r.pc = "monitor" /\ r.stream = "open"
      BY <1>1, <2>1, <2>2 DEF Voice!ListenerRecord
    <2>6. Voice!HasToken(r) /\ ~Voice!Settled(r) /\ r.pc \in Voice!Streaming /\ r.pc \notin Listened
      BY <1>5, <2>2, <2>5 DEF Voice!HasToken, Voice!Settled
    <2> HIDE DEF r
    <2>7. k <= drawn' /\ k \in Nat
      <3>1. k <= drawn /\ k \in Nat
        BY <2>1, ListenerIsOwn DEF Voice!Listeners, Voice!Loop, Voice!Ids
      <3> QED
        BY <1>1, <2>1, <3>1
    <2>8. l.token \notin openStreams'
      BY <1>1, <1>2, <2>1, <2>2
    <2>9. Fits(k, r)
      BY <2>1, <2>5, <2>6, <2>7, <2>8 DEF Fits
    <2> QED
      BY <1>1, <2>1, <2>2, <2>3, <2>4, <2>5, <2>6, <2>9, ListeningGoesOn DEF Voice!turnVars
  <1>10. CASE Voice!CandidateExpires(k)
    <2>1. /\ l.pc = "monitor" /\ l.stream = "open" /\ Voice!Dispose(k) /\ Voice!Forget(k, "monitor")
          /\ UNCHANGED manager \/ Voice!Rejected(k)
          /\ UNCHANGED <<Voice!turnVars, Voice!flagVars, drawn>>
      BY <1>10 DEF Voice!CandidateExpires, Voice!Monitoring, Voice!At
    <2>2. Voice!ManagerTypes'
      BY <1>2, <2>1, SuspicionMoves, ManagersStay
    <2> QED
      BY <1>1, <1>3, <1>7, <2>1, <2>2 DEF Voice!Dispose, Voice!Token, Voice!turnVars
  <1>11. CASE Voice!ConfirmInterruption(k)
    <2>1. /\ Voice!StateOf(k) = "candidate" 
          /\ manager' = Voice!Confirmed(k) /\ cancelled' = Voice!Interrupted(k)
          /\ UNCHANGED <<Voice!turnVars, Voice!flagVars, drawn, listener, openStreams>>
      BY <1>11 DEF Voice!ConfirmInterruption
    <2>2. Voice!ManagerTypes'
      BY <2>1, SuspicionMoves
    <2>3. cancelled \subseteq cancelled' /\ cancelled' \subseteq Voice!Ids
      BY <2>1, InterruptedIsTurn
    <2> QED
      BY <1>1, <1>2, <2>1, <2>2, <2>3, StayingFits, ListeningGoesOn DEF Voice!turnVars
  <1>12. CASE Voice!MonitorFinalize(k)
    <2>1. /\ l.pc = "monitor" /\ l.stream = "open" /\ Voice!Goto(k, "monitorFinal")
          /\ UNCHANGED <<Voice!turnVars, Voice!flagVars, drawn, cancelled, manager, openStreams>>
      BY <1>12 DEF Voice!MonitorFinalize, Voice!Monitoring, Voice!At
    <2>2. listener' = [listener EXCEPT ![k] = With(@, "monitorFinal", @.after, @.stream)]
      BY <2>1, GotoIsWith
    <2>3. Voice!HasToken([token |-> l.token, pc |-> "monitorFinal", after |-> l.after, stream |-> l.stream])
      BY <1>2, <1>3, <2>1 DEF Voice!HasToken
    <2>4. Voice!ManagerTypes'
      BY <1>2, <2>1, ManagersStay
    <2> QED
      BY <1>1, <1>4, <1>6, <2>1, <2>2, <2>3, <2>4 DEF Voice!turnVars
  <1>13. CASE Voice!MonitorFinalArrives(k)
    <2>1. /\ l.pc = "monitorFinal" /\ openStreams' = openStreams \ {l.token}
          /\ l.token \in Voice!Ids
          /\ UNCHANGED <<Voice!turnVars, Voice!flagVars, drawn>>
      BY <1>3, <1>13 DEF Voice!MonitorFinalArrives, Voice!At, Voice!Token
    <2>2. ASSUME NEW pc \in {"monitor", "monitorClose"}, NEW after \in Afters,
                 pc = "monitor" \/ after # "commit",
                 listener' = [listener EXCEPT ![k] = With(@, pc, after, "final")],
                 cancelled \subseteq cancelled', cancelled' \subseteq Voice!Ids, Voice!ManagerTypes'
          PROVE  Voice!VoiceInv'
      <3>1. Voice!HasToken([token |-> l.token, pc |-> pc, after |-> after, stream |-> "final"])
        BY <1>2, <2>1 DEF Voice!HasToken
      <3> QED
        BY <1>6, <2>1, <2>2, <3>1 DEF Voice!turnVars
    <2>3. CASE /\ cancelled' = cancelled \cup {l.token} /\ UNCHANGED manager
               /\ listener' = [listener EXCEPT ![k].pc = "monitorClose", ![k].after = "none",
                                               ![k].stream = "final"]
      <3>1. listener' = [listener EXCEPT ![k] = With(@, "monitorClose", "none", "final")]
        BY <1>1, <2>3 DEF With, Voice!ListenerRecord
      <3>2. Voice!ManagerTypes' /\ "none" \in Afters
        BY <1>2, <2>3, ManagersStay DEF Afters
      <3> QED
        BY <1>1, <2>1, <2>2, <2>3, <3>1, <3>2
    <2>4. CASE /\ cancelled' = cancelled \cup {l.token} /\ Voice!Forget(k, "monitor")
               /\ UNCHANGED manager \/ Voice!Rejected(k)
      <3>1. Voice!ManagerTypes'
        BY <1>2, <2>4, SuspicionMoves, ManagersStay
      <3> QED
        BY <1>1, <1>7, <2>1, <2>4, <3>1 DEF Voice!turnVars
    <2>5. CASE /\ IF Voice!StateOf(k) = "candidate"
                  THEN manager' = Voice!Confirmed(k) /\ cancelled' = Voice!Interrupted(k)
                  ELSE UNCHANGED <<manager, cancelled>>
               /\ listener' = [listener EXCEPT ![k].pc = "monitor", ![k].stream = "final"]
      <3>1. listener' = [listener EXCEPT ![k] = With(@, "monitor", l.after, "final")]
        BY <1>1, <2>5 DEF With, Voice!ListenerRecord
      <3>2. Voice!ManagerTypes'
        BY <1>2, <2>5, SuspicionMoves, ManagersStay
      <3>3. cancelled \subseteq cancelled' /\ cancelled' \subseteq Voice!Ids
        BY <1>1, <2>5, InterruptedIsTurn
      <3> QED
        BY <1>1, <2>2, <3>1, <3>2, <3>3
    <2> QED
      BY <1>13, <2>3, <2>4, <2>5 DEF Voice!MonitorFinalArrives, Voice!Token
  <1>14. CASE Voice!MonitorCommit(k)
    <2>1. /\ l.pc = "monitor" /\ l.stream = "final" /\ Voice!Close(k, "monitorClose", "commit")
          /\ Voice!ManagerIs(k, "committing")
          /\ UNCHANGED <<Voice!flagVars, drawn, cancelled, voiceTurns, active, voiceEpoch, handoff,
                         response, openStreams>>
      BY <1>14 DEF Voice!MonitorCommit, Voice!Monitoring, Voice!At
    <2>2. listener' = [listener EXCEPT ![k] = With(@, "monitorClose", "commit", @.stream)]
      BY <2>1, GotoIsWith
    <2>3. Voice!HasToken([token |-> l.token, pc |-> "monitorClose", after |-> "commit",
                          stream |-> l.stream])
      BY <1>2, <1>3, <2>1 DEF Voice!HasToken
    <2>4. Voice!ManagerTypes' /\ "commit" \in Afters
      BY <2>1, ManagerMoves DEF Voice!Phases, Afters
    <2> QED
      BY <1>1, <1>4, <1>6, <2>1, <2>2, <2>3, <2>4
  <1>15. CASE Voice!MonitorFails(k)
    <2>1. PICK after \in {"fail", "give up"} : Voice!Close(k, "monitorClose", after)
      BY <1>15 DEF Voice!MonitorFails
    <2>2. /\ l.pc \in {"monitor", "monitorFinal"}
          /\ UNCHANGED manager \/ Voice!ManagerIs(k, "committing")
          /\ UNCHANGED <<Voice!turnVars, Voice!flagVars, drawn, cancelled, openStreams>>
      BY <1>15 DEF Voice!MonitorFails, Voice!Monitoring, Voice!At
    <2>3. listener' = [listener EXCEPT ![k] = With(@, "monitorClose", after, @.stream)]
      BY <2>1, GotoIsWith
    <2>4. Voice!HasToken([token |-> l.token, pc |-> "monitorClose", after |-> after,
                          stream |-> l.stream])
      BY <1>2, <1>3 DEF Voice!HasToken
    <2>5. Voice!ManagerTypes' /\ after \in Afters
      BY <1>2, <2>2, ManagerMoves, ManagersStay DEF Voice!Phases, Afters
    <2> QED
      BY <1>1, <1>4, <1>6, <2>2, <2>3, <2>4, <2>5 DEF Voice!turnVars
  <1>16. CASE Voice!MonitorAgain(k)
    <2>1. /\ l.pc = "sleep" 
          /\ UNCHANGED <<Voice!turnVars, Voice!flagVars, drawn, cancelled, manager, openStreams>>
      BY <1>16 DEF Voice!MonitorAgain, Voice!At
    <2>2. PICK r \in Voice!ListenerRecord :
             /\ listener' = [listener EXCEPT ![k] = r] /\ r.token = l.token /\ r.stream = l.stream
             /\ r.pc \in {"follow", "monitor"}
      <3>1. CASE Voice!Goto(k, "follow")
        <4>1. listener' = [listener EXCEPT ![k] = [l EXCEPT !.pc = "follow"]]
          BY <1>1, <3>1 DEF Voice!Goto
        <4>2. [l EXCEPT !.pc = "follow"] \in Voice!ListenerRecord
              /\ [l EXCEPT !.pc = "follow"].token = l.token
              /\ [l EXCEPT !.pc = "follow"].stream = l.stream
              /\ [l EXCEPT !.pc = "follow"].pc = "follow"
          BY <1>1, <1>5 DEF Voice!ListenerRecord
        <4> QED
          BY <4>1, <4>2
      <3>2. CASE listener' = [listener EXCEPT ![k].pc = "monitor", ![k].manager = voiceTurns]
        <4> DEFINE r == [l EXCEPT !.pc = "monitor", !.manager = voiceTurns]
        <4>1. listener' = [listener EXCEPT ![k] = r]
          BY <1>1, <3>2
        <4>2. /\ r \in Voice!ListenerRecord /\ r.token = l.token /\ r.stream = l.stream
              /\ r.pc = "monitor"
          BY <1>1, <1>2, <1>5 DEF Voice!ListenerRecord
        <4> HIDE DEF r
        <4> QED
          BY <4>1, <4>2
      <3> QED
        BY <1>16, <3>1, <3>2 DEF Voice!MonitorAgain
    <2>3. l.token \notin openStreams' /\ l.pc # "off" /\ r.pc \notin Listened
      BY <1>4, <1>5, <2>1, <2>2
    <2>4. Voice!HasToken(r)
      BY <1>2, <1>3, <2>2 DEF Voice!HasToken
    <2>5. Fits(k, r)
      BY <2>1, <2>2, <2>3, <2>4, MovingFits
    <2>6. Voice!ManagerTypes'
      BY <1>2, <2>1, ManagersStay
    <2> QED
      BY <1>1, <2>1, <2>2, <2>3, <2>5, <2>6, ListeningGoesOn DEF Voice!turnVars
  <1> QED
    BY <1>8, <1>9, <1>10, <1>11, <1>12, <1>13, <1>14, <1>15, <1>16

\* What becomes of a turn: nobody who listens moves.
LEMMA TurnGoesOn ==
    ASSUME VoiceBounds, Voice!VoiceInv, NEW t \in Voice!Ids,
           Voice!TurnBegins(t) \/ Voice!TurnStarts(t) \/ Voice!TurnEnds(t)
    PROVE  Voice!VoiceInv'
PROOF
  <1>1. /\ UNCHANGED <<Voice!flagVars, drawn, listener, openStreams, handoff, voiceEpoch>>
        /\ cancelled \subseteq cancelled'
    BY DEF Voice!TurnBegins, Voice!TurnStarts, Voice!TurnEnds
  <1>2. /\ Voice!ManagerTypes /\ Voice!TurnTypes /\ Voice!FlagTypes
        /\ drawn \in 0 .. MaxIds /\ cancelled \subseteq Voice!Ids /\ openStreams \subseteq Voice!Ids
        /\ 0 \in Voice!Listeners /\ 0 \notin Voice!Ids /\ t \in Voice!Listeners
    BY DEF Voice!VoiceInv, Voice!SessionTypes, Voice!Listeners, Voice!Loop, Voice!Ids
  <1>3. voiceTurns' \in Voice!Listeners /\ active' \in Voice!Listeners
    BY <1>2 DEF Voice!TurnBegins, Voice!TurnStarts, Voice!TurnEnds, Voice!Cleared, Voice!TurnTypes
  <1>4. Voice!TurnTypes'
    <2>1. PICK pc \in {"done", "accepted", "running"} : Voice!Respond(t, pc)
      BY DEF Voice!TurnBegins, Voice!TurnStarts, Voice!TurnEnds
    <2> QED
      BY <1>1, <1>2, <1>3, <2>1 DEF Voice!TurnTypes, Voice!Respond
  <1>5. Voice!ManagerTypes' /\ cancelled' \subseteq Voice!Ids
    <2> DEFINE m == response[t].manager
    <2>1. m \in Voice!Listeners /\ Proper(manager[m])
      BY <1>2, ManagerIsProper DEF Voice!TurnTypes
    <2> HIDE DEF m
    <2>2. ASSUME NEW v, Proper(v), manager' = [manager EXCEPT ![m] = v]
          PROVE  Voice!ManagerTypes'
      BY <1>2, <2>2, ManagerIsProper
    <2>3. CASE manager' = manager /\ cancelled' = cancelled
      BY <1>2, <2>3, ManagersStay
    <2>4. CASE Voice!TurnBegins(t) /\ ~(manager' = manager /\ cancelled' = cancelled)
      <3>1. manager' = [manager EXCEPT ![m].state = "committing"] /\ cancelled' = cancelled
        BY <2>4 DEF Voice!TurnBegins, m
      <3>2. "committing" \in Voice!Phases \ {"response", "candidate"}
        BY DEF Voice!Phases
      <3> QED
        BY <1>2, <2>1, <3>1, <3>2, PhaseMoves
    <2>5. CASE Voice!TurnStarts(t) /\ ~(manager' = manager /\ cancelled' = cancelled)
      <3> DEFINE v == [manager[m] EXCEPT !.state = "response", !.turn = t]
      <3>1. manager' = [manager EXCEPT ![m].state = "response", ![m].turn = t]
            /\ cancelled' = cancelled
        BY <2>5 DEF Voice!TurnStarts, m
      <3>2. manager' = [manager EXCEPT ![m] = v]
        BY <1>2, <2>1, <3>1 DEF Voice!ManagerTypes
      <3>3. Proper(v)
        BY <1>2, <2>1 DEF Proper, Voice!Phases
      <3> QED
        BY <1>2, <2>2, <3>1, <3>2, <3>3
    <2>6. CASE Voice!TurnEnds(t) /\ ~(manager' = manager /\ cancelled' = cancelled)
      <3>1. CASE manager' = [manager EXCEPT ![m].state = "idle"] /\ cancelled' = cancelled
        <4>1. "idle" \in Voice!Phases \ {"response", "candidate"}
          BY DEF Voice!Phases
        <4> QED
          BY <1>2, <2>1, <3>1, <4>1, PhaseMoves
      <3>2. CASE /\ manager' = [manager EXCEPT ![m].state = "idle", ![m].candidate = 0]
                 /\ cancelled' = cancelled \cup {manager[m].candidate}
                 /\ manager[m].state = "candidate"
        <4> DEFINE v == [manager[m] EXCEPT !.state = "idle", !.candidate = 0]
        <4>1. manager' = [manager EXCEPT ![m] = v]
          BY <1>2, <2>1, <3>2 DEF Voice!ManagerTypes
        <4>2. Proper(v)
          BY <2>1, <3>2, SuspicionIsProper
        <4>3. manager[m].candidate \in Voice!Ids
          BY <2>1, <3>2 DEF Proper, Voice!Listeners, Voice!Loop
        <4> QED
          BY <1>2, <2>2, <3>2, <4>1, <4>2, <4>3
      <3>3. \/ manager' = [manager EXCEPT ![m].state = "idle"] /\ cancelled' = cancelled
            \/ /\ manager' = [manager EXCEPT ![m].state = "idle", ![m].candidate = 0]
               /\ cancelled' = cancelled \cup {manager[m].candidate}
               /\ manager[m].state = "candidate"
        BY <2>6 DEF Voice!TurnEnds, m
      <3> QED
        BY <3>1, <3>2, <3>3
    <2> QED
      BY <2>3, <2>4, <2>5, <2>6
  <1>6. Voice!FlagTypes' /\ Voice!MicrophoneIsTaken'
    <2>1. owner' # 0 => ~ordinary'
      BY <1>1 DEF Voice!VoiceInv, Voice!MicrophoneIsTaken, Voice!flagVars
    <2>2. Voice!FlagTypes'
      BY <1>1, <1>2 DEF Voice!FlagTypes, Voice!flagVars, Voice!At
    <2> QED
      BY <1>1, <2>1, <2>2, MicrophoneStays DEF Voice!flagVars
  <1> QED
    BY <1>1, <1>2, <1>4, <1>5, <1>6, StayingFits, SessionGoesOn

\* Who listens to nothing.
LEMMA NoListenerIsOne ==
    /\ Voice!NoListener \in Voice!ListenerRecord /\ Voice!NoListener.pc = "off"
    /\ Voice!NoListener.token = 0 /\ Voice!NoListener.stream = "none"
PROOF
  <1>1. "off" \in Voice!ListenerPcs /\ 0 \in Voice!Listeners /\ 0 \in 0 .. Voice!MaxAttempts /\ 0 \in Nat
    BY DEF Voice!ListenerPcs, Voice!Listeners, Voice!Loop, Voice!MaxAttempts
  <1> QED
    BY <1>1 DEF Voice!NoListener, Voice!ListenerRecord

\* What the owner does.
LEMMA OwnerActs ==
    ASSUME VoiceBounds, Voice!VoiceInv,
           Voice!SubmitTyped \/ Voice!SetMicrophone \/ Voice!StopResponse
    PROVE  Voice!VoiceInv'
PROOF
  <1>1. /\ Voice!ManagerTypes /\ Voice!TurnTypes /\ Voice!FlagTypes
        /\ Voice!TokensAreOwn /\ Voice!MicrophoneIsTaken
        /\ drawn \in 0 .. MaxIds /\ cancelled \subseteq Voice!Ids /\ openStreams \subseteq Voice!Ids
        /\ 0 \in Voice!Listeners /\ 0 \notin Voice!Ids /\ Voice!Ids \subseteq Voice!Listeners
        /\ listener \in [Voice!Listeners -> Voice!ListenerRecord]
        /\ Voice!Listeners \ {0} = Voice!Ids
    BY DEF Voice!VoiceInv, Voice!SessionTypes, Voice!Listeners, Voice!Loop, Voice!Ids
  <1>2. active \in Voice!Listeners /\ listenToken \in Voice!Listeners
    BY <1>1 DEF Voice!TurnTypes, Voice!FlagTypes
  <1>3. Voice!NoListener \in Voice!ListenerRecord /\ Voice!NoListener.pc = "off"
        /\ Voice!NoListener.token = 0 /\ Voice!NoListener.stream = "none"
    BY NoListenerIsOne
  <1>4. CASE Voice!SubmitTyped
    <2> DEFINE t == drawn + 1
               its == [pc |-> "queued", manager |-> IF micOn THEN t ELSE 0]
    <2>1. /\ t \in Voice!Ids /\ t \in 0 .. MaxIds /\ t \notin {0} /\ t \in Nat
          /\ drawn < MaxIds /\ drawn' = t /\ drawn \in Nat
      BY <1>1, <1>4 DEF Voice!SubmitTyped, Voice!Ids, VoiceBounds
    <2>2. listener[t].pc = "off" /\ t > drawn
      BY <1>1, <2>1 DEF Voice!TokensAreOwn, Voice!At
    <2>3. /\ active' = t /\ voiceEpoch' = voiceEpoch + 1
          /\ response' = [response EXCEPT ![t] = its]
          /\ UNCHANGED <<manager, voiceTurns, micOn, listenToken, handoff, failures, openStreams>>
      BY <1>4 DEF Voice!SubmitTyped
    <2>4. its \in [pc : {"none", "queued", "accepted", "running", "done"}, manager : Voice!Listeners]
      BY <1>1, <2>1
    <2> HIDE DEF its
    <2>5. Voice!TurnTypes'
      BY <1>1, <2>1, <2>3, <2>4 DEF Voice!TurnTypes
    <2>6. Voice!ManagerTypes'
      BY <1>1, <2>3, ManagersStay
    <2>7. cancelled \subseteq cancelled' /\ cancelled' \subseteq Voice!Ids
      BY <1>1, <1>2, <1>4 DEF Voice!SubmitTyped
    <2>8. CASE micOn
      <3> DEFINE r == [Voice!NoListener EXCEPT !.pc = "await", !.manager = t, !.turn = t]
      <3>1. /\ owner' = t /\ ordinary' = FALSE /\ listener' = [listener EXCEPT ![t] = r]
            /\ listenToken # 0 => listenToken \in cancelled'
        BY <1>4, <2>8 DEF Voice!SubmitTyped, Voice!TakeMicrophone
      <3>2. /\ r \in Voice!ListenerRecord /\ r.token = 0 /\ r.stream = "none" /\ r.pc = "await"
        BY <1>1, <1>3, <2>1 DEF Voice!ListenerRecord, Voice!ListenerPcs
      <3>3. Voice!HasToken(r)
        BY <3>2 DEF Voice!HasToken
      <3> HIDE DEF r
      <3>4. listener[t].token \notin openStreams /\ 0 \notin openStreams
        <4>1. t \in Voice!Listeners
          BY <1>1, <2>1
        <4> QED
          BY <1>1, <2>2, <4>1, ListenerIsOwn DEF Voice!Streaming
      <3>5. Fits(t, r)
        BY <2>1, <2>3, <3>2, <3>3, <3>4 DEF Fits
      <3>6. listener'[0] = listener[0]
        BY <1>1, <2>1, <3>1
      <3>7. Voice!FlagTypes'
        BY <1>1, <2>1, <2>3, <3>1, <3>6 DEF Voice!FlagTypes, Voice!At, Voice!Loop
      <3>8. listener[0].pc \in Listened => listenToken # 0
        BY <1>1 DEF Voice!MicrophoneIsTaken, Voice!TokensAreOwn, Voice!HasToken, Listened,
                    Voice!Loop, Voice!Token
      <3>9. Voice!MicrophoneIsTaken'
        BY <2>3, <2>7, <3>1, <3>6, <3>8, MicrophoneStays
      <3> QED
        BY <1>1, <2>1, <2>3, <2>5, <2>6, <2>7, <3>1, <3>5, <3>7, <3>9, SessionGoesOn
    <2>9. CASE ~micOn
      <3>1. UNCHANGED <<owner, ordinary, listener>>
        BY <1>4, <2>9 DEF Voice!SubmitTyped
      <3>2. Voice!FlagTypes'
        BY <1>1, <2>3, <3>1 DEF Voice!FlagTypes, Voice!At
      <3>3. Voice!MicrophoneIsTaken'
        BY <1>1, <2>3, <2>7, <3>1, MicrophoneStays DEF Voice!MicrophoneIsTaken
      <3>4. Fits(0, listener[0])
        <4>1. 0 <= drawn' /\ listener[0].token # drawn' /\ 0 \in Nat
          BY <1>1, <2>1 DEF Voice!TokensAreOwn, Voice!Token
        <4> QED
          BY <1>1, <2>3, <4>1, ListenerIsOwn DEF Fits
      <3> QED
        BY <1>1, <2>1, <2>3, <2>5, <2>6, <2>7, <3>1, <3>2, <3>3, <3>4, SessionGoesOn
    <2> QED
      BY <2>8, <2>9
  <1>5. CASE Voice!SetMicrophone
    <2>1. /\ micOn' = ~micOn /\ cancelled \subseteq cancelled' /\ cancelled' \subseteq Voice!Ids
          /\ UNCHANGED <<voiceTurns, active, voiceEpoch, handoff, response, drawn, manager,
                         listenToken, ordinary, owner, openStreams>>
      BY <1>1, <1>2, <1>5 DEF Voice!SetMicrophone, Voice!turnVars
    <2>2. Voice!ManagerTypes' /\ Voice!TurnTypes'
      BY <1>1, <2>1, ManagersStay DEF Voice!TurnTypes
    <2>3. CASE UNCHANGED <<listener, failures>>
      <3>1. Voice!FlagTypes'
        BY <1>1, <2>1, <2>3 DEF Voice!FlagTypes, Voice!At
      <3>2. Voice!MicrophoneIsTaken'
        BY <1>1, <2>1, <2>3, MicrophoneStays DEF Voice!MicrophoneIsTaken
      <3> QED
        BY <1>1, <2>1, <2>2, <2>3, <3>1, <3>2, StayingFits, SessionGoesOn
    <2>4. CASE Voice!At(0, "off") /\ Voice!Goto(0, "top") /\ failures' = 0
      <3> DEFINE r == [listener[0] EXCEPT !.pc = "top"]
      <3>1. /\ listener' = [listener EXCEPT ![0] = r] /\ listener[0].pc = "off"
        BY <1>1, <2>4 DEF Voice!Goto, Voice!At
      <3>2. /\ r \in Voice!ListenerRecord /\ r.token = listener[0].token /\ r.pc = "top"
            /\ r.stream = listener[0].stream
        <4>1. listener[0] \in Voice!ListenerRecord /\ "top" \in Voice!ListenerPcs
          BY <1>1 DEF Voice!ListenerPcs
        <4> QED
          BY <4>1 DEF Voice!ListenerRecord
      <3> HIDE DEF r
      <3>3. Voice!HasToken(r)
        BY <1>1, <3>2, ListenerIsOwn DEF Voice!HasToken
      <3>4. listener[0].token \notin openStreams
        BY <1>1, <3>1, ListenerIsOwn DEF Voice!Streaming
      <3>5. 0 <= drawn'
        BY <1>1, <2>1
      <3>6. Fits(0, r)
        BY <2>1, <3>2, <3>3, <3>4, <3>5 DEF Fits
      <3>7. listener'[0] = r
        BY <1>1, <3>1
      <3>8. Voice!FlagTypes'
        BY <1>1, <2>1, <2>4 DEF Voice!FlagTypes, Voice!MaxAttempts
      <3>9. Voice!MicrophoneIsTaken'
        BY <1>1, <2>1, <3>2, <3>7, MicrophoneStays DEF Voice!MicrophoneIsTaken, Listened
      <3> QED
        BY <1>1, <2>1, <2>2, <3>1, <3>6, <3>8, <3>9, SessionGoesOn
    <2> QED
      BY <1>5, <2>3, <2>4 DEF Voice!SetMicrophone, Voice!Loop
  <1>6. CASE Voice!StopResponse
    <2>1. /\ cancelled' = cancelled \cup {active} /\ active \in Voice!Ids
          /\ UNCHANGED <<voiceTurns, active, voiceEpoch, handoff, response, drawn, manager,
                         listener, openStreams>>
          /\ UNCHANGED Voice!flagVars
      BY <1>1, <1>2, <1>6 DEF Voice!StopResponse, Voice!turnVars
    <2>2. Voice!ManagerTypes'
      BY <1>1, <2>1, ManagersStay
    <2> QED
      BY <1>1, <2>1, <2>2, StayingFits, ListeningGoesOn
  <1> QED
    BY <1>4, <1>5, <1>6

\* What holds of every session.
LEMMA SessionParts ==
    ASSUME VoiceBounds, Voice!VoiceInv
    PROVE  /\ Voice!ManagerTypes /\ Voice!TurnTypes /\ Voice!FlagTypes
           /\ Voice!TokensAreOwn /\ Voice!MicrophoneIsTaken
           /\ drawn \in 0 .. MaxIds /\ drawn \in Nat
           /\ cancelled \subseteq Voice!Ids /\ openStreams \subseteq Voice!Ids
           /\ 0 \in Voice!Listeners /\ 0 \notin Voice!Ids /\ Voice!Ids \subseteq Voice!Listeners
           /\ Voice!Listeners \ {0} = Voice!Ids
           /\ listener \in [Voice!Listeners -> Voice!ListenerRecord]
           /\ active \in Voice!Listeners /\ voiceTurns \in Voice!Listeners
           /\ owner \in Voice!Listeners /\ listenToken \in Voice!Listeners
PROOF
  BY DEF Voice!VoiceInv, Voice!SessionTypes, Voice!TurnTypes, Voice!FlagTypes,
         Voice!Listeners, Voice!Loop, Voice!Ids, VoiceBounds

\* The flags when a listener other than the loop at its microphone goes on.
LEMMA FlagsStay ==
    ASSUME VoiceBounds, Voice!VoiceInv, NEW k \in Voice!Listeners, NEW r,
           listener' = [listener EXCEPT ![k] = r], listener[k].pc # "off",
           UNCHANGED <<listenToken, ordinary, owner, failures>>, micOn' \in BOOLEAN,
           cancelled \subseteq cancelled', k = 0 => r.pc \notin Listened
    PROVE  Voice!FlagTypes' /\ Voice!MicrophoneIsTaken'
PROOF
  <1>1. /\ listener'[0] = IF k = 0 THEN r ELSE listener[0]
        /\ Voice!FlagTypes /\ Voice!MicrophoneIsTaken
    BY SessionParts
  <1>2. Voice!FlagTypes'
    BY <1>1 DEF Voice!FlagTypes, Voice!At, Voice!Loop
  <1>3. Voice!MicrophoneIsTaken'
    BY <1>1, MicrophoneStays DEF Voice!MicrophoneIsTaken
  <1> QED
    BY <1>2, <1>3

\* A listener that is done, whether it is the loop or a monitor.
LEMMA ListenerEnds ==
    ASSUME VoiceBounds, Voice!VoiceInv, NEW k \in Voice!Listeners, NEW pc \in {"top", "off"},
           \/ k = 0 /\ Voice!LoopEnds(pc) /\ UNCHANGED <<ordinary, owner>>
           \/ Voice!MonitorEnds(k) /\ UNCHANGED listenToken,
           listener[k].pc # "off", micOn' = micOn,
           listener[k].token \notin openStreams', openStreams' \subseteq openStreams,
           drawn' = drawn, cancelled \subseteq cancelled', cancelled' \subseteq Voice!Ids,
           Voice!ManagerTypes', Voice!TurnTypes', failures' \in 0 .. Voice!MaxAttempts + 1,
           \/ failures' <= Voice!MaxAttempts
           \/ k = 0 /\ Voice!LoopEnds(pc) /\ pc = "off"
           \/ failures' = failures
    PROVE  Voice!VoiceInv'
PROOF
  <1>1. PICK p \in {"top", "off"} :
           /\ listener' = [listener EXCEPT ![k] = [Voice!NoListener EXCEPT !.pc = p]]
           /\ k = 0 /\ Voice!LoopEnds(pc) => p = pc
    <2>1. CASE k = 0 /\ Voice!LoopEnds(pc)
      BY <2>1 DEF Voice!LoopEnds, Voice!Loop
    <2>2. CASE Voice!MonitorEnds(k) /\ ~(k = 0 /\ Voice!LoopEnds(pc))
      <3>1. Voice!NoListener = [Voice!NoListener EXCEPT !.pc = "off"]
        BY DEF Voice!NoListener
      <3> QED
        BY <2>2, <3>1 DEF Voice!MonitorEnds
    <2> QED
      BY <2>1, <2>2
  <1> DEFINE r == [Voice!NoListener EXCEPT !.pc = p]
  <1>2. /\ r \in Voice!ListenerRecord /\ r.token = 0 /\ r.pc = p /\ r.stream = "none"
    BY NoListenerIsOne DEF Voice!ListenerRecord, Voice!ListenerPcs
  <1>3. Voice!HasToken(r) /\ r.pc \notin Listened
    BY <1>2 DEF Voice!HasToken, Listened
  <1> HIDE DEF r
  <1>4. listener' = [listener EXCEPT ![k] = r]
    BY <1>1 DEF r
  <1>5. Fits(k, r)
    BY <1>2, <1>3, LeavingFits
  <1>6. /\ listener'[0] = IF k = 0 THEN r ELSE listener[0]
        /\ Voice!FlagTypes /\ Voice!MicrophoneIsTaken /\ 0 \in Voice!Listeners
        /\ drawn \in 0 .. MaxIds /\ openStreams \subseteq Voice!Ids
    BY <1>4, SessionParts
  <1>7. CASE k = 0 /\ Voice!LoopEnds(pc) /\ UNCHANGED <<ordinary, owner>>
    <2>1. listenToken' = 0 /\ UNCHANGED <<micOn, ordinary, owner>>
      BY <1>7 DEF Voice!LoopEnds
    <2>2. Voice!FlagTypes'
      BY <1>1, <1>2, <1>6, <1>7, <2>1 DEF Voice!FlagTypes, Voice!At, Voice!Loop
    <2>3. Voice!MicrophoneIsTaken'
      BY <1>3, <1>6, <1>7, <2>1, MicrophoneStays DEF Voice!MicrophoneIsTaken
    <2> QED
      BY <1>4, <1>5, <1>6, <2>2, <2>3, SessionGoesOn
  <1>8. CASE ~(k = 0 /\ Voice!LoopEnds(pc) /\ UNCHANGED <<ordinary, owner>>)
    <2>1. /\ owner' = IF owner = k THEN 0 ELSE owner
          /\ ordinary' = IF owner = k THEN TRUE ELSE ordinary
          /\ listener' = [listener EXCEPT ![k] = Voice!NoListener]
          /\ listenToken' = listenToken
      BY <1>8 DEF Voice!MonitorEnds
    <2>2. k = 0 => Voice!At(0, "off")'
      BY <1>6, <2>1, SessionParts, NoListenerIsOne DEF Voice!At
    <2>3. Voice!FlagTypes'
      <3>1. failures' <= Voice!MaxAttempts \/ Voice!At(0, "off")'
        <4>1. CASE k = 0
          BY <2>2, <4>1
        <4>2. CASE k # 0
          BY <1>6, <4>2 DEF Voice!FlagTypes, Voice!At, Voice!Loop
        <4> QED
          BY <4>1, <4>2
      <3>2. micOn' \in BOOLEAN /\ ordinary' \in BOOLEAN /\ owner' \in Voice!Listeners
            /\ listenToken' \in Voice!Listeners
        BY <1>6, <2>1 DEF Voice!FlagTypes
      <3> QED
        BY <3>1, <3>2 DEF Voice!FlagTypes, Voice!Loop
    <2>4. Voice!MicrophoneIsTaken'
      BY <1>3, <1>6, <2>1, MicrophoneStays DEF Voice!MicrophoneIsTaken
    <2> QED
      BY <1>4, <1>5, <1>6, <2>3, <2>4, SessionGoesOn
  <1> QED
    BY <1>7, <1>8

\* The loop begins to listen, and ends.
LEMMA LoopTurns ==
    ASSUME VoiceBounds, Voice!VoiceInv, Voice!Listen \/ Voice!CloseFrames
    PROVE  Voice!VoiceInv'
PROOF
  <1> USE DEF Voice!Loop
  <1>1. CASE Voice!Listen
    <2> DEFINE t == drawn + 1
               r == [Voice!NoListener EXCEPT !.pc = "listen", !.manager = t, !.token = t]
    <2>1. /\ drawn < MaxIds /\ drawn' = t /\ voiceTurns' = t /\ listenToken' = t
          /\ listener' = [listener EXCEPT ![0] = r]
          /\ UNCHANGED <<cancelled, manager, micOn, ordinary, owner, active, voiceEpoch, handoff,
                         response, failures, openStreams>>
          /\ ordinary /\ listener[0].pc # "off"
      BY <1>1 DEF Voice!Listen, Voice!WaitAfter, Voice!NextWait
    <2>2. t \in Voice!Ids /\ t \in Voice!Listeners /\ t \in 0 .. MaxIds /\ t \in Nat
      BY <2>1, SessionParts DEF Voice!Ids, Voice!Listeners, VoiceBounds
    <2>3. /\ r \in Voice!ListenerRecord /\ r.token = t /\ r.pc = "listen" /\ r.stream = "none"
      BY <2>2, NoListenerIsOne DEF Voice!ListenerRecord, Voice!ListenerPcs, Voice!Streaming
    <2>4. Voice!HasToken(r) /\ ~Voice!Settled(r) /\ r.pc \in Voice!Streaming /\ t # 0
      BY <2>2, <2>3, SessionParts DEF Voice!HasToken, Voice!Settled, Voice!Streaming
    <2> HIDE DEF r
    <2>5. /\ listener[0].token \notin openStreams /\ 0 <= drawn'
      BY <1>1, <2>1, <2>2, SessionParts, ListenerIsOwn DEF Voice!Listen, Voice!Streaming
    <2>6. Fits(0, r)
      BY <2>1, <2>3, <2>4, <2>5 DEF Fits
    <2>7. listener'[0] = r
      BY <2>1, SessionParts
    <2>8. Voice!FlagTypes'
      BY <2>1, <2>2, <2>7, SessionParts DEF Voice!FlagTypes, Voice!At
    <2>9. Voice!TurnTypes' /\ Voice!ManagerTypes'
      BY <2>1, <2>2, SessionParts, ManagersStay DEF Voice!TurnTypes
    <2>10. Voice!MicrophoneIsTaken'
      BY <2>1, <2>3, <2>7, SessionParts DEF Voice!MicrophoneIsTaken, Voice!Token
    <2> QED
      BY <2>1, <2>2, <2>6, <2>8, <2>9, <2>10, SessionParts, SessionGoesOn
  <1>2. CASE Voice!CloseFrames
    <2> DEFINE l == listener[0]
    <2>1. /\ l.pc = "close" /\ openStreams' = openStreams \ {l.token}
          /\ cancelled \subseteq cancelled' /\ cancelled' \subseteq cancelled \cup {l.token}
          /\ manager' = manager \/ manager' = [manager EXCEPT ![l.manager].state = "idle"]
          /\ UNCHANGED <<voiceTurns, active, voiceEpoch, handoff, response>>
          /\ UNCHANGED <<drawn, micOn, ordinary, owner>>
      BY <1>2 DEF Voice!CloseFrames, Voice!At, Voice!Token, Voice!turnVars
    <2>2. l.token \in Voice!Ids /\ l.pc # "off"
      BY <2>1, SessionParts, ListenerIsOwn DEF Voice!HasToken
    <2>3. cancelled' \subseteq Voice!Ids
      BY <2>1, <2>2, SessionParts
    <2>4. Voice!ManagerTypes' /\ Voice!TurnTypes'
      <3>1. l.manager \in Voice!Listeners /\ "idle" \in Voice!Phases \ {"response", "candidate"}
        BY SessionParts, ListenerHasManager DEF Voice!Phases
      <3> QED
        BY <2>1, <3>1, SessionParts, ManagersStay, PhaseMoves DEF Voice!TurnTypes
    <2>5. failures \in 0 .. Voice!MaxAttempts
      BY <2>1, SessionParts DEF Voice!FlagTypes, Voice!At, Voice!MaxAttempts
    <2>6. CASE Voice!Goto(0, "handoff") /\ failures' = 0 /\ UNCHANGED listenToken
      <3>1. listener' = [listener EXCEPT ![0] = With(@, "handoff", @.after, @.stream)]
            /\ l.after \in Afters /\ l.stream \in {"none", "open", "final"}
        BY <2>6, SessionParts, GotoIsWith
      <3> DEFINE r == With(l, "handoff", l.after, l.stream)
      <3>2. /\ r \in Voice!ListenerRecord /\ r.token = l.token /\ r.pc = "handoff"
        <4>1. l \in Voice!ListenerRecord /\ "handoff" \in Voice!ListenerPcs
          BY SessionParts DEF Voice!ListenerPcs
        <4> QED
          BY <3>1, <4>1, WithFields
      <3> HIDE DEF r
      <3>3. Voice!HasToken(r) /\ r.pc \notin Listened
        BY <2>2, <3>2, SessionParts DEF Voice!HasToken, Listened
      <3>4. Fits(0, r)
        BY <2>1, <2>2, <3>2, <3>3, SessionParts, MovingFits
      <3>5. listener' = [listener EXCEPT ![0] = r] /\ listener'[0] = r
        BY <3>1, SessionParts DEF r
      <3>6. Voice!FlagTypes'
        BY <2>1, <2>6, SessionParts DEF Voice!FlagTypes, Voice!MaxAttempts
      <3>7. Voice!MicrophoneIsTaken'
        BY <2>1, <3>3, <3>5, SessionParts, MicrophoneStays DEF Voice!MicrophoneIsTaken
      <3> QED
        BY <2>1, <2>3, <2>4, <3>4, <3>5, <3>6, <3>7, SessionParts, SessionGoesOn
    <2>7. ASSUME NEW pc \in {"top", "off"}, Voice!LoopEnds(pc),
                 failures' \in 0 .. Voice!MaxAttempts + 1,
                 failures' <= Voice!MaxAttempts \/ pc = "off"
          PROVE  Voice!VoiceInv'
      BY <2>1, <2>2, <2>3, <2>4, <2>7, SessionParts, ListenerEnds
    <2>8. CASE Voice!LoopEnds("top") /\ failures' \in {0, failures}
      BY <2>5, <2>7, <2>8 DEF Voice!MaxAttempts
    <2>9. CASE /\ failures' = failures + 1
               /\ Voice!LoopEnds(IF l.after = "fail" /\ failures < Voice!MaxAttempts
                                 THEN "top" ELSE "off")
      BY <2>5, <2>7, <2>9 DEF Voice!MaxAttempts
    <2> QED
      BY <1>2, <2>6, <2>8, <2>9 DEF Voice!CloseFrames
  <1> QED
    BY <1>1, <1>2

\* A voice turn is handed over, and its listener goes on with it or ends.
LEMMA TurnIsHandedOver ==
    ASSUME VoiceBounds, Voice!VoiceInv, NEW k \in Voice!Listeners,
           \/ Voice!BeginHandoff(k) \/ Voice!EndHandoff(k) \/ Voice!EnterMonitor(k)
           \/ Voice!EnterTypedMonitor(k) \/ Voice!CloseMonitor(k) \/ Voice!Gathered(k)
           \/ Voice!Followed(k)
    PROVE  Voice!VoiceInv'
PROOF
  <1> DEFINE l == listener[k]
  <1>1. /\ l \in Voice!ListenerRecord /\ Voice!HasToken(l)
        /\ l.token = 0 \/ l.token \in Voice!Ids
        /\ l.token \in openStreams => l.pc \in Voice!Streaming /\ ~Voice!Settled(l)
        /\ l.manager \in Voice!Listeners /\ l.turn \in Voice!Listeners /\ l.tries \in 0 .. Voice!MaxAttempts
        /\ l.token \in Voice!Listeners
    BY ListenerIsOwn, ListenerHasManager, RecordFields
  <1>2. /\ Voice!ManagerTypes /\ Voice!TurnTypes /\ Voice!FlagTypes
        /\ drawn \in 0 .. MaxIds /\ cancelled \subseteq Voice!Ids /\ openStreams \subseteq Voice!Ids
        /\ 0 \in Voice!Listeners /\ 0 \notin Voice!Ids /\ Voice!Listeners \ {0} = Voice!Ids
        /\ listener \in [Voice!Listeners -> Voice!ListenerRecord]
        /\ active \in Voice!Listeners /\ voiceTurns \in Voice!Listeners
    BY SessionParts
  <1>3. failures \in 0 .. Voice!MaxAttempts + 1 /\ (k = 0 /\ l.pc # "off" => failures <= Voice!MaxAttempts)
    BY <1>2 DEF Voice!FlagTypes, Voice!At, Voice!Loop
  \* Its end.
  <1>4. ASSUME NEW pc \in {"top", "off"}, Voice!Leave(k, pc) \/ (Voice!MonitorEnds(k) /\ UNCHANGED <<micOn, listenToken>>)
                 \/ (k = 0 /\ Voice!LoopEnds("top") /\ UNCHANGED <<micOn, ordinary, owner>> /\ pc = "top"),
               l.pc \in {"handoff", "retire", "await", "gather", "follow"},
               drawn' = drawn, openStreams' = openStreams, cancelled \subseteq cancelled',
               cancelled' \subseteq Voice!Ids, Voice!ManagerTypes', Voice!TurnTypes',
               failures' = failures \/ (k = 0 /\ Voice!Leave(k, "off") /\ pc = "off" /\ failures' = failures + 1)
        PROVE  Voice!VoiceInv'
    <2>1. /\ \/ k = 0 /\ Voice!LoopEnds(pc) /\ UNCHANGED <<ordinary, owner>>
             \/ Voice!MonitorEnds(k) /\ UNCHANGED listenToken
          /\ micOn' = micOn
      BY <1>4 DEF Voice!Leave, Voice!Loop
    <2>2. l.pc # "off" /\ l.token \notin openStreams'
      BY <1>1, <1>4 DEF Voice!Streaming
    <2>3. /\ failures' \in 0 .. Voice!MaxAttempts + 1
          /\ \/ failures' <= Voice!MaxAttempts
             \/ k = 0 /\ Voice!LoopEnds(pc) /\ pc = "off"
             \/ failures' = failures
      BY <1>3, <1>4, <2>2 DEF Voice!Leave, Voice!Loop, Voice!MaxAttempts
    <2> QED
      BY <1>4, <2>1, <2>2, <2>3, ListenerEnds
  \* Its going on.
  <1>5. ASSUME NEW r \in Voice!ListenerRecord, listener' = [listener EXCEPT ![k] = r],
               r.token \in {0, l.token}, l.token \notin openStreams', l.pc # "off",
               Voice!HasToken(r), r.pc \notin Listened, drawn' = drawn,
               openStreams' \subseteq openStreams, cancelled \subseteq cancelled',
               cancelled' \subseteq Voice!Ids, Voice!ManagerTypes', Voice!TurnTypes',
               UNCHANGED <<listenToken, ordinary, owner, failures>>, micOn' \in BOOLEAN
        PROVE  Voice!VoiceInv'
    <2>1. Fits(k, r)
      BY <1>2, <1>5, MovingFits, LeavingFits
    <2>2. Voice!FlagTypes' /\ Voice!MicrophoneIsTaken'
      BY <1>5, FlagsStay
    <2> QED
      BY <1>2, <1>5, <2>1, <2>2, SessionGoesOn
  <1>6. CASE Voice!BeginHandoff(k)
    <2>1. /\ l.pc = "handoff"
          /\ UNCHANGED <<drawn, manager, voiceTurns, active, voiceEpoch, response, openStreams>>
      BY <1>6 DEF Voice!BeginHandoff, Voice!At
    <2>2. Voice!ManagerTypes'
      BY <1>2, <2>1, ManagersStay
    <2>3. CASE /\ handoff' = {k} /\ Voice!Replace(Voice!Token(k)) /\ UNCHANGED Voice!flagVars
               /\ listener' = [listener EXCEPT ![k].pc = "retire", ![k].manager = voiceTurns,
                                               ![k].epoch = voiceEpoch]
      <3> DEFINE r == [l EXCEPT !.pc = "retire", !.manager = voiceTurns, !.epoch = voiceEpoch]
      <3>1. listener' = [listener EXCEPT ![k] = r]
        BY <1>2, <2>3
      <3>2. /\ r \in Voice!ListenerRecord /\ r.token = l.token /\ r.pc = "retire"
        <4>1. voiceEpoch \in Nat /\ "retire" \in Voice!ListenerPcs
          BY <1>2 DEF Voice!TurnTypes, Voice!ListenerPcs
        <4> QED
          BY <1>1, <1>2, <4>1 DEF Voice!ListenerRecord
      <3> HIDE DEF r
      <3>3. Voice!HasToken(r) /\ r.pc \notin Listened
        BY <1>1, <2>1, <3>2 DEF Voice!HasToken, Listened
      <3>4. l.token \notin openStreams'
        BY <1>1, <2>1 DEF Voice!Streaming
      <3>5. cancelled \subseteq cancelled' /\ cancelled' \subseteq Voice!Ids
        BY <1>2, <2>3 DEF Voice!Replace
      <3>6. Voice!TurnTypes'
        BY <1>2, <2>1, <2>3 DEF Voice!TurnTypes
      <3>7. UNCHANGED <<listenToken, ordinary, owner, failures>> /\ micOn' \in BOOLEAN
        BY <1>2, <2>3 DEF Voice!flagVars, Voice!FlagTypes
      <3> QED
        BY <1>5, <2>1, <2>2, <3>1, <3>2, <3>3, <3>4, <3>5, <3>6, <3>7
    <2>4. CASE /\ Voice!Leave(k, "off") /\ UNCHANGED <<handoff, cancelled>>
               /\ failures' = IF k = 0 THEN failures + 1 ELSE failures
      <3>1. Voice!TurnTypes'
        BY <1>2, <2>1, <2>4 DEF Voice!TurnTypes
      <3> QED
        BY <1>2, <1>4, <2>1, <2>2, <2>4, <3>1
    <2> QED
      BY <1>6, <2>3, <2>4 DEF Voice!BeginHandoff, Voice!Loop
  <1>7. CASE Voice!EndHandoff(k)
    <2>1. /\ l.pc = "retire" /\ l.token \in Voice!Ids
          /\ UNCHANGED <<drawn, manager, voiceTurns, failures, openStreams>>
      BY <1>1, <1>7 DEF Voice!EndHandoff, Voice!At, Voice!HasToken
    <2>2. Voice!ManagerTypes'
      BY <1>2, <2>1, ManagersStay
    <2>3. CASE /\ cancelled' = cancelled \cup {l.token} /\ handoff' = {} /\ Voice!Leave(k, "top")
               /\ UNCHANGED <<active, voiceEpoch, response>>
      <3>1. Voice!TurnTypes'
        BY <1>2, <2>1, <2>3 DEF Voice!TurnTypes
      <3> QED
        BY <1>2, <1>4, <2>1, <2>2, <2>3, <3>1
    <2>4. CASE /\ voiceEpoch' = voiceEpoch + 1 /\ active' = l.token
               /\ response' = [response EXCEPT ![l.token] = [pc |-> "queued", manager |-> l.manager]]
               /\ listener' = [listener EXCEPT ![k] = [Voice!NoListener EXCEPT
                      !.pc = "starting", !.manager = l.manager, !.turn = l.token]]
               /\ UNCHANGED <<cancelled, handoff, micOn, listenToken, ordinary, owner>>
      <3> DEFINE r == [Voice!NoListener EXCEPT !.pc = "starting", !.manager = l.manager,
                                               !.turn = l.token]
      <3>1. /\ r \in Voice!ListenerRecord /\ r.token = 0 /\ r.pc = "starting" /\ r.stream = "none"
        BY <1>1, NoListenerIsOne DEF Voice!ListenerRecord, Voice!ListenerPcs
      <3>2. listener' = [listener EXCEPT ![k] = r]
        BY <2>4
      <3> HIDE DEF r
      <3>3. Voice!HasToken(r) /\ r.pc \notin Listened
        BY <3>1 DEF Voice!HasToken, Listened
      <3>4. l.token \notin openStreams'
        BY <1>1, <2>1 DEF Voice!Streaming
      <3>5. Voice!TurnTypes'
        BY <1>1, <1>2, <2>1, <2>4 DEF Voice!TurnTypes
      <3>6. micOn' \in BOOLEAN
        BY <1>2, <2>4 DEF Voice!FlagTypes
      <3> QED
        BY <1>2, <1>5, <2>1, <2>2, <2>4, <3>1, <3>2, <3>3, <3>4, <3>5, <3>6
    <2> QED
      BY <1>7, <2>3, <2>4 DEF Voice!EndHandoff, Voice!Token
  <1>8. CASE Voice!EnterMonitor(k)
    <2>1. /\ l.pc = "starting" /\ handoff' = {}
          /\ UNCHANGED <<Voice!flagVars, drawn, cancelled, manager, voiceTurns, active, voiceEpoch,
                         response, openStreams>>
      BY <1>8 DEF Voice!EnterMonitor, Voice!At
    <2>2. PICK pc \in {"follow", "monitor"} :
             listener' = [listener EXCEPT ![k] = [Voice!NoListener EXCEPT
                             !.pc = pc, !.manager = voiceTurns, !.turn = l.turn]]
      BY <1>8 DEF Voice!EnterMonitor
    <2> DEFINE r == [Voice!NoListener EXCEPT !.pc = pc, !.manager = voiceTurns, !.turn = l.turn]
    <2>3. /\ r \in Voice!ListenerRecord /\ r.token = 0 /\ r.pc = pc /\ r.stream = "none"
      <3>1. pc \in Voice!ListenerPcs
        BY DEF Voice!ListenerPcs, Voice!Streaming
      <3> QED
        BY <1>1, <1>2, <3>1, NoListenerIsOne DEF Voice!ListenerRecord
    <2>4. listener' = [listener EXCEPT ![k] = r]
      BY <2>2
    <2> HIDE DEF r
    <2>5. Voice!HasToken(r) /\ r.pc \notin Listened
      BY <2>3 DEF Voice!HasToken, Listened
    <2>6. l.token \notin openStreams'
      BY <1>1, <2>1 DEF Voice!Streaming
    <2>7. Voice!TurnTypes' /\ Voice!ManagerTypes'
      BY <1>2, <2>1, ManagersStay DEF Voice!TurnTypes
    <2>8. micOn' \in BOOLEAN /\ UNCHANGED <<listenToken, ordinary, owner, failures>>
      BY <1>2, <2>1 DEF Voice!FlagTypes, Voice!flagVars
    <2> QED
      BY <1>2, <1>5, <2>1, <2>3, <2>4, <2>5, <2>6, <2>7, <2>8
  <1>9. CASE Voice!EnterTypedMonitor(k)
    <2>1. /\ l.pc = "await"
          /\ UNCHANGED <<Voice!turnVars, drawn, cancelled, manager, micOn, listenToken, failures,
                         openStreams>>
      BY <1>9 DEF Voice!EnterTypedMonitor, Voice!At
    <2>2. Voice!TurnTypes' /\ Voice!ManagerTypes'
      BY <1>2, <2>1, ManagersStay DEF Voice!TurnTypes, Voice!turnVars
    <2>3. CASE Voice!MonitorEnds(k)
      BY <1>2, <1>4, <2>1, <2>2, <2>3
    <2>4. CASE Voice!Goto(k, "monitor") /\ UNCHANGED <<ordinary, owner>>
      <3> DEFINE r == [l EXCEPT !.pc = "monitor"]
      <3>1. listener' = [listener EXCEPT ![k] = r]
        BY <1>2, <2>4 DEF Voice!Goto
      <3>2. /\ r \in Voice!ListenerRecord /\ r.token = l.token /\ r.pc = "monitor"
            /\ r.stream = l.stream
        <4>1. "monitor" \in Voice!ListenerPcs
          BY DEF Voice!ListenerPcs, Voice!Streaming
        <4> QED
          BY <1>1, <4>1 DEF Voice!ListenerRecord
      <3> HIDE DEF r
      <3>3. Voice!HasToken(r) /\ r.pc \notin Listened
        BY <1>1, <3>2 DEF Voice!HasToken, Listened
      <3>4. l.token \notin openStreams'
        BY <1>1, <2>1 DEF Voice!Streaming
      <3>5. micOn' \in BOOLEAN
        BY <1>2, <2>1 DEF Voice!FlagTypes
      <3> QED
        BY <1>2, <1>5, <2>1, <2>2, <2>4, <3>1, <3>2, <3>3, <3>4, <3>5
    <2> QED
      BY <1>9, <2>3, <2>4 DEF Voice!EnterTypedMonitor
  <1>10. CASE Voice!CloseMonitor(k)
    <2>1. /\ l.pc = "monitorClose" /\ Voice!AfterMonitor(k)
          /\ UNCHANGED <<Voice!turnVars, drawn, listenToken, ordinary, owner, failures>>
      BY <1>10 DEF Voice!CloseMonitor, Voice!At
    <2>2. /\ Voice!ManagerTypes' /\ cancelled \subseteq cancelled' /\ cancelled' \subseteq Voice!Ids
          /\ openStreams' \subseteq openStreams
          /\ l.after # "commit" /\ l.token # 0 => l.token \notin openStreams'
      <3>1. CASE l.after # "commit" /\ l.token # 0
        <4>1. Voice!Dispose(k) /\ Voice!Rejected(k)
          BY <1>10, <3>1 DEF Voice!CloseMonitor, Voice!Token
        <4> QED
          BY <1>1, <1>2, <3>1, <4>1, SuspicionMoves DEF Voice!Dispose, Voice!Token
      <3>2. CASE ~(l.after # "commit" /\ l.token # 0)
        BY <1>2, <1>10, <3>2, ManagersStay DEF Voice!CloseMonitor, Voice!Token
      <3> QED
        BY <3>1, <3>2
    <2>3. l.token \notin openStreams'
      BY <1>1, <1>2, <2>1, <2>2 DEF Voice!Settled
    <2>4. Voice!TurnTypes'
      BY <1>2, <2>1 DEF Voice!TurnTypes, Voice!turnVars
    <2>5. micOn' \in BOOLEAN
      BY <1>2, <2>1 DEF Voice!AfterMonitor, Voice!FlagTypes
    <2>6. PICK r \in Voice!ListenerRecord :
             /\ listener' = [listener EXCEPT ![k] = r] /\ r.stream = "none"
             /\ \/ r.pc \in {"sleep", "follow"} /\ r.token = 0
                \/ r.pc = "gather" /\ r.token = l.token /\ l.after = "commit"
      <3>1. {"gather", "sleep", "follow"} \subseteq Voice!ListenerPcs
        BY DEF Voice!ListenerPcs
      <3>2. CASE /\ l.after = "commit"
                 /\ listener' = [listener EXCEPT ![k] = [l EXCEPT !.pc = "gather", !.stream = "none"]]
        <4> DEFINE r == [l EXCEPT !.pc = "gather", !.stream = "none"]
        <4>1. /\ r \in Voice!ListenerRecord /\ r.stream = "none" /\ r.pc = "gather" /\ r.token = l.token
          BY <1>1, <3>1 DEF Voice!ListenerRecord
        <4>2. listener' = [listener EXCEPT ![k] = r]
          BY <3>2
        <4> HIDE DEF r
        <4> QED
          BY <3>2, <4>1, <4>2
      <3>3. CASE /\ l.tries < Voice!MaxAttempts
                 /\ listener' = [listener EXCEPT ![k] = [Voice!NoListener EXCEPT
                        !.pc = "sleep", !.turn = l.turn, !.tries = l.tries + 1]]
        <4> DEFINE r == [Voice!NoListener EXCEPT !.pc = "sleep", !.turn = l.turn,
                                                 !.tries = l.tries + 1]
        <4>1. l.tries + 1 \in 0 .. Voice!MaxAttempts
          BY <1>1, <3>3 DEF Voice!MaxAttempts
        <4>2. /\ r \in Voice!ListenerRecord /\ r.stream = "none" /\ r.pc = "sleep" /\ r.token = 0
          BY <1>1, <3>1, <4>1, NoListenerIsOne DEF Voice!ListenerRecord
        <4>3. listener' = [listener EXCEPT ![k] = r]
          BY <3>3
        <4> HIDE DEF r
        <4> QED
          BY <4>2, <4>3
      <3>4. CASE listener' = [listener EXCEPT ![k] = [Voice!NoListener EXCEPT
                        !.pc = "follow", !.turn = l.turn]]
        <4> DEFINE r == [Voice!NoListener EXCEPT !.pc = "follow", !.turn = l.turn]
        <4>1. /\ r \in Voice!ListenerRecord /\ r.stream = "none" /\ r.pc = "follow" /\ r.token = 0
          BY <1>1, <3>1, NoListenerIsOne DEF Voice!ListenerRecord
        <4>2. listener' = [listener EXCEPT ![k] = r]
          BY <3>4
        <4> HIDE DEF r
        <4> QED
          BY <4>1, <4>2
      <3> QED
        BY <2>1, <3>2, <3>3, <3>4 DEF Voice!AfterMonitor
    <2>7. Voice!HasToken(r) /\ r.pc \notin Listened
      BY <1>1, <2>1, <2>6 DEF Voice!HasToken, Listened
    <2> QED
      BY <1>5, <2>1, <2>2, <2>3, <2>4, <2>5, <2>6, <2>7
  <1>11. CASE Voice!Gathered(k)
    <2>1. /\ l.pc = "gather" /\ l.token \in Voice!Ids
          /\ UNCHANGED <<Voice!turnVars, drawn, manager, micOn, failures, openStreams>>
      BY <1>1, <1>11 DEF Voice!Gathered, Voice!At, Voice!HasToken
    <2>2. Voice!TurnTypes' /\ Voice!ManagerTypes'
      BY <1>2, <2>1, ManagersStay DEF Voice!TurnTypes, Voice!turnVars
    <2>3. CASE Voice!Goto(k, "handoff") /\ UNCHANGED <<cancelled, ordinary, owner, listenToken>>
      <3> DEFINE r == [l EXCEPT !.pc = "handoff"]
      <3>1. listener' = [listener EXCEPT ![k] = r]
        BY <1>2, <2>3 DEF Voice!Goto
      <3>2. /\ r \in Voice!ListenerRecord /\ r.token = l.token /\ r.pc = "handoff"
        <4>1. "handoff" \in Voice!ListenerPcs
          BY DEF Voice!ListenerPcs
        <4> QED
          BY <1>1, <4>1 DEF Voice!ListenerRecord
      <3> HIDE DEF r
      <3>3. Voice!HasToken(r) /\ r.pc \notin Listened
        BY <1>2, <2>1, <3>2 DEF Voice!HasToken, Listened
      <3>4. l.token \notin openStreams'
        BY <1>1, <2>1 DEF Voice!Streaming
      <3>5. micOn' \in BOOLEAN
        BY <1>2, <2>1 DEF Voice!FlagTypes
      <3> QED
        BY <1>2, <1>5, <2>1, <2>2, <2>3, <3>1, <3>2, <3>3, <3>4, <3>5
    <2>4. CASE /\ cancelled' = cancelled \cup {l.token}
               /\ IF k = 0 THEN Voice!LoopEnds("top") /\ UNCHANGED <<ordinary, owner>>
                  ELSE Voice!MonitorEnds(k) /\ UNCHANGED listenToken
      BY <1>2, <1>4, <2>1, <2>2, <2>4
    <2> QED
      BY <1>11, <2>3, <2>4 DEF Voice!Gathered, Voice!Loop, Voice!Token
  <1>12. CASE Voice!Followed(k)
    <2>1. /\ l.pc = "follow" /\ Voice!Leave(k, "top")
          /\ UNCHANGED <<Voice!turnVars, drawn, cancelled, manager, failures, openStreams>>
      BY <1>12 DEF Voice!Followed, Voice!At
    <2>2. Voice!TurnTypes' /\ Voice!ManagerTypes'
      BY <1>2, <2>1, ManagersStay DEF Voice!TurnTypes, Voice!turnVars
    <2> QED
      BY <1>2, <1>4, <2>1, <2>2
  <1> QED
    BY <1>6, <1>7, <1>8, <1>9, <1>10, <1>11, <1>12

\* Every step of the owner, of a turn, of the loop and of a monitor keeps the invariant.
LEMMA VoiceStep ==
    ASSUME VoiceBounds, Voice!VoiceInv, [Voice!VoiceNext]_voiceVars
    PROVE  Voice!VoiceInv'
PROOF
  <1>1. CASE Voice!SubmitTyped \/ Voice!SetMicrophone \/ Voice!StopResponse
    BY <1>1, OwnerActs
  <1>2. ASSUME NEW t \in Voice!Ids, Voice!TurnBegins(t) \/ Voice!TurnStarts(t) \/ Voice!TurnEnds(t)
        PROVE  Voice!VoiceInv'
    BY <1>2, TurnGoesOn
  <1>3. CASE Voice!LoopStep
    BY <1>3, LoopListens, LoopTurns DEF Voice!LoopStep
  <1>4. ASSUME NEW k \in Voice!Listeners, Voice!MonitorStep(k)
        PROVE  Voice!VoiceInv'
    BY <1>4, MonitorListens, TurnIsHandedOver DEF Voice!MonitorStep
  <1>5. CASE UNCHANGED voiceVars
    <2>1. /\ UNCHANGED <<voiceTurns, active, voiceEpoch, handoff, response>>
          /\ UNCHANGED Voice!flagVars
          /\ UNCHANGED <<drawn, cancelled, manager, listener, openStreams>>
      BY <1>5 DEF voiceVars, Voice!flagVars
    <2>2. Voice!ManagerTypes'
      BY <2>1, SessionParts, ManagersStay
    <2> QED
      BY <2>1, <2>2, SessionParts, StayingFits, ListeningGoesOn
  <1> QED
    BY <1>1, <1>2, <1>3, <1>4, <1>5 DEF Voice!VoiceNext

\* Nobody listens yet.
LEMMA VoiceStarts == VoiceBounds /\ Voice!VoiceInit => Voice!VoiceInv
PROOF
  <1> SUFFICES ASSUME VoiceBounds, Voice!VoiceInit PROVE Voice!VoiceInv
    OBVIOUS
  <1> USE DEF Voice!VoiceInit
  <1> DEFINE n == Voice!NoListener
             top == [Voice!NoListener EXCEPT !.pc = "top"]
  <1>1. 0 \in Voice!Listeners /\ 0 \notin Voice!Ids /\ Voice!Listeners = {0} \cup Voice!Ids
    BY DEF Voice!Listeners, Voice!Loop, Voice!Ids
  <1>2. /\ n \in Voice!ListenerRecord /\ top \in Voice!ListenerRecord
        /\ n.pc = "off" /\ top.pc = "top" /\ n.token = 0 /\ top.token = 0
        /\ n.stream = "none" /\ top.stream = "none"
    BY NoListenerIsOne DEF Voice!ListenerRecord, Voice!ListenerPcs
  <1> HIDE DEF n, top
  <1>3. listener = [k \in Voice!Listeners |-> IF k = 0 THEN top ELSE n]
    BY DEF n, top, Voice!Loop
  <1>4. Voice!ManagerTypes
    BY <1>1 DEF Voice!ManagerTypes, Voice!Phases
  <1>5. Voice!TurnTypes
    BY <1>1 DEF Voice!TurnTypes
  <1>6. Voice!FlagTypes
    BY <1>1 DEF Voice!FlagTypes, Voice!MaxAttempts
  <1>7. listener \in [Voice!Listeners -> Voice!ListenerRecord]
    BY <1>2, <1>3
  <1>8. Voice!SessionTypes
    BY <1>4, <1>5, <1>6, <1>7 DEF Voice!SessionTypes, VoiceBounds
  <1>9. \A k \in Voice!Listeners :
           /\ Voice!Token(k) = 0 /\ listener[k].stream = "none" /\ listener[k].pc \in {"off", "top"}
           /\ k # 0 => listener[k].pc = "off"
    BY <1>2, <1>3 DEF Voice!Token
  <1>10. Voice!TokensAreOwn
    <2>1. \A k \in Voice!Listeners : Voice!HasToken(listener[k])
      BY <1>9 DEF Voice!HasToken
    <2>2. \A k \in Voice!Listeners : Voice!Token(k) <= drawn
      BY <1>9
    <2>3. \A k \in Voice!Ids : Voice!At(k, "off")
      BY <1>1, <1>9 DEF Voice!At
    <2>4. \A j, k \in Voice!Listeners : Voice!Token(j) = Voice!Token(k) /\ j # k => Voice!Token(k) = 0
      BY <1>9
    <2> QED
      BY <1>1, <2>1, <2>2, <2>3, <2>4 DEF Voice!TokensAreOwn
  <1>11. Voice!StreamsAreHeld
    BY DEF Voice!StreamsAreHeld, Voice!StreamsAreSettled
  <1>12. Voice!MicrophoneIsTaken
    BY <1>1, <1>9 DEF Voice!MicrophoneIsTaken, Voice!Loop
  <1> QED
    BY <1>8, <1>10, <1>11, <1>12 DEF Voice!VoiceInv

\* The invariant has the types, and that streams are settled.
LEMMA VoiceInvIsEnough ==
    VoiceBounds /\ Voice!VoiceInv => Voice!VoiceTypeInv /\ Voice!StreamsAreSettled
PROOF
  <1> SUFFICES ASSUME VoiceBounds, Voice!VoiceInv
               PROVE  Voice!VoiceTypeInv /\ Voice!StreamsAreSettled
    OBVIOUS
  <1>1. \A k \in Voice!Listeners : /\ listener[k].stream \in {"none", "open", "final"}
                                   /\ listener[k].tries \in 0 .. Voice!MaxAttempts
    BY SessionParts, RecordFields
  <1>2. Voice!StreamsAreSettled
    BY DEF Voice!VoiceInv, Voice!StreamsAreHeld
  <1>3. \A m \in Voice!Listeners : manager[m].state \in Voice!Phases
    BY SessionParts DEF Voice!ManagerTypes
  <1>4. Voice!VoiceTypeInv
    BY <1>1, <1>3, SessionParts
    DEF Voice!VoiceTypeInv, Voice!Phases, Voice!TurnTypes, Voice!FlagTypes
  <1> QED
    BY <1>2, <1>4

\* What a step does to the place of the loop, for each kind of listener.
LEMMA PlaceOfTheLoop ==
    ASSUME VoiceBounds, Voice!VoiceInv, NEW k \in Voice!Listeners, NEW r,
           listener' = [listener EXCEPT ![k] = r], k = 0 => r.pc # "listen"
    PROVE  listener'[0].pc = "listen" => listener[0].pc = "listen"
PROOF
  <1>1. listener \in [Voice!Listeners -> Voice!ListenerRecord] /\ 0 \in Voice!Listeners
    BY DEF Voice!VoiceInv, Voice!SessionTypes, Voice!Listeners, Voice!Loop
  <1> QED
    BY <1>1

\* A listener that leaves does not listen.
LEMMA LeavingIsSilent ==
    ASSUME VoiceBounds, Voice!VoiceInv, NEW k \in Voice!Listeners,
           NEW pc \in {"top", "off"}, Voice!Leave(k, pc) \/ (k # 0 /\ Voice!MonitorEnds(k))
                                      \/ (k = 0 /\ Voice!LoopEnds(pc))
    PROVE  listener'[0].pc = "listen" => listener[0].pc = "listen"
PROOF
  <1> DEFINE n == [Voice!NoListener EXCEPT !.pc = pc]
  <1>1. n.pc # "listen"
    BY DEF Voice!NoListener
  <1>2. \/ k = 0 /\ listener' = [listener EXCEPT ![k] = n]
        \/ k # 0 /\ listener' = [listener EXCEPT ![k] = Voice!NoListener]
    BY DEF Voice!Leave, Voice!LoopEnds, Voice!MonitorEnds, Voice!Loop
  <1> HIDE DEF n
  <1> QED
    BY <1>1, <1>2, PlaceOfTheLoop

\* A listener that goes elsewhere with what it has does not begin to listen.
LEMMA GoingIsSilent ==
    ASSUME VoiceBounds, Voice!VoiceInv, NEW k \in Voice!Listeners, NEW pc, k = 0 => pc # "listen",
           \/ Voice!Goto(k, pc)
           \/ \E after : Voice!Close(k, pc, after)
    PROVE  listener'[0].pc = "listen" => listener[0].pc = "listen"
PROOF
  <1>1. listener \in [Voice!Listeners -> Voice!ListenerRecord] /\ listener[k] \in Voice!ListenerRecord
    BY ListenerIsOwn
  <1>2. PICK r : listener' = [listener EXCEPT ![k] = r] /\ r.pc = pc
    <2>1. CASE Voice!Goto(k, pc)
      <3> DEFINE r == [listener[k] EXCEPT !.pc = pc]
      <3>1. r.pc = pc
        BY <1>1 DEF Voice!ListenerRecord
      <3>2. listener' = [listener EXCEPT ![k] = r]
        BY <2>1 DEF Voice!Goto
      <3> HIDE DEF r
      <3> QED
        BY <3>1, <3>2
    <2>2. ASSUME NEW after, Voice!Close(k, pc, after)
          PROVE  \E r : listener' = [listener EXCEPT ![k] = r] /\ r.pc = pc
      <3> DEFINE r == [listener[k] EXCEPT !.pc = pc, !.after = after]
      <3>1. r.pc = pc
        BY <1>1 DEF Voice!ListenerRecord
      <3>2. listener' = [listener EXCEPT ![k] = r]
        BY <2>2 DEF Voice!Close
      <3> HIDE DEF r
      <3> QED
        BY <3>1, <3>2
    <2> QED
      BY <2>1, <2>2
  <1> QED
    BY <1>2, PlaceOfTheLoop

\* Who is handed a turn, or monitors one, does not begin to listen.
LEMMA MonitorIsSilent ==
    ASSUME VoiceBounds, Voice!VoiceInv, NEW k \in Voice!Listeners, Voice!MonitorStep(k)
    PROVE  listener'[0].pc = "listen" => listener[0].pc = "listen"
PROOF
  <1>1. listener \in [Voice!Listeners -> Voice!ListenerRecord] /\ 0 \in Voice!Listeners
        /\ listener[k] \in Voice!ListenerRecord
    BY ListenerIsOwn DEF Voice!Listeners, Voice!Loop
  <1>2. Voice!NoListener.pc = "off"
        /\ \A pc : [Voice!NoListener EXCEPT !.pc = pc].pc = pc
    BY DEF Voice!NoListener
  <1>3. CASE Voice!BeginHandoff(k)
    <2>1. CASE Voice!Leave(k, "off")
      BY <2>1, LeavingIsSilent
    <2>2. CASE listener' = [listener EXCEPT ![k].pc = "retire", ![k].manager = voiceTurns,
                                            ![k].epoch = voiceEpoch]
      BY <1>1, <2>2 DEF Voice!ListenerRecord
    <2> QED
      BY <1>3, <2>1, <2>2 DEF Voice!BeginHandoff
  <1>4. CASE Voice!EndHandoff(k)
    <2>1. CASE Voice!Leave(k, "top")
      BY <2>1, LeavingIsSilent
    <2>2. CASE listener' = [listener EXCEPT ![k] = [Voice!NoListener EXCEPT
                   !.pc = "starting", !.manager = listener[k].manager, !.turn = Voice!Token(k)]]
      BY <1>1, <2>2 DEF Voice!NoListener
    <2> QED
      BY <1>4, <2>1, <2>2 DEF Voice!EndHandoff
  <1>5. CASE Voice!EnterMonitor(k)
    <2> DEFINE pc == IF Voice!Over(listener[k].turn) THEN "follow" ELSE "monitor"
               r == [Voice!NoListener EXCEPT !.pc = pc, !.manager = voiceTurns,
                                             !.turn = listener[k].turn]
    <2>1. listener' = [listener EXCEPT ![k] = r]
      BY <1>5 DEF Voice!EnterMonitor
    <2>2. pc # "listen"
      OBVIOUS
    <2> HIDE DEF pc
    <2>3. r.pc = pc
      BY DEF Voice!NoListener
    <2> HIDE DEF r
    <2> QED
      BY <2>1, <2>2, <2>3, PlaceOfTheLoop
  <1>6. CASE Voice!EnterTypedMonitor(k)
    <2>1. CASE Voice!MonitorEnds(k)
      BY <1>1, <1>2, <2>1 DEF Voice!MonitorEnds
    <2>2. CASE Voice!Goto(k, "monitor")
      BY <2>2, GoingIsSilent
    <2> QED
      BY <1>6, <2>1, <2>2 DEF Voice!EnterTypedMonitor
  <1>7. CASE Voice!MonitorLeaves(k) \/ Voice!MonitorFinalize(k) \/ Voice!MonitorCommit(k)
                \/ Voice!MonitorFails(k)
    <2>1. \E pc \in {"monitorClose", "monitorFinal"} :
             Voice!Goto(k, pc) \/ \E after : Voice!Close(k, pc, after)
      BY <1>7 DEF Voice!MonitorLeaves, Voice!MonitorFinalize, Voice!MonitorCommit,
                  Voice!MonitorFails
    <2> QED
      BY <2>1, GoingIsSilent
  <1>8. CASE Voice!SuspectInterruption(k) \/ Voice!ConfirmInterruption(k)
    <2>1. CASE listener' = [listener EXCEPT ![k].token = drawn', ![k].stream = "open"]
      BY <1>1, <2>1 DEF Voice!ListenerRecord
    <2> QED
      BY <1>8, <2>1 DEF Voice!SuspectInterruption, Voice!ConfirmInterruption
  <1>9. CASE Voice!CandidateExpires(k)
    BY <1>1, <1>9 DEF Voice!CandidateExpires, Voice!Forget, Voice!ListenerRecord
  <1>10. CASE Voice!MonitorFinalArrives(k)
    <2>1. CASE listener' = [listener EXCEPT ![k].pc = "monitorClose", ![k].after = "none",
                                            ![k].stream = "final"]
      BY <1>1, <2>1 DEF Voice!ListenerRecord
    <2>2. CASE Voice!Forget(k, "monitor")
      BY <1>1, <2>2 DEF Voice!Forget, Voice!ListenerRecord
    <2>3. CASE listener' = [listener EXCEPT ![k].pc = "monitor", ![k].stream = "final"]
      BY <1>1, <2>3 DEF Voice!ListenerRecord
    <2> QED
      BY <1>10, <2>1, <2>2, <2>3 DEF Voice!MonitorFinalArrives
  <1>11. CASE Voice!CloseMonitor(k)
    <2>1. CASE listener' = [listener EXCEPT ![k] =
                   [listener[k] EXCEPT !.pc = "gather", !.stream = "none"]]
      BY <1>1, <2>1 DEF Voice!ListenerRecord
    <2>2. CASE listener' = [listener EXCEPT ![k] = [Voice!NoListener EXCEPT
                   !.pc = "sleep", !.turn = listener[k].turn, !.tries = listener[k].tries + 1]]
      BY <1>1, <2>2 DEF Voice!NoListener
    <2>3. CASE listener' = [listener EXCEPT ![k] = [Voice!NoListener EXCEPT
                   !.pc = "follow", !.turn = listener[k].turn]]
      BY <1>1, <2>3 DEF Voice!NoListener
    <2> QED
      BY <1>11, <2>1, <2>2, <2>3 DEF Voice!CloseMonitor, Voice!AfterMonitor
  <1>12. CASE Voice!MonitorAgain(k)
    <2>1. CASE Voice!Goto(k, "follow")
      BY <2>1, GoingIsSilent
    <2>2. CASE listener' = [listener EXCEPT ![k].pc = "monitor", ![k].manager = voiceTurns]
      BY <1>1, <2>2 DEF Voice!ListenerRecord
    <2> QED
      BY <1>12, <2>1, <2>2 DEF Voice!MonitorAgain
  <1>13. CASE Voice!Gathered(k) \/ Voice!Followed(k)
    <2>1. \/ Voice!Goto(k, "handoff") \/ Voice!Leave(k, "top")
          \/ k = 0 /\ Voice!LoopEnds("top")
          \/ k # 0 /\ Voice!MonitorEnds(k)
      BY <1>13 DEF Voice!Gathered, Voice!Followed, Voice!Loop
    <2> QED
      BY <2>1, GoingIsSilent, LeavingIsSilent
  <1> QED
    BY <1>3, <1>4, <1>5, <1>6, <1>7, <1>8, <1>9, <1>10, <1>11, <1>12, <1>13
    DEF Voice!MonitorStep

\* Only the loop begins to listen, and only while no monitor has the microphone.
LEMMA LoopBeginsToListen ==
    ASSUME VoiceBounds, Voice!VoiceInv, [Voice!VoiceNext]_voiceVars,
           listener[0].pc # "listen", listener'[0].pc = "listen"
    PROVE  owner = 0
PROOF
  <1>1. listener \in [Voice!Listeners -> Voice!ListenerRecord]
        /\ 0 \in Voice!Listeners /\ 0 \notin Voice!Ids /\ Voice!Ids \subseteq Voice!Listeners
        /\ (owner # 0 => ~ordinary) /\ drawn \in Nat
    BY DEF Voice!VoiceInv, Voice!SessionTypes, Voice!MicrophoneIsTaken, Voice!Listeners,
           Voice!Loop, Voice!Ids, VoiceBounds
  <1>2. listener' # listener
    OBVIOUS
  <1>3. CASE Voice!Listen
    <2>1. ordinary
      BY <1>3 DEF Voice!Listen, Voice!WaitAfter, Voice!NextWait
    <2> QED
      BY <1>1, <2>1
  <1>4. CASE Voice!FinalArrives
    <2>1. listener[0].pc = "listenFinal" /\ Voice!Token(0) \notin cancelled
      BY <1>4 DEF Voice!FinalArrives, Voice!At, Voice!Loop
    <2> QED
      BY <2>1 DEF Voice!VoiceInv, Voice!MicrophoneIsTaken, Voice!Loop
  <1>5. CASE Voice!Released
    <2>1. \E pc \in {"micSet", "ordinarySet", "idleSet"} : Voice!Goto(0, pc)
      BY <1>5 DEF Voice!Released, Voice!EventSet, Voice!Loop
    <2> QED
      BY <1>1, <2>1, GoingIsSilent
  <1>6. CASE Voice!WaitOn
    <2>1. \E pc : pc # "listen" /\ Voice!Goto(0, pc)
      BY <1>6 DEF Voice!WaitOn, Voice!Loop
    <2> QED
      BY <1>1, <2>1, GoingIsSilent
  <1>7. CASE Voice!Hear
    <2>1. listener[0].pc = "listen"
      BY <1>7 DEF Voice!Hear, Voice!Listening, Voice!At, Voice!Loop
    <2> QED
      BY <2>1
  <1>8. CASE Voice!HearNothing \/ Voice!Finalize \/ Voice!Commit \/ Voice!ListenStops
    <2>1. \E pc \in {"close", "listenFinal"} :
             Voice!Goto(0, pc) \/ \E after : Voice!Close(0, pc, after)
      BY <1>8 DEF Voice!HearNothing, Voice!Finalize, Voice!Commit, Voice!ListenStops, Voice!Loop
    <2> QED
      BY <1>1, <2>1, GoingIsSilent
  <1>9. CASE Voice!CloseFrames
    <2>1. Voice!Goto(0, "handoff") \/ \E pc \in {"top", "off"} : Voice!LoopEnds(pc)
      BY <1>9 DEF Voice!CloseFrames, Voice!Loop
    <2> QED
      BY <1>1, <2>1, GoingIsSilent, LeavingIsSilent
  <1>10. ASSUME NEW k \in Voice!Listeners, Voice!MonitorStep(k)
         PROVE  FALSE
    BY <1>10, MonitorIsSilent
  <1>11. CASE Voice!SubmitTyped
    <2>1. drawn + 1 \in Voice!Listeners /\ drawn + 1 # 0
      BY <1>1, <1>11 DEF Voice!SubmitTyped, Voice!Listeners, Voice!Ids, VoiceBounds
    <2>2. listener'[0] = listener[0]
      BY <1>1, <1>2, <1>11, <2>1 DEF Voice!SubmitTyped
    <2> QED
      BY <2>2
  <1>12. CASE Voice!SetMicrophone
    <2>1. Voice!Goto(0, "top")
      BY <1>2, <1>12 DEF Voice!SetMicrophone, Voice!Loop
    <2> QED
      BY <1>1, <2>1, GoingIsSilent
  <1>13. CASE Voice!StopResponse
    BY <1>2, <1>13 DEF Voice!StopResponse
  <1>14. ASSUME NEW t \in Voice!Ids, Voice!TurnBegins(t) \/ Voice!TurnStarts(t) \/ Voice!TurnEnds(t)
         PROVE  FALSE
    BY <1>2, <1>14 DEF Voice!TurnBegins, Voice!TurnStarts, Voice!TurnEnds
  <1>15. CASE UNCHANGED voiceVars
    BY <1>2, <1>15 DEF voiceVars
  <1> QED
    BY <1>3, <1>4, <1>5, <1>6, <1>7, <1>8, <1>9, <1>10, <1>11, <1>12, <1>13, <1>14, <1>15
    DEF Voice!VoiceNext, Voice!LoopStep

-----------------------------------------------------------------------------
(* The components together *)

\* The invariants of the components, and the epoch of the newest request.
ComponentsInv ==
    /\ RouteInv /\ RequestsAreCounted
    /\ Voice!VoiceInv /\ Stt!RecognitionInv
    /\ Mcp!RequestsInv /\ Writing!WritesInv /\ Walk!WalkInv /\ State!StateInv

\* A step of the whole is, for each component, a step of its own or none.
LEMMA EachSteps ==
    ASSUME [Next]_vars
    PROVE  /\ [ProviderNext]_providerVars /\ [Voice!VoiceNext]_voiceVars
           /\ [Mcp!McpNext]_mcpVars /\ [Stt!SttNext]_sttVars /\ [Local!LocalNext]_localVars
           /\ [Writing!WriteNext]_writeVars /\ [Walk!WalkNext]_walkVars
           /\ [State!StateNext]_stateVars
PROOF
  <1>1. CASE UNCHANGED vars
    BY <1>1 DEF vars
  <1>2. CASE In("provider") /\ ProviderNext /\ Others
    BY <1>2 DEF In, Others, Keeps
  <1>3. CASE In("update") /\ UpdateNext /\ Others
    BY <1>3 DEF In, Others, Keeps
  <1>4. CASE In("voice") /\ Voice!VoiceNext /\ Others
    BY <1>4 DEF In, Others, Keeps
  <1>5. CASE In("memory") /\ MemoryNext /\ Others
    BY <1>5 DEF In, Others, Keeps
  <1>6. CASE In("mcp") /\ Mcp!McpNext /\ Others
    BY <1>6 DEF In, Others, Keeps
  <1>7. CASE In("stt") /\ Stt!SttNext /\ Others
    BY <1>7 DEF In, Others, Keeps
  <1>8. CASE In("local") /\ Local!LocalNext /\ Others
    BY <1>8 DEF In, Others, Keeps
  <1>9. CASE In("write") /\ Writing!WriteNext /\ Others
    BY <1>9 DEF In, Others, Keeps
  <1>10. CASE In("walk") /\ Walk!WalkNext /\ Others
    BY <1>10 DEF In, Others, Keeps
  <1>11. CASE In("state") /\ State!StateNext /\ Others
    BY <1>11 DEF In, Others, Keeps
  <1> QED
    BY <1>1, <1>2, <1>3, <1>4, <1>5, <1>6, <1>7, <1>8, <1>9, <1>10, <1>11 DEF Next

\* Every component starts as it would alone.
LEMMA ComponentsStart == Init => ComponentsInv /\ Local!ClaimsInv
PROOF
  <1> SUFFICES ASSUME Init
               PROVE  ComponentsInv /\ Local!ClaimsInv
    OBVIOUS
  <1>1. /\ ProviderInit /\ Voice!VoiceInit /\ Mcp!McpInit /\ Stt!SttInit /\ Local!LocalInit
        /\ Writing!WriteInit /\ Walk!WalkInit /\ State!StateInit
    BY DEF Init
  <1>2. RouteInv /\ RequestsAreCounted
    BY <1>1, RefreshInitHolds, NoRequestIsCounted, ComponentsAssumption
  <1> QED
    BY <1>1, <1>2, ComponentsAssumption, VoiceStarts, RecognitionStarts, ClaimsStart,
       RequestsStart, WritesStart, WalkStarts, StateStarts DEF ComponentsInv

\* Their invariants hold on.
LEMMA ComponentsStep ==
    ASSUME ComponentsInv, [Next]_vars
    PROVE  ComponentsInv'
PROOF
  <1> USE DEF ComponentsInv
  <1>1. RouteInv' /\ RequestsAreCounted'
    BY EachSteps, RefreshStepKeeps, RequestsStayCounted, ComponentsAssumption
  <1>2. Voice!VoiceInv'
    BY EachSteps, VoiceStep, ComponentsAssumption
  <1>3. Stt!RecognitionInv'
    BY EachSteps, RecognitionStep
  <1>4. Mcp!RequestsInv' /\ Writing!WritesInv'
    BY EachSteps, RequestsStep, WritesStep
  <1>5. Walk!WalkInv' /\ State!StateInv'
    BY EachSteps, WalkStep, StateStep, ComponentsAssumption
  <1> QED
    BY <1>1, <1>2, <1>3, <1>4, <1>5

\* What Sam uses is open, what it opened it can still close, and what it claims to close
\* it once opened (runtime.py _perform_provider_refresh and _monitor_barge_in, whisper_cpp.py
\* ensure_ready, local_discovery.py cleanup_discoveries), as long as no other program unloads
\* a model that Sam loaded and loads it again.
THEOREM ResourcesStayOwned ==
    ASSUME OthersLoadOnce
    PROVE  Spec => []ResourcesAreOwned
PROOF
  <1>1. ComponentsInv /\ [Next]_vars => ComponentsInv'
    BY ComponentsStep
  <1>2. Local!ClaimsInv /\ [Next]_vars => Local!ClaimsInv'
    BY EachSteps, ClaimsStep
  <1>3. ComponentsInv /\ Local!ClaimsInv => ResourcesAreOwned
    <2> SUFFICES ASSUME ComponentsInv, Local!ClaimsInv
                 PROVE  ResourcesAreOwned
      OBVIOUS
    <2> USE DEF ComponentsInv
    <2>1. ProviderTypeInv /\ RouteIsUsable
      BY ProviderIsTyped, ComponentsAssumption DEF RouteInv
    <2>2. Voice!VoiceTypeInv /\ Voice!StreamsAreSettled
      BY VoiceInvIsEnough, ComponentsAssumption
    <2>3. Stt!ServerIsStoppedWithSam
      BY DEF Stt!RecognitionInv
    <2>4. Local!ClaimsAreOwn
      BY ClaimsInvIsEnough
    <2> QED
      BY <2>1, <2>2, <2>3, <2>4 DEF ResourcesAreOwned
  <1> QED
    BY ComponentsStart, <1>1, <1>2, <1>3, PTL DEF Spec

\* No answer is another request's, a language nobody heard, beyond its limits, unsound
\* or a file that took the place of another one (mcp/client.py, whisper_cpp.py,
\* filesystem.py, runtime.py _context_for_turn).
THEOREM AnswersStayTrue == Spec => []AnswersAreTrue
PROOF
  <1>1. ComponentsInv /\ [Next]_vars => ComponentsInv'
    BY ComponentsStep
  <1>2. ComponentsInv => AnswersAreTrue
    <2> SUFFICES ASSUME ComponentsInv
                 PROVE  AnswersAreTrue
      OBVIOUS
    <2> USE DEF ComponentsInv
    <2>1. Mcp!AnswersFindTheirRequest
      BY DEF Mcp!RequestsInv
    <2>2. Stt!LanguageHasEvidence
      BY DEF Stt!RecognitionInv
    <2>3. Walk!WithinLimits
      BY DEF Walk!WalkInv
    <2>4. State!ContextIsSound /\ State!ReportedSettingIsKept
      BY DEF State!StateInv
    <2>5. Writing!NothingIsOverwritten
      BY WritesInvIsEnough
    <2> QED
      BY <2>1, <2>2, <2>3, <2>4, <2>5 DEF AnswersAreTrue
  <1> QED
    BY ComponentsStart, <1>1, <1>2, PTL DEF Spec

\* The loop never begins to listen while the monitor of the newest typed response has
\* the microphone (runtime.py _voice_loop and _monitor_text_response).
THEOREM InterruptionsAreHeardOut == Spec => InterruptionIsHeardOut
PROOF
  <1> DEFINE HeardOut == [~Voice!At(Voice!Loop, "listen") /\ listener'[Voice!Loop].pc = "listen"
                         => \A k \in Voice!Ids : ~Voice!Hearing(k)]_voiceVars
  <1>1. Init => Voice!VoiceInv
    BY ComponentsStart DEF ComponentsInv
  <1>2. Voice!VoiceInv /\ [Next]_vars => Voice!VoiceInv'
    BY EachSteps, VoiceStep, ComponentsAssumption
  <1>3. Voice!VoiceInv /\ [Next]_vars => HeardOut
    <2> SUFFICES ASSUME Voice!VoiceInv, [Next]_vars, listener[0].pc # "listen",
                        listener'[0].pc = "listen", NEW k \in Voice!Ids
                 PROVE  ~Voice!Hearing(k)
      BY DEF Voice!At, Voice!Loop
    <2>1. owner = 0
      BY EachSteps, LoopBeginsToListen, ComponentsAssumption
    <2>2. k # 0
      BY DEF Voice!Ids
    <2> QED
      BY <2>1, <2>2 DEF Voice!Hearing
  <1> QED
    BY <1>1, <1>2, <1>3, PTL
    DEF Spec, InterruptionIsHeardOut, Voice!InterruptionIsHeardOut, voiceVars, Voice!voiceVars
=============================================================================
