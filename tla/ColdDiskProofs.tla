--------------------------- MODULE ColdDiskProofs ---------------------------
(***************************************************************************)
(* Proofs about ColdDisk, for any incarnations, generations and bounds.    *)
(* One lemma per action keeps the invariant IInv; the properties and the   *)
(* refinement of DiskContract follow from it.  Flow states the order of    *)
(* the steps once, so that no proof has to unfold it again.                *)
(***************************************************************************)
EXTENDS ColdDisk, TLAPS

\* The order of the steps.
LEMMA Flow ==
    /\ After("hot") = "markHot" /\ After("markHot") = "cleanHot"
    /\ After("cleanHot") =
         IF op.rescue \/ op.act = "hydrate" THEN "done"
         ELSE IF rec.remote THEN "delete" ELSE "cleanPurge"
    /\ After("delete") = "local" /\ After("local") = "markLocal"
    /\ After("markLocal") = "cleanPurge" /\ After("cleanPurge") = "purged"
    /\ After("purged") = "markPurged" /\ After("markPurged") = "unmark"
    /\ After("unmark") = "unjournal"
    /\ After("unjournal") = IF op.act = "offload" THEN "new" ELSE "done"
    /\ After("new") = "markNew" /\ After("markNew") = "snapshot"
    /\ After("snapshot") = "base" /\ After("base") = "remote"
    /\ After("remote") = "markRemote"
    /\ After("markRemote") = "put" /\ After("put") = "evicting"
    /\ After("evicting") = "markEvicting" /\ After("markEvicting") = "evict"
    /\ After("evict") = "cold" /\ After("cold") = "markCold"
    /\ After("markCold") = "done"
    /\ After("restoring") = "markRestoring" /\ After("markRestoring") = "cleanFetch"
    /\ After("cleanFetch") = "get" /\ After("get") = "candidate"
    /\ After("candidate") = "markCandidate" /\ After("markCandidate") = "install"
    /\ After("install") = "hot"
    /\ After("tombstone") = "discard"
    /\ After("discard") =
         IF rec = None THEN "done"
         ELSE IF rec.phase = "purged" THEN "unmark"
         ELSE IF rec.remote THEN "delete" ELSE "cleanPurge"
PROOF
<1>1. /\ After("hot") = "markHot" /\ After("markHot") = "cleanHot"
  BY DEF After, PurgeFrom, Recover, Purge, Finish, New, Upload, Fetch, Install
<1>2. /\ After("cleanHot") =
         IF op.rescue \/ op.act = "hydrate" THEN "done"
         ELSE IF rec.remote THEN "delete" ELSE "cleanPurge"
  BY DEF After, PurgeFrom, Recover, Purge, Finish, New, Upload, Fetch, Install
<1>3. /\ After("delete") = "local" /\ After("local") = "markLocal"
      /\ After("markLocal") = "cleanPurge" /\ After("cleanPurge") = "purged"
      /\ After("purged") = "markPurged" /\ After("markPurged") = "unmark"
      /\ After("unmark") = "unjournal"
  BY DEF After, PurgeFrom, Recover, Purge, Finish, New, Upload, Fetch, Install
<1>4. /\ After("unjournal") = IF op.act = "offload" THEN "new" ELSE "done"
  BY DEF After, PurgeFrom, Recover, Purge, Finish, New, Upload, Fetch, Install
<1>5. /\ After("new") = "markNew" /\ After("markNew") = "snapshot"
      /\ After("snapshot") = "base" /\ After("base") = "remote"
      /\ After("remote") = "markRemote"
  BY DEF After, PurgeFrom, Recover, Purge, New, Upload, Fetch, Install
<1>6. /\ After("markRemote") = "put" /\ After("put") = "evicting"
      /\ After("evicting") = "markEvicting" /\ After("markEvicting") = "evict"
      /\ After("evict") = "cold" /\ After("cold") = "markCold"
      /\ After("markCold") = "done"
  BY DEF After, PurgeFrom, Recover, Purge, Finish, Upload, Fetch, Install
<1>7. /\ After("restoring") = "markRestoring" /\ After("markRestoring") = "cleanFetch"
      /\ After("cleanFetch") = "get" /\ After("get") = "candidate"
      /\ After("candidate") = "markCandidate" /\ After("markCandidate") = "install"
      /\ After("install") = "hot"
  BY DEF After, PurgeFrom, Recover, Purge, New, Fetch, Install
<1>8. /\ After("tombstone") = "discard"
  BY DEF After, PurgeFrom, Recover, Purge, New, Fetch
<1>9. /\ After("discard") =
         IF rec = None THEN "done"
         ELSE IF rec.phase = "purged" THEN "unmark"
         ELSE IF rec.remote THEN "delete" ELSE "cleanPurge"
  BY DEF After, PurgeFrom, Recover, Purge, Finish, New, Fetch
<1>10. QED
  BY <1>1, <1>2, <1>3, <1>4, <1>5, <1>6, <1>7, <1>8, <1>9

\* The steps of every operation are labels.
LEMMA StepsAreLabels ==
    /\ "done" \in Labels
    /\ \A act \in Acts : StepsOf(act) \subseteq Labels
PROOF
  BY DEF Labels, Acts, StepsOf

\* A step is taken by an operation, and leads to a step of the same action.
LEMMA FlowStays ==
    ASSUME TypeOK, OpInv, RecInv, pc # "done"
    PROVE  /\ op # None
           /\ After(pc) \in StepsOf(op.act) /\ After(pc) \in Labels
           /\ op.rescue => After(pc) \in RecoverSteps \cup {"done"}
PROOF
<1>1. op # None /\ op \in Operation /\ pc \in StepsOf(op.act)
  BY DEF TypeOK, OpInv
<1>2. After(pc) \in StepsOf(op.act)
  <2>1. CASE op.act = "offload"
    <3>1. pc \in RecoverSteps \cup PurgeSteps \cup {"new", "markNew"} \cup UploadSteps
      BY <1>1, <2>1 DEF StepsOf
    <3>2. After(pc) \in {"done", "new", "markNew"} \cup RecoverSteps \cup PurgeSteps
                     \cup UploadSteps
      BY <3>1, <2>1, Flow DEF RecoverSteps, PurgeSteps, UploadSteps
    <3>3. QED
      BY <3>2, <2>1 DEF StepsOf
  <2>2. CASE op.act = "hydrate"
    <3>1. pc \in RecoverSteps \cup {"unmark", "unjournal"} \cup FetchSteps
      BY <1>1, <2>2 DEF StepsOf
    <3>2. After(pc) \in {"done", "unmark", "unjournal"} \cup RecoverSteps \cup FetchSteps
      BY <3>1, <2>2, Flow DEF RecoverSteps, FetchSteps
    <3>3. QED
      BY <3>2, <2>2 DEF StepsOf
  <2>3. CASE op.act = "purge"
    <3>1. pc \in RecoverSteps \cup PurgeSteps
      BY <1>1, <2>3 DEF StepsOf
    <3>2. After(pc) \in {"done"} \cup RecoverSteps \cup PurgeSteps
      BY <3>1, <2>3, Flow DEF RecoverSteps, PurgeSteps
    <3>3. QED
      BY <3>2, <2>3 DEF StepsOf
  <2>4. CASE op.act = "delete"
    <3>1. pc \in {"tombstone", "discard"} \cup PurgeSteps
      BY <1>1, <2>4 DEF StepsOf
    <3>2. After(pc) \in {"done", "tombstone", "discard"} \cup PurgeSteps
      BY <3>1, <2>4, Flow DEF PurgeSteps
    <3>3. QED
      BY <3>2, <2>4 DEF StepsOf
  <2>5. QED
    BY <1>1, <2>1, <2>2, <2>3, <2>4 DEF Operation, Acts
<1>3. op.rescue => After(pc) \in RecoverSteps \cup {"done"}
  BY <1>1, Flow DEF OpInv, RecoverSteps
<1>4. QED
  BY <1>1, <1>2, <1>3, StepsAreLabels DEF Operation

\* What an admitted call begins with, and what the record then looks like.
LEMMA PlanFacts ==
    ASSUME TypeOK, NEW q \in Call, Plan(q) # "done"
    PROVE  /\ Plan(q) \in StepsOf(q.act)
           /\ Plan(q) \in {"new", "hot", "unmark", "snapshot", "restoring", "install",
                           "tombstone"}
           /\ Plan(q) = "tombstone" <=> q.act = "delete"
           /\ Plan(q) = "new" => journal = None /\ disk # None
           /\ Plan(q) \notin {"new", "tombstone"} => journal # None
           /\ Plan(q) = "unmark" => journal.phase = "purged" /\ disk # None
           /\ Plan(q) = "snapshot" => journal.phase = "offloading"
           /\ Plan(q) \in {"restoring", "install"} =>
                journal.phase \in {"evicting", "cold", "restoring"}
           /\ Plan(q) = "restoring" => journal.cand = None
           /\ Plan(q) = "install" => cand # None /\ cand.id = journal.cand
PROOF
<1>1. q.act \in {"offload", "hydrate", "purge", "delete"}
  BY DEF Call, Acts
<1>2. CASE q.act = "offload"
  <2>1. Plan(q) = OffloadPlan(q)
    BY <1>2 DEF Plan
  <2>2. QED
    BY <1>2, <2>1 DEF OffloadPlan, DiskIs, Finish, StepsOf, RecoverSteps, PurgeSteps,
       UploadSteps
<1>3. CASE q.act = "hydrate"
  <2>1. Plan(q) = HydratePlan
    BY <1>3 DEF Plan
  <2>2. journal # None => journal.phase \in Phases
    BY DEF TypeOK, Record
  <2>3. QED
    BY <1>3, <2>1, <2>2 DEF HydratePlan, DiskIs, Finish, StepsOf, RecoverSteps, FetchSteps,
       Phases
<1>4. CASE q.act = "purge"
  <2>1. Plan(q) = PurgePlan
    BY <1>4 DEF Plan
  <2>2. QED
    BY <1>4, <2>1 DEF PurgePlan, DiskIs, Finish, StepsOf, RecoverSteps, PurgeSteps
<1>5. CASE q.act = "delete"
  <2>1. Plan(q) = "tombstone"
    BY <1>5 DEF Plan
  <2>2. QED
    BY <1>5, <2>1 DEF StepsOf
<1>6. QED
  BY <1>1, <1>2, <1>3, <1>4, <1>5

\* A remote command that outlives its client is one the record accounts for.
LEMMA OrphansKept ==
    ASSUME TypeOK, IInv, NEW Q \in SUBSET Orphaned, wire' = wire \cup Q,
           UNCHANGED <<objects, deleted, journal, gens, tomb, used, acked>>
    PROVE  wire' \subseteq Command /\ JournalInv' /\ GenInv'
PROOF
<1> USE StoreAssumption, NoneAssumption DEF IInv
<1>1. \A o \in Q :
         \/ pc = "put" /\ o = [op |-> "put", id |-> rec.id, ver |-> rec.ver,
                               parent |-> rec.parent]
         \/ pc = "delete" /\ o = [op |-> "delete", id |-> rec.id]
  BY DEF Orphaned
<1>2. pc \in {"put", "delete"} =>
         /\ rec = journal /\ journal # None /\ journal \in Record /\ journal.remote
         /\ gens[journal.id] # None /\ journal.id \in Gens
  BY InstsAssumption DEF TypeOK, RecInv, StepInv, JournalInv, Record
<1>3. pc = "delete" => journal.phase = "hot" \/ journal.inst \in tomb
  BY <1>2 DEF OpInv, StepInv
<1>4. wire' \subseteq Command
  BY <1>1, <1>2 DEF TypeOK, Command, Record, Ids
<1>5. JournalInv'
  BY <1>1, <1>2 DEF JournalInv, NoUpload, Verified, Available
<1>6. GenInv'
  BY <1>1, <1>2, <1>3 DEF GenInv, NoUpload, Record
<1>7. QED
  BY <1>4, <1>5, <1>6

\* The record becomes hot again: the local disk is the one it names.
LEMMA SetHotKeeps ==
    ASSUME TypeOK, IInv, RewriteRecord /\ SetHot
    PROVE  TypeOK' /\ IInv'
PROOF
<1> USE Flow, StoreAssumption, NoneAssumption DEF IInv, RewriteRecord, SetHot, WriteJournal,
        At, Recognised, DiskIs, storeVars, localVars, runVars, cpVars
<1>1. /\ pc # "done" /\ op # None /\ pc' \in Labels /\ pc' \in StepsOf(op.act)
      /\ op.rescue => pc' \in RecoverSteps \cup {"done"}
  BY FlowStays
<1>2. /\ pc = "hot" /\ pc' = "markHot"
      /\ rec \in Record /\ journal # None /\ journal' = rec'
      /\ disk # None /\ disk.id \in DiskIds
  BY <1>1 DEF TypeOK, RecInv, Disk
<1>3. /\ rec' \in Record
      /\ rec'.inst = rec.inst /\ rec'.id = rec.id
      /\ rec'.phase = "hot" /\ rec'.remote = rec.remote
      /\ rec'.cand = rec.cand /\ rec'.ver = rec.ver
  BY <1>1, <1>2 DEF Record, Phases
<1>4. TypeOK'
  BY <1>1, <1>3 DEF TypeOK
<1>5. RowInv'
  BY <1>1, <1>3 DEF RowInv
<1>6. OpInv'
  BY <1>1, <1>3 DEF OpInv, RecInv
<1>7. RecInv'
  BY <1>1, <1>3 DEF RecInv
<1>8. StepInv'
  BY <1>1, <1>3 DEF StepInv, Verified, StepsOf, PurgeSteps, FetchSteps
<1>9. JournalInv'
  BY <1>1, <1>3 DEF RecInv, StepInv, JournalInv, NoUpload, Verified
<1>10. GenInv'
  BY <1>1, <1>3 DEF RecInv, StepInv, GenInv, NoUpload
<1>11. DataSafe'
  BY <1>1, <1>3 DEF DataSafe, Retrievable, Verified
<1>12. ParentsKept'
  BY <1>1, <1>3 DEF ParentsKept
<1>13. MarkerHasJournal'
  BY <1>1, <1>3 DEF MarkerHasJournal
<1>14. RuntimeHasDisk'
  BY <1>1, <1>3 DEF RuntimeHasDisk
<1>15. QED
  BY <1>4, <1>5, <1>6, <1>7, <1>8, <1>9, <1>10, <1>11, <1>12, <1>13, <1>14 DEF IInv

\* The record announces an upload before the first byte is sent.
LEMMA SetRemoteKeeps ==
    ASSUME TypeOK, IInv, RewriteRecord /\ SetRemote
    PROVE  TypeOK' /\ IInv'
PROOF
<1> USE Flow, StoreAssumption, NoneAssumption DEF IInv, RewriteRecord, SetRemote,
        WriteJournal, At, storeVars, localVars, runVars, cpVars
<1>1. /\ pc # "done" /\ op # None /\ pc' \in Labels /\ pc' \in StepsOf(op.act)
      /\ op.rescue => pc' \in RecoverSteps \cup {"done"}
  BY FlowStays
<1>2. /\ pc = "remote" /\ pc' = "markRemote"
      /\ rec \in Record /\ journal # None /\ journal' = rec'
  BY <1>1 DEF TypeOK, RecInv
<1>3. /\ rec' \in Record
      /\ rec'.inst = rec.inst /\ rec'.id = rec.id
      /\ rec'.phase = rec.phase /\ rec'.remote = TRUE
      /\ rec'.cand = rec.cand /\ rec'.ver = rec.ver
  BY <1>1, <1>2 DEF Record, Phases
<1>4. rec' # None
  BY <1>1, <1>2, <1>3
<1>5. TypeOK'
  BY <1>1, <1>3 DEF TypeOK
<1>6. RowInv'
  BY <1>1, <1>3 DEF RowInv
<1>7. OpInv'
  BY <1>1, <1>3 DEF OpInv, RecInv
<1>8. RecInv'
  BY <1>2, <1>4 DEF RecInv
<1>9. StepInv'
  BY <1>1, <1>3 DEF RecInv, StepInv, Verified, StepsOf, PurgeSteps, FetchSteps
<1>10. JournalInv'
  BY <1>1, <1>3 DEF RecInv, StepInv, JournalInv, Verified
<1>11. GenInv'
  BY <1>2, <1>4 DEF RecInv, StepInv, GenInv, NoUpload
<1>12. DataSafe'
  BY <1>1, <1>3 DEF RecInv, StepInv, DataSafe, Verified
<1>13. ParentsKept'
  BY <1>1, <1>3 DEF ParentsKept
<1>14. MarkerHasJournal'
  BY <1>2, <1>4 DEF MarkerHasJournal
<1>15. RuntimeHasDisk'
  BY <1>1, <1>3 DEF OpInv, RuntimeHasDisk
<1>16. QED
  BY <1>5, <1>6, <1>7, <1>8, <1>9, <1>10, <1>11, <1>12, <1>13, <1>14, <1>15 DEF IInv

\* The record forgets the remote copy only after its deletion was acknowledged.
LEMMA SetLocalKeeps ==
    ASSUME TypeOK, IInv, RewriteRecord /\ SetLocal
    PROVE  TypeOK' /\ IInv'
PROOF
<1> USE Flow, StoreAssumption, NoneAssumption DEF IInv, RewriteRecord, SetLocal,
        WriteJournal, At, storeVars, localVars, runVars, cpVars
<1>1. /\ pc # "done" /\ op # None /\ pc' \in Labels /\ pc' \in StepsOf(op.act)
      /\ op.rescue => pc' \in RecoverSteps \cup {"done"}
  BY FlowStays
<1>2. /\ pc = "local" /\ pc' = "markLocal"
      /\ rec \in Record /\ journal # None /\ journal' = rec'
  BY <1>1 DEF TypeOK, RecInv
<1>3. /\ rec' \in Record
      /\ rec'.inst = rec.inst /\ rec'.id = rec.id
      /\ rec'.phase = rec.phase /\ rec'.remote = FALSE
      /\ rec'.cand = rec.cand /\ rec'.ver = rec.ver
  BY <1>1, <1>2 DEF Record, Phases
<1>4. rec' # None
  BY <1>1, <1>2, <1>3
<1>5. TypeOK'
  BY <1>1, <1>3 DEF TypeOK
<1>6. RowInv'
  BY <1>1, <1>3 DEF RowInv
<1>7. OpInv'
  BY <1>1, <1>3 DEF OpInv, RecInv
<1>8. RecInv'
  BY <1>2, <1>4 DEF RecInv
<1>9. StepInv'
  BY <1>1, <1>3 DEF RecInv, StepInv, Verified, StepsOf, PurgeSteps, FetchSteps
<1>10. JournalInv'
  BY <1>1, <1>3 DEF RecInv, StepInv, JournalInv, NoUpload, Verified, Available
<1>11. GenInv'
  BY <1>1, <1>3 DEF RecInv, StepInv, GenInv, NoUpload
<1>12. DataSafe'
  BY <1>1, <1>3 DEF OpInv, RecInv, StepInv, DataSafe, Retrievable, Verified, RecoverSteps,
     UploadSteps
<1>13. ParentsKept'
  BY <1>1, <1>3 DEF ParentsKept
<1>14. MarkerHasJournal'
  BY <1>2, <1>4 DEF MarkerHasJournal
<1>15. RuntimeHasDisk'
  BY <1>1, <1>3 DEF OpInv, RuntimeHasDisk
<1>16. QED
  BY <1>5, <1>6, <1>7, <1>8, <1>9, <1>10, <1>11, <1>12, <1>13, <1>14, <1>15 DEF IInv

\* The record names the candidate that was staged and verified.
LEMMA SetCandidateKeeps ==
    ASSUME TypeOK, IInv, RewriteRecord /\ SetCandidate
    PROVE  TypeOK' /\ IInv'
PROOF
<1> USE Flow, StoreAssumption, NoneAssumption DEF IInv, RewriteRecord, SetCandidate,
        WriteJournal, At, storeVars, localVars, runVars, cpVars
<1>1. /\ pc # "done" /\ op # None /\ pc' \in Labels /\ pc' \in StepsOf(op.act)
      /\ op.rescue => pc' \in RecoverSteps \cup {"done"}
  BY FlowStays
<1>2. /\ pc = "candidate" /\ pc' = "markCandidate"
      /\ rec \in Record /\ journal # None /\ journal' = rec'
      /\ cand # None /\ cand.id \in DiskIds /\ cand.id # None
  BY <1>1 DEF TypeOK, RecInv, StepInv, Candidate
<1>3. /\ rec' \in Record
      /\ rec'.inst = rec.inst /\ rec'.id = rec.id
      /\ rec'.phase = rec.phase /\ rec'.remote = rec.remote
      /\ rec'.cand = cand.id /\ rec'.ver = rec.ver
  BY <1>1, <1>2 DEF Record, Phases
<1>4. TypeOK'
  BY <1>1, <1>3 DEF TypeOK
<1>5. RowInv'
  BY <1>1, <1>3 DEF RowInv
<1>6. OpInv'
  BY <1>1, <1>3 DEF OpInv, RecInv
<1>7. RecInv'
  BY <1>1, <1>3 DEF RecInv
<1>8. StepInv'
  BY <1>1, <1>3 DEF RecInv, StepInv, Verified, StepsOf, PurgeSteps, UploadSteps
<1>9. JournalInv'
  BY <1>1, <1>3 DEF RecInv, StepInv, JournalInv, NoUpload, Verified, Available
<1>10. GenInv'
  BY <1>1, <1>3 DEF RecInv, StepInv, GenInv, NoUpload
<1>11. DataSafe'
  BY <1>2, <1>3 DEF RecInv, StepInv, DataSafe, Retrievable, Verified
<1>12. ParentsKept'
  BY <1>1, <1>3 DEF ParentsKept
<1>13. MarkerHasJournal'
  BY <1>1, <1>3 DEF MarkerHasJournal
<1>14. RuntimeHasDisk'
  BY <1>1, <1>3 DEF OpInv, RuntimeHasDisk
<1>15. QED
  BY <1>4, <1>5, <1>6, <1>7, <1>8, <1>9, <1>10, <1>11, <1>12, <1>13, <1>14 DEF IInv

\* The public marker follows the journal.
LEMMA WriteMarkerKeeps ==
    ASSUME TypeOK, IInv, WriteMarker
    PROVE  TypeOK' /\ IInv'
PROOF
<1> USE Flow, StoreAssumption, NoneAssumption DEF IInv, WriteMarker, Marks, At, storeVars,
        localVars, runVars, cpVars
<1>1. /\ pc # "done" /\ op # None /\ pc' \in Labels /\ pc' \in StepsOf(op.act)
      /\ op.rescue => pc' \in RecoverSteps \cup {"done"}
  BY FlowStays
<1>2. op.act = "delete" => pc' # "done"
  BY <1>1 DEF TypeOK, OpInv, StepsOf, PurgeSteps
<1>3. TypeOK'
  BY <1>1 DEF TypeOK
<1>4. RowInv'
  BY <1>1 DEF RowInv
<1>5. OpInv'
  BY <1>1, <1>2 DEF OpInv
<1>6. RecInv'
  BY <1>1 DEF RecInv
<1>7. StepInv'
  BY <1>1 DEF StepInv, Verified, StepsOf, PurgeSteps, FetchSteps
<1>8. JournalInv'
  BY <1>1 DEF JournalInv, NoUpload, Verified, Available
<1>9. GenInv'
  BY <1>1 DEF GenInv, NoUpload
<1>10. DataSafe'
  BY <1>1 DEF DataSafe, Retrievable, Verified, Available
<1>11. ParentsKept'
  BY <1>1 DEF ParentsKept
<1>12. MarkerHasJournal'
  BY <1>1 DEF RecInv, StepInv, MarkerHasJournal
<1>13. RuntimeHasDisk'
  BY <1>1 DEF RuntimeHasDisk
<1>14. QED
  BY <1>3, <1>4, <1>5, <1>6, <1>7, <1>8, <1>9, <1>10, <1>11, <1>12, <1>13 DEF IInv

\* A new generation has an ID that nobody uploaded under.
LEMMA NewGenerationKeeps ==
    ASSUME TypeOK, IInv, NewGeneration
    PROVE  TypeOK' /\ IInv'
PROOF
<1> USE Flow, StoreAssumption, NoneAssumption DEF IInv, NewGeneration, WriteJournal, At,
        storeVars, localVars, runVars, cpVars
<1>1. /\ pc # "done" /\ op # None /\ pc' \in Labels /\ pc' \in StepsOf(op.act)
      /\ op.rescue => pc' \in RecoverSteps \cup {"done"}
  BY FlowStays
<1>2. /\ pc = "new" /\ pc' = "markNew" /\ journal = None
      /\ disk # None /\ disk.id \in DiskIds /\ op.inst \in Insts /\ op.act = "offload"
  BY <1>1 DEF TypeOK, RecInv, OpInv, StepsOf, RecoverSteps, PurgeSteps, FetchSteps,
     Operation, Acts, Disk
<1>3. PICK g \in Gens :
         /\ gens[g] = None
         /\ gens' = [gens EXCEPT ![g] = op.inst]
         /\ WriteJournal([inst |-> op.inst, phase |-> "offloading",
                          remote |-> FALSE, disk |-> disk.id, cand |-> None,
                          id |-> g, ver |-> 0, parent |-> None])
  BY <1>1, <1>2
<1>4. /\ journal' = rec' /\ rec' \in Record
      /\ rec'.inst = op.inst /\ rec'.id = g /\ rec'.phase = "offloading"
      /\ rec'.remote = FALSE /\ rec'.cand = None
  BY <1>1, <1>2, <1>3, InstsAssumption DEF Record, Phases
<1>5. rec' # None
  BY <1>1, <1>2, <1>3, <1>4
<1>6. TypeOK'
  BY <1>1, <1>2, <1>4 DEF TypeOK
<1>7. RowInv'
  BY <1>2, <1>4 DEF RowInv
<1>8. OpInv'
  BY <1>1, <1>2, <1>4 DEF OpInv
<1>9. RecInv'
  BY <1>1, <1>3, <1>5 DEF RecInv
<1>10. StepInv'
  BY <1>2, <1>4 DEF StepInv, Verified, StepsOf, PurgeSteps, FetchSteps
<1>11. JournalInv'
  BY <1>2, <1>4 DEF TypeOK, RowInv, OpInv, RecInv, JournalInv, GenInv, NoUpload, Verified,
     RecoverSteps, UploadSteps
<1>12. GenInv'
  BY <1>2, <1>4 DEF GenInv, NoUpload
<1>13. DataSafe'
  BY <1>2, <1>4 DEF DataSafe, Retrievable, Verified
<1>14. ParentsKept'
  BY <1>2, <1>4 DEF ParentsKept
<1>15. MarkerHasJournal'
  BY <1>2, <1>4 DEF MarkerHasJournal
<1>16. RuntimeHasDisk'
  BY <1>2, <1>4 DEF OpInv, RuntimeHasDisk
<1>17. QED
  BY <1>6, <1>7, <1>8, <1>9, <1>10, <1>11, <1>12, <1>13, <1>14, <1>15, <1>16 DEF IInv

\* The snapshot fixes what will be uploaded while the VM is down.
LEMMA TakeSnapshotKeeps ==
    ASSUME TypeOK, IInv, TakeSnapshot
    PROVE  TypeOK' /\ IInv'
PROOF
<1> USE Flow, StoreAssumption, NoneAssumption DEF IInv, TakeSnapshot, DiskIs, At, storeVars,
        localVars, runVars, cpVars
<1>1. /\ pc # "done" /\ op # None /\ pc' \in Labels /\ pc' \in StepsOf(op.act)
      /\ op.rescue => pc' \in RecoverSteps \cup {"done"}
  BY FlowStays
<1>2. /\ pc = "snapshot" /\ pc' = "base" /\ rec \in Record /\ disk \in Disk
      /\ disk # None /\ ~rec.remote /\ journal # None /\ rec = journal
  BY <1>1 DEF TypeOK, RecInv
<1>3. /\ rec' \in Record /\ rec'.inst = rec.inst /\ rec'.id = rec.id
      /\ rec'.phase = rec.phase /\ rec'.remote = rec.remote
      /\ rec'.cand = rec.cand /\ rec'.ver = disk.ver
  BY <1>1, <1>2 DEF Record, Disk
<1>4. TypeOK'
  BY <1>1, <1>3 DEF TypeOK
<1>5. RowInv'
  BY <1>1, <1>3 DEF RowInv
<1>6. OpInv'
  BY <1>1, <1>3 DEF OpInv
<1>7. RecInv'
  BY <1>1, <1>3 DEF RecInv
<1>8. StepInv'
  BY <1>1, <1>3 DEF StepInv, Verified, StepsOf, PurgeSteps, FetchSteps
<1>9. JournalInv'
  BY <1>2, <1>3 DEF JournalInv, NoUpload, Verified
<1>10. GenInv'
  BY <1>1, <1>3 DEF GenInv, NoUpload
<1>11. DataSafe'
  BY <1>1, <1>3 DEF DataSafe, Retrievable, Verified
<1>12. ParentsKept'
  BY <1>1, <1>3 DEF ParentsKept
<1>13. MarkerHasJournal'
  BY <1>1, <1>3 DEF MarkerHasJournal
<1>14. RuntimeHasDisk'
  BY <1>1, <1>3 DEF RuntimeHasDisk
<1>15. QED
  BY <1>4, <1>5, <1>6, <1>7, <1>8, <1>9, <1>10, <1>11, <1>12, <1>13, <1>14 DEF IInv

\* The base is uploaded, or is in the store already.
LEMMA PutBaseKeeps ==
    ASSUME TypeOK, IInv, PutBase
    PROVE  TypeOK' /\ IInv'
PROOF
<1> USE Flow, StoreAssumption, NoneAssumption DEF IInv, PutBase, At, Available, Accepts,
        Publish, storeVars, localVars, runVars, cpVars
<1>1. /\ pc # "done" /\ op # None /\ pc' \in Labels /\ pc' \in StepsOf(op.act)
      /\ op.rescue => pc' \in RecoverSteps \cup {"done"}
  BY FlowStays
<1>2. /\ pc = "base" /\ pc' = "remote" /\ rec \in Record
      /\ journal # None /\ journal.id \in Gens
  BY <1>1 DEF TypeOK, RecInv, Record
<1>3. /\ rec' \in Record /\ rec'.inst = rec.inst /\ rec'.id = rec.id
      /\ rec'.phase = rec.phase /\ rec'.remote = rec.remote
      /\ rec'.cand = rec.cand /\ rec'.ver = rec.ver
  BY <1>1, <1>2 DEF Record
<1>4. rec' # None
  BY <1>1, <1>2, <1>3
<1>5. /\ objects' \in [Ids -> Object \cup {None}]
      /\ \A g \in Gens : objects'[g] = objects[g]
      /\ objects[Base] # None => objects'[Base] = objects[Base]
      /\ objects[Base] = None /\ objects'[Base] # None => objects'[Base].parent = None
  BY <1>1, <1>2, <1>3, <1>4 DEF TypeOK, Ids, Object
<1>6. TypeOK'
  BY <1>1, <1>3, <1>5 DEF TypeOK
<1>7. RowInv'
  BY <1>2, <1>4 DEF RowInv
<1>8. OpInv'
  BY <1>1, <1>2, <1>4 DEF OpInv
<1>9. RecInv'
  BY <1>1, <1>3, <1>4 DEF RecInv
<1>10. StepInv'
  BY <1>1, <1>3, <1>4 DEF StepInv, Verified, StepsOf, PurgeSteps, FetchSteps
<1>11. JournalInv'
  BY <1>2, <1>3, <1>5 DEF JournalInv, NoUpload, Verified
<1>12. GenInv'
  BY <1>1, <1>3, <1>5 DEF GenInv, NoUpload
<1>13. DataSafe'
  BY <1>2, <1>3, <1>5 DEF DataSafe, Retrievable, Verified
<1>14. ParentsKept'
  BY <1>1, <1>3, <1>5 DEF GenInv, ParentsKept
<1>15. MarkerHasJournal'
  BY <1>2, <1>4 DEF MarkerHasJournal
<1>16. RuntimeHasDisk'
  BY <1>2, <1>4 DEF RuntimeHasDisk
<1>17. QED
  BY <1>6, <1>7, <1>8, <1>9, <1>10, <1>11, <1>12, <1>13, <1>14, <1>15, <1>16 DEF IInv

\* After the upload the contents of the disk are in the store.
LEMMA PutObjectKeeps ==
    ASSUME TypeOK, IInv, PutObject
    PROVE  TypeOK' /\ IInv'
PROOF
<1> USE Flow, StoreAssumption, NoneAssumption DEF IInv, PutObject, At, Available, Accepts,
        Publish, storeVars, localVars, runVars, cpVars
<1>1. /\ pc # "done" /\ op # None /\ pc' \in Labels /\ pc' \in StepsOf(op.act)
      /\ op.rescue => pc' \in RecoverSteps \cup {"done"}
  BY FlowStays
<1>2. /\ pc = "put" /\ pc' = "evicting" /\ rec \in Record /\ rec = journal
      /\ journal # None /\ journal.id \in Gens /\ journal.ver \in Nat
      /\ journal.parent \in {Base, None} /\ journal.id \notin deleted
  BY <1>1 DEF TypeOK, RecInv, Record
<1>3. /\ objects' \in [Ids -> Object \cup {None}]
      /\ objects'[journal.id] = [ver |-> journal.ver, parent |-> journal.parent]
      /\ \A id \in Ids \ {journal.id} : objects'[id] = objects[id]
  BY <1>1, <1>2 DEF TypeOK, Ids, Object
<1>4. objects'[journal.id] \in Object
  BY <1>1, <1>2, <1>3 DEF Object, Ids
<1>5. TypeOK'
  BY <1>1, <1>2, <1>4 DEF TypeOK
<1>6. RowInv'
  BY <1>2, <1>4 DEF RowInv
<1>7. OpInv'
  BY <1>1, <1>2, <1>4 DEF OpInv
<1>8. RecInv'
  BY <1>2, <1>4 DEF RecInv
<1>9. StepInv'
  BY <1>2, <1>4 DEF StepInv, Verified, StepsOf, PurgeSteps, FetchSteps
<1>10. JournalInv'
  BY <1>2, <1>4 DEF RecInv, StepInv, JournalInv, Verified
<1>11. GenInv'
  BY <1>2, <1>4 DEF GenInv, NoUpload
<1>12. DataSafe'
  BY <1>2, <1>4 DEF DataSafe, Retrievable, Verified
<1>13. ParentsKept'
  BY <1>2, <1>4 DEF ParentsKept
<1>14. MarkerHasJournal'
  BY <1>2, <1>4 DEF MarkerHasJournal
<1>15. RuntimeHasDisk'
  BY <1>2, <1>4 DEF RuntimeHasDisk
<1>16. QED
  BY <1>5, <1>6, <1>7, <1>8, <1>9, <1>10, <1>11, <1>12, <1>13, <1>14, <1>15 DEF IInv

\* The local disk is deleted; its contents can be brought back.
LEMMA EvictKeeps ==
    ASSUME TypeOK, IInv, Evict
    PROVE  TypeOK' /\ IInv'
PROOF
<1> USE Flow, StoreAssumption, NoneAssumption DEF IInv, Evict, At, DiskIs, storeVars,
        localVars, runVars, cpVars
<1>1. /\ pc # "done" /\ op # None /\ pc' \in Labels /\ pc' \in StepsOf(op.act)
      /\ op.rescue => pc' \in RecoverSteps \cup {"done"}
  BY FlowStays
<1>2. /\ pc = "evict" /\ pc' = "cold" /\ op.act = "offload"
  BY <1>1 DEF TypeOK, OpInv, StepsOf, Acts, Operation, RecoverSteps, PurgeSteps, FetchSteps
<1>3. /\ op.inst = row /\ row \in Insts /\ row \notin tomb /\ ram = None /\ vm = None
      /\ journal.inst = row /\ journal # None /\ journal.phase = "evicting"
  BY <1>1, <1>2 DEF TypeOK, OpInv, Operation, RecInv, StepInv
<1>4. TypeOK'
  BY <1>1, <1>2 DEF TypeOK
<1>5. RowInv'
  BY <1>2 DEF RowInv
<1>6. OpInv'
  BY <1>1, <1>2 DEF OpInv
<1>7. RecInv'
  BY <1>2 DEF RecInv
<1>8. StepInv'
  BY <1>2 DEF StepInv, Verified, StepsOf, PurgeSteps, UploadSteps
<1>9. JournalInv'
  BY <1>2 DEF JournalInv, NoUpload, Verified, Available
<1>10. GenInv'
  BY <1>2 DEF GenInv, NoUpload
<1>11. DataSafe'
  BY <1>1, <1>3 DEF OpInv, RecInv, JournalInv, DataSafe, Retrievable, Verified, Available
<1>12. ParentsKept'
  BY <1>2 DEF ParentsKept
<1>13. MarkerHasJournal'
  BY <1>2 DEF MarkerHasJournal
<1>14. RuntimeHasDisk'
  BY <1>1, <1>3 DEF RuntimeHasDisk
<1>15. QED
  BY <1>4, <1>5, <1>6, <1>7, <1>8, <1>9, <1>10, <1>11, <1>12, <1>13, <1>14 DEF IInv

\* Staged candidates are dropped only while the record does not name one.
LEMMA CleanStagesKeeps ==
    ASSUME TypeOK, IInv, CleanStages
    PROVE  TypeOK' /\ IInv'
PROOF
<1> USE Flow, StoreAssumption, NoneAssumption DEF IInv, CleanStages, Cleans, At, storeVars,
        localVars, runVars, cpVars
<1>1. /\ pc # "done" /\ op # None /\ pc' \in Labels /\ pc' \in StepsOf(op.act)
      /\ op.rescue => pc' \in RecoverSteps \cup {"done"}
  BY FlowStays
<1>2. TypeOK'
  BY <1>1 DEF TypeOK
<1>3. RowInv'
  BY DEF RowInv
<1>4. OpInv'
  BY <1>1 DEF OpInv
<1>5. RecInv'
  BY DEF RecInv
<1>6. StepInv'
  BY DEF RecInv, StepInv, Verified, StepsOf, PurgeSteps, FetchSteps
<1>7. JournalInv'
  BY DEF JournalInv, NoUpload, Verified, Available
<1>8. GenInv'
  BY DEF GenInv, NoUpload
<1>9. DataSafe'
  BY DEF OpInv, RecInv, StepInv, DataSafe, Retrievable, Verified, Available, RecoverSteps,
     UploadSteps
<1>10. ParentsKept'
  BY DEF ParentsKept
<1>11. MarkerHasJournal'
  BY DEF MarkerHasJournal
<1>12. RuntimeHasDisk'
  BY DEF RuntimeHasDisk
<1>13. QED
  BY <1>2, <1>3, <1>4, <1>5, <1>6, <1>7, <1>8, <1>9, <1>10, <1>11, <1>12 DEF IInv

\* The candidate holds what the record names.
LEMMA GetObjectKeeps ==
    ASSUME TypeOK, IInv, GetObject
    PROVE  TypeOK' /\ IInv'
PROOF
<1> USE Flow, StoreAssumption, NoneAssumption DEF IInv, GetObject, At, Verified, Available,
        storeVars, localVars, runVars, cpVars
<1>1. /\ pc # "done" /\ op # None /\ pc' \in Labels /\ pc' \in StepsOf(op.act)
      /\ op.rescue => pc' \in RecoverSteps \cup {"done"}
  BY FlowStays
<1>2. /\ pc = "get" /\ pc' = "candidate" /\ rec \in Record /\ rec = journal
      /\ journal # None
  BY <1>1 DEF TypeOK, RecInv
<1>3. /\ disks' \in DiskIds /\ cand' \in Candidate /\ cand'.ver = journal.ver
  BY <1>1, <1>2, InstsAssumption DEF TypeOK, DiskIds, Candidate, Record
<1>4. TypeOK'
  BY <1>1, <1>3 DEF TypeOK
<1>5. RowInv'
  BY <1>1, <1>3 DEF RowInv
<1>6. OpInv'
  BY <1>1, <1>3 DEF OpInv
<1>7. RecInv'
  BY <1>1, <1>3 DEF RecInv
<1>8. StepInv'
  BY <1>1, <1>3 DEF StepInv, Verified, StepsOf, PurgeSteps, UploadSteps
<1>9. JournalInv'
  BY <1>1, <1>3 DEF JournalInv, NoUpload, Verified
<1>10. GenInv'
  BY <1>1, <1>3 DEF GenInv, NoUpload
<1>11. DataSafe'
  BY <1>1, <1>3 DEF RecInv, StepInv, DataSafe, Retrievable, Verified
<1>12. ParentsKept'
  BY <1>1, <1>3 DEF ParentsKept
<1>13. MarkerHasJournal'
  BY <1>1, <1>3 DEF MarkerHasJournal
<1>14. RuntimeHasDisk'
  BY <1>1, <1>3 DEF RuntimeHasDisk
<1>15. QED
  BY <1>4, <1>5, <1>6, <1>7, <1>8, <1>9, <1>10, <1>11, <1>12, <1>13, <1>14 DEF IInv

\* The candidate becomes the disk of the incarnation.
LEMMA InstallCandidateKeeps ==
    ASSUME TypeOK, IInv, InstallCandidate
    PROVE  TypeOK' /\ IInv'
PROOF
<1> USE Flow, StoreAssumption, NoneAssumption DEF IInv, InstallCandidate, At, storeVars,
        localVars, runVars, cpVars
<1>1. /\ pc # "done" /\ op # None /\ pc' \in Labels /\ pc' \in StepsOf(op.act)
      /\ op.rescue => pc' \in RecoverSteps \cup {"done"}
  BY FlowStays
<1>2. /\ pc = "install" /\ pc' = "hot" /\ op.act = "hydrate"
  BY <1>1 DEF TypeOK, OpInv, StepsOf, Acts, Operation, RecoverSteps, PurgeSteps, UploadSteps
<1>3. /\ op.inst = row /\ row \in Insts /\ row # None /\ row \notin tomb
      /\ ram = None /\ vm = None
  BY <1>1, <1>2, InstsAssumption DEF TypeOK, OpInv, Operation
<1>4. /\ disk' \in Disk /\ disk'.owner = row /\ cand' = None
  BY <1>1, <1>2, <1>3 DEF TypeOK, Disk, Candidate
<1>5. TypeOK'
  BY <1>1, <1>2, <1>4 DEF TypeOK
<1>6. RowInv'
  BY <1>1, <1>3, <1>4 DEF RowInv
<1>7. OpInv'
  BY <1>1, <1>2, <1>4 DEF OpInv
<1>8. RecInv'
  BY <1>2, <1>4 DEF RecInv
<1>9. StepInv'
  BY <1>2, <1>4 DEF StepInv, Verified, StepsOf, PurgeSteps, FetchSteps
<1>10. JournalInv'
  BY <1>2, <1>4 DEF JournalInv, NoUpload, Verified, Available
<1>11. GenInv'
  BY <1>2, <1>4 DEF GenInv, NoUpload
<1>12. DataSafe'
  BY <1>2, <1>4 DEF DataSafe, Retrievable, Verified
<1>13. ParentsKept'
  BY <1>2, <1>4 DEF ParentsKept
<1>14. MarkerHasJournal'
  BY <1>2, <1>4 DEF MarkerHasJournal
<1>15. RuntimeHasDisk'
  BY <1>2, <1>4 DEF RuntimeHasDisk
<1>16. QED
  BY <1>5, <1>6, <1>7, <1>8, <1>9, <1>10, <1>11, <1>12, <1>13, <1>14, <1>15 DEF IInv

\* The deletion fences the ID, so that no late upload returns.
LEMMA RemoteDeleteKeeps ==
    ASSUME TypeOK, IInv, RemoteDelete
    PROVE  TypeOK' /\ IInv'
PROOF
<1> USE Flow, StoreAssumption, NoneAssumption DEF IInv, RemoteDelete, At, DeleteObject,
        Unreferenced, Remove, storeVars, localVars, runVars, cpVars
<1>1. /\ pc # "done" /\ op # None /\ pc' \in Labels /\ pc' \in StepsOf(op.act)
      /\ op.rescue => pc' \in RecoverSteps \cup {"done"}
  BY FlowStays
<1>2. /\ pc = "delete" /\ pc' = "local" /\ rec \in Record /\ rec = journal
      /\ journal # None /\ journal.id \in Gens /\ journal.id \in Ids
  BY <1>1 DEF TypeOK, RecInv, Record, Ids
<1>3. TypeOK'
  BY <1>1, <1>2 DEF TypeOK
<1>4. RowInv'
  BY <1>2 DEF RowInv
<1>5. OpInv'
  BY <1>1, <1>2 DEF OpInv
<1>6. RecInv'
  BY <1>2 DEF RecInv
<1>7. StepInv'
  BY <1>2 DEF StepInv, Verified, StepsOf, PurgeSteps, FetchSteps
<1>8. JournalInv'
  BY <1>2 DEF OpInv, RecInv, StepInv, JournalInv, Verified, RecoverSteps, UploadSteps
<1>9. GenInv'
  BY <1>2 DEF TypeOK, OpInv, StepInv, GenInv, NoUpload, RecoverSteps, UploadSteps, Ids
<1>10. DataSafe'
  BY <1>2 DEF OpInv, RecInv, StepInv, DataSafe, Retrievable, Verified, RecoverSteps,
     UploadSteps
<1>11. ParentsKept'
  BY <1>2 DEF TypeOK, GenInv, ParentsKept, Available, Ids
<1>12. MarkerHasJournal'
  BY <1>2 DEF MarkerHasJournal
<1>13. RuntimeHasDisk'
  BY <1>2 DEF RuntimeHasDisk
<1>14. QED
  BY <1>3, <1>4, <1>5, <1>6, <1>7, <1>8, <1>9, <1>10, <1>11, <1>12, <1>13 DEF IInv

\* The marker goes before the journal.
LEMMA RemoveMarkerKeeps ==
    ASSUME TypeOK, IInv, RemoveMarker
    PROVE  TypeOK' /\ IInv'
PROOF
<1> USE Flow, StoreAssumption, NoneAssumption DEF IInv, RemoveMarker, At, storeVars,
        localVars, runVars, cpVars
<1>1. /\ pc # "done" /\ op # None /\ pc' \in Labels /\ pc' \in StepsOf(op.act)
      /\ op.rescue => pc' \in RecoverSteps \cup {"done"}
  BY FlowStays
<1>2. /\ pc = "unmark" /\ pc' = "unjournal"
  BY <1>1 DEF At
<1>3. TypeOK'
  BY <1>1, <1>2 DEF TypeOK
<1>4. RowInv'
  BY <1>1 DEF RowInv
<1>5. OpInv'
  BY <1>1 DEF OpInv
<1>6. RecInv'
  BY <1>1 DEF RecInv
<1>7. StepInv'
  BY <1>1 DEF StepInv, Verified, StepsOf, PurgeSteps, FetchSteps
<1>8. JournalInv'
  BY <1>1 DEF JournalInv, NoUpload, Verified, Available
<1>9. GenInv'
  BY <1>1 DEF GenInv, NoUpload
<1>10. DataSafe'
  BY <1>1 DEF DataSafe, Retrievable, Verified, Available
<1>11. ParentsKept'
  BY <1>1 DEF ParentsKept
<1>12. MarkerHasJournal'
  BY <1>1 DEF MarkerHasJournal
<1>13. RuntimeHasDisk'
  BY <1>1 DEF RuntimeHasDisk
<1>14. QED
  BY <1>3, <1>4, <1>5, <1>6, <1>7, <1>8, <1>9, <1>10, <1>11, <1>12, <1>13 DEF IInv

\* The journal goes once it accounts for nothing remote.
LEMMA RemoveJournalKeeps ==
    ASSUME TypeOK, IInv, RemoveJournal
    PROVE  TypeOK' /\ IInv'
PROOF
<1> USE Flow, StoreAssumption, NoneAssumption DEF IInv, RemoveJournal, At, storeVars,
        localVars, runVars, cpVars
<1>1. /\ pc # "done" /\ op # None /\ pc' \in Labels /\ pc' \in StepsOf(op.act)
      /\ op.rescue => pc' \in RecoverSteps \cup {"done"}
  BY FlowStays
<1>2. TypeOK'
  BY <1>1 DEF TypeOK
<1>3. RowInv'
  BY DEF RowInv
<1>4. OpInv'
  BY <1>1 DEF OpInv
<1>5. RecInv'
  BY DEF RecInv
<1>6. StepInv'
  BY DEF StepInv, Verified, StepsOf, PurgeSteps, FetchSteps
<1>7. JournalInv'
  BY DEF JournalInv, NoUpload, Verified
<1>8. GenInv'
  BY DEF OpInv, RecInv, StepInv, JournalInv, GenInv, NoUpload
<1>9. DataSafe'
  BY DEF RecInv, StepInv, DataSafe, Retrievable, Verified
<1>10. ParentsKept'
  BY DEF ParentsKept
<1>11. MarkerHasJournal'
  BY DEF RecInv, StepInv, MarkerHasJournal
<1>12. RuntimeHasDisk'
  BY DEF RuntimeHasDisk
<1>13. QED
  BY <1>2, <1>3, <1>4, <1>5, <1>6, <1>7, <1>8, <1>9, <1>10, <1>11, <1>12 DEF IInv

\* A tombstone condemns the incarnation before anything of it is deleted.
LEMMA WriteTombstoneKeeps ==
    ASSUME TypeOK, IInv, WriteTombstone
    PROVE  TypeOK' /\ IInv'
PROOF
<1> USE Flow, StoreAssumption, NoneAssumption DEF IInv, WriteTombstone, At, storeVars,
        localVars, runVars, cpVars
<1>1. /\ pc # "done" /\ op # None /\ pc' \in Labels /\ pc' \in StepsOf(op.act)
      /\ op.rescue => pc' \in RecoverSteps \cup {"done"}
  BY FlowStays
<1>2. /\ pc = "tombstone" /\ pc' = "discard" /\ op.act = "delete"
      /\ op.inst \in Insts
  BY <1>1 DEF TypeOK, OpInv, StepsOf, Acts, Operation, RecoverSteps, PurgeSteps,
     UploadSteps, FetchSteps
<1>3. TypeOK'
  BY <1>1, <1>2 DEF TypeOK
<1>4. RowInv'
  BY <1>1 DEF RowInv, OpInv
<1>5. OpInv'
  BY <1>1, <1>2 DEF OpInv
<1>6. RecInv'
  BY <1>1 DEF RecInv
<1>7. StepInv'
  BY <1>1 DEF StepInv, Verified, StepsOf, PurgeSteps, FetchSteps
<1>8. JournalInv'
  BY <1>1 DEF JournalInv, NoUpload, Verified, Available
<1>9. GenInv'
  BY <1>1 DEF GenInv, NoUpload
<1>10. DataSafe'
  BY <1>1 DEF DataSafe, Retrievable, Verified, Available
<1>11. ParentsKept'
  BY <1>1 DEF ParentsKept
<1>12. MarkerHasJournal'
  BY <1>1 DEF MarkerHasJournal
<1>13. RuntimeHasDisk'
  BY <1>1 DEF OpInv, RuntimeHasDisk
<1>14. QED
  BY <1>3, <1>4, <1>5, <1>6, <1>7, <1>8, <1>9, <1>10, <1>11, <1>12, <1>13 DEF IInv

\* Saved RAM goes before the disk it belongs to.
LEMMA DiscardRAMKeeps ==
    ASSUME TypeOK, IInv, DiscardRAM
    PROVE  TypeOK' /\ IInv'
PROOF
<1> USE Flow, StoreAssumption, NoneAssumption DEF IInv, DiscardRAM, At, storeVars,
        localVars, runVars, cpVars
<1>1. /\ pc # "done" /\ op # None /\ pc' \in Labels /\ pc' \in StepsOf(op.act)
      /\ op.rescue => pc' \in RecoverSteps \cup {"done"}
  BY FlowStays
<1>2. /\ pc = "discard" /\ op.act = "delete"
  BY <1>1 DEF TypeOK, OpInv, StepsOf, Acts, Operation, RecoverSteps, PurgeSteps,
     UploadSteps, FetchSteps
<1>3. /\ rec = journal
      /\ pc' = IF journal = None THEN "done"
                ELSE IF journal.phase = "purged" THEN "unmark"
                ELSE IF journal.remote THEN "delete" ELSE "cleanPurge"
  BY <1>1, <1>2 DEF RecInv
<1>4. TypeOK'
  BY <1>1, <1>2 DEF TypeOK
<1>5. RowInv'
  BY <1>2 DEF RowInv
<1>6. OpInv'
  BY <1>1, <1>3 DEF OpInv
<1>7. RecInv'
  BY <1>2 DEF RecInv
<1>8. StepInv'
  BY <1>2, <1>3 DEF StepInv, Verified, StepsOf, PurgeSteps, FetchSteps
<1>9. JournalInv'
  BY <1>2 DEF JournalInv, NoUpload, Verified, Available
<1>10. GenInv'
  BY <1>2 DEF GenInv, NoUpload
<1>11. DataSafe'
  BY <1>2 DEF DataSafe, Retrievable, Verified, Available
<1>12. ParentsKept'
  BY <1>2 DEF ParentsKept
<1>13. MarkerHasJournal'
  BY <1>2 DEF MarkerHasJournal
<1>14. RuntimeHasDisk'
  BY <1>2 DEF RuntimeHasDisk
<1>15. QED
  BY <1>4, <1>5, <1>6, <1>7, <1>8, <1>9, <1>10, <1>11, <1>12, <1>13, <1>14 DEF IInv

\* The record allows the eviction only of a disk that is published and verified.
LEMMA SetEvictingKeeps ==
    ASSUME TypeOK, IInv, RewriteRecord,
           At("evicting") /\ WriteJournal([rec EXCEPT !.phase = "evicting"])
    PROVE  TypeOK' /\ IInv'
PROOF
<1> USE Flow, StoreAssumption, NoneAssumption DEF IInv, RewriteRecord, WriteJournal, At,
        storeVars, localVars, runVars, cpVars
<1>1. /\ pc # "done" /\ op # None /\ pc' \in Labels /\ pc' \in StepsOf(op.act)
      /\ op.rescue => pc' \in RecoverSteps \cup {"done"}
  BY FlowStays
<1>2. /\ pc = "evicting" /\ pc' = "markEvicting"
      /\ rec \in Record /\ journal # None /\ journal' = rec'
  BY <1>1 DEF TypeOK, RecInv
<1>3. /\ rec' \in Record
      /\ rec'.inst = rec.inst /\ rec'.id = rec.id
      /\ rec'.phase = "evicting" /\ rec'.remote = rec.remote
      /\ rec'.cand = rec.cand /\ rec'.ver = rec.ver
  BY <1>1, <1>2 DEF Record, Phases
<1>4. TypeOK'
  BY <1>1, <1>3 DEF TypeOK
<1>5. RowInv'
  BY <1>1, <1>3 DEF RowInv
<1>6. OpInv'
  BY <1>1, <1>3 DEF OpInv, RecInv
<1>7. RecInv'
  BY <1>1, <1>3 DEF RecInv
<1>8. StepInv'
  BY <1>1, <1>3 DEF StepInv, Verified
<1>9. JournalInv'
  BY <1>1, <1>3 DEF RecInv, StepInv, JournalInv, Verified, Available
<1>10. GenInv'
  BY <1>1, <1>3 DEF RecInv, StepInv, GenInv, NoUpload
<1>11. DataSafe'
  BY <1>1, <1>3 DEF RecInv, StepInv, DataSafe, Verified
<1>12. ParentsKept'
  BY <1>1, <1>3 DEF ParentsKept
<1>13. MarkerHasJournal'
  BY <1>1, <1>3 DEF MarkerHasJournal
<1>14. RuntimeHasDisk'
  BY <1>1, <1>3 DEF OpInv, RuntimeHasDisk
<1>15. QED
  BY <1>4, <1>5, <1>6, <1>7, <1>8, <1>9, <1>10, <1>11, <1>12, <1>13, <1>14 DEF IInv

\* The record says cold once the local disk is gone.
LEMMA SetColdKeeps ==
    ASSUME TypeOK, IInv, RewriteRecord,
           At("cold") /\ WriteJournal([rec EXCEPT !.phase = "cold"])
    PROVE  TypeOK' /\ IInv'
PROOF
<1> USE Flow, StoreAssumption, NoneAssumption DEF IInv, RewriteRecord, WriteJournal, At,
        storeVars, localVars, runVars, cpVars
<1>1. /\ pc # "done" /\ op # None /\ pc' \in Labels /\ pc' \in StepsOf(op.act)
      /\ op.rescue => pc' \in RecoverSteps \cup {"done"}
  BY FlowStays
<1>2. /\ pc = "cold" /\ pc' = "markCold"
      /\ rec \in Record /\ journal # None /\ journal' = rec'
  BY <1>1 DEF TypeOK, RecInv
<1>3. /\ rec' \in Record
      /\ rec'.inst = rec.inst /\ rec'.id = rec.id
      /\ rec'.phase = "cold" /\ rec'.remote = rec.remote
      /\ rec'.cand = rec.cand /\ rec'.ver = rec.ver
  BY <1>1, <1>2 DEF Record, Phases
<1>4. TypeOK'
  BY <1>1, <1>3 DEF TypeOK
<1>5. RowInv'
  BY <1>1, <1>3 DEF RowInv
<1>6. OpInv'
  BY <1>1, <1>3 DEF OpInv, RecInv
<1>7. RecInv'
  BY <1>1, <1>3 DEF RecInv
<1>8. StepInv'
  BY <1>1, <1>3 DEF StepInv, Verified, StepsOf, PurgeSteps, UploadSteps
<1>9. JournalInv'
  BY <1>1, <1>3 DEF RecInv, StepInv, JournalInv, NoUpload, Verified, Available
<1>10. GenInv'
  BY <1>1, <1>3 DEF RecInv, StepInv, GenInv, NoUpload
<1>11. DataSafe'
  BY <1>1, <1>3 DEF RecInv, StepInv, DataSafe, Retrievable, Verified, Available
<1>12. ParentsKept'
  BY <1>1, <1>3 DEF ParentsKept
<1>13. MarkerHasJournal'
  BY <1>1, <1>3 DEF MarkerHasJournal
<1>14. RuntimeHasDisk'
  BY <1>1, <1>3 DEF OpInv, RuntimeHasDisk
<1>15. QED
  BY <1>4, <1>5, <1>6, <1>7, <1>8, <1>9, <1>10, <1>11, <1>12, <1>13, <1>14 DEF IInv

\* The record says restoring, and still needs the remote copy.
LEMMA SetRestoringKeeps ==
    ASSUME TypeOK, IInv, RewriteRecord,
           At("restoring") /\ WriteJournal([rec EXCEPT !.phase = "restoring"])
    PROVE  TypeOK' /\ IInv'
PROOF
<1> USE Flow, StoreAssumption, NoneAssumption DEF IInv, RewriteRecord, WriteJournal, At,
        storeVars, localVars, runVars, cpVars
<1>1. /\ pc # "done" /\ op # None /\ pc' \in Labels /\ pc' \in StepsOf(op.act)
      /\ op.rescue => pc' \in RecoverSteps \cup {"done"}
  BY FlowStays
<1>2. /\ pc = "restoring" /\ pc' = "markRestoring"
      /\ rec \in Record /\ journal # None /\ journal' = rec'
  BY <1>1 DEF TypeOK, RecInv
<1>3. /\ rec' \in Record
      /\ rec'.inst = rec.inst /\ rec'.id = rec.id
      /\ rec'.phase = "restoring" /\ rec'.remote = rec.remote
      /\ rec'.cand = rec.cand /\ rec'.ver = rec.ver
  BY <1>1, <1>2 DEF Record, Phases
<1>4. TypeOK'
  BY <1>1, <1>3 DEF TypeOK
<1>5. RowInv'
  BY <1>1, <1>3 DEF RowInv
<1>6. OpInv'
  BY <1>1, <1>3 DEF OpInv, RecInv
<1>7. RecInv'
  BY <1>1, <1>3 DEF RecInv
<1>8. StepInv'
  BY <1>1, <1>3 DEF RecInv, StepInv, Verified, StepsOf, PurgeSteps, UploadSteps
<1>9. JournalInv'
  BY <1>1, <1>3 DEF RecInv, StepInv, JournalInv, NoUpload, Verified, Available, PurgeSteps,
     FetchSteps
<1>10. GenInv'
  BY <1>1, <1>3 DEF RecInv, StepInv, GenInv, NoUpload, PurgeSteps, FetchSteps
<1>11. DataSafe'
  BY <1>1, <1>3 DEF RecInv, StepInv, DataSafe, Retrievable, Verified, Available
<1>12. ParentsKept'
  BY <1>1, <1>3 DEF ParentsKept
<1>13. MarkerHasJournal'
  BY <1>1, <1>3 DEF MarkerHasJournal
<1>14. RuntimeHasDisk'
  BY <1>1, <1>3 DEF OpInv, RuntimeHasDisk
<1>15. QED
  BY <1>4, <1>5, <1>6, <1>7, <1>8, <1>9, <1>10, <1>11, <1>12, <1>13, <1>14 DEF IInv

\* The record says purged once no remote copy is left.
LEMMA SetPurgedKeeps ==
    ASSUME TypeOK, IInv, RewriteRecord,
           At("purged") /\ WriteJournal([rec EXCEPT !.phase = "purged"])
    PROVE  TypeOK' /\ IInv'
PROOF
<1> USE Flow, StoreAssumption, NoneAssumption DEF IInv, RewriteRecord, WriteJournal, At,
        storeVars, localVars, runVars, cpVars
<1>1. /\ pc # "done" /\ op # None /\ pc' \in Labels /\ pc' \in StepsOf(op.act)
      /\ op.rescue => pc' \in RecoverSteps \cup {"done"}
  BY FlowStays
<1>2. /\ pc = "purged" /\ pc' = "markPurged"
      /\ rec \in Record /\ journal # None /\ journal' = rec'
  BY <1>1 DEF TypeOK, RecInv
<1>3. /\ rec' \in Record
      /\ rec'.inst = rec.inst /\ rec'.id = rec.id
      /\ rec'.phase = "purged" /\ rec'.remote = rec.remote
      /\ rec'.cand = rec.cand /\ rec'.ver = rec.ver
  BY <1>1, <1>2 DEF Record, Phases
<1>4. TypeOK'
  BY <1>1, <1>3 DEF TypeOK
<1>5. RowInv'
  BY <1>1, <1>3 DEF RowInv
<1>6. OpInv'
  BY <1>1, <1>3 DEF OpInv, RecInv
<1>7. RecInv'
  BY <1>1, <1>3 DEF RecInv
<1>8. StepInv'
  BY <1>1, <1>3 DEF StepInv, Verified, StepsOf, PurgeSteps, FetchSteps
<1>9. JournalInv'
  BY <1>1, <1>3 DEF RecInv, StepInv, JournalInv, NoUpload, Verified
<1>10. GenInv'
  BY <1>1, <1>3 DEF RecInv, StepInv, GenInv, NoUpload
<1>11. DataSafe'
  BY <1>1, <1>3 DEF RecInv, StepInv, DataSafe, Retrievable, Verified
<1>12. ParentsKept'
  BY <1>1, <1>3 DEF ParentsKept
<1>13. MarkerHasJournal'
  BY <1>1, <1>3 DEF MarkerHasJournal
<1>14. RuntimeHasDisk'
  BY <1>1, <1>3 DEF RuntimeHasDisk
<1>15. QED
  BY <1>4, <1>5, <1>6, <1>7, <1>8, <1>9, <1>10, <1>11, <1>12, <1>13, <1>14 DEF IInv

\* An admitted call starts from the record it finds.
LEMMA AdmitKeeps ==
    ASSUME TypeOK, IInv, NEW q \in calls, Admit(q)
    PROVE  TypeOK' /\ IInv'
PROOF
<1> USE StoreAssumption, NoneAssumption DEF IInv, Admit, Admissible, storeVars, localVars,
        runVars, cpVars
<1>1. /\ q \in Call /\ q.inst \in Insts /\ q.inst \in used /\ q.act \in Acts /\ op = None
      /\ pc' = Plan(q) /\ op'.act = q.act /\ op'.inst = q.inst /\ op'.rescue = FALSE
      /\ op' \in Operation
  BY DEF TypeOK, RowInv, Call, Operation
<1>2. op' # None
  BY <1>1
<1>3. /\ pc' \in Labels
      /\ pc' \in StepsOf(q.act)
      /\ pc' \in {"new", "hot", "unmark", "snapshot", "restoring", "install",
                      "tombstone"}
      /\ pc' = "tombstone" <=> q.act = "delete"
      /\ pc' = "new" => journal = None /\ disk # None
      /\ pc' \notin {"new", "tombstone"} => journal # None
      /\ pc' = "unmark" => journal.phase = "purged" /\ disk # None
      /\ pc' = "snapshot" => journal.phase = "offloading"
      /\ pc' \in {"restoring", "install"} =>
           journal.phase \in {"evicting", "cold", "restoring"}
      /\ pc' = "restoring" => journal.cand = None
      /\ pc' = "install" => cand # None /\ cand.id = journal.cand
  BY <1>1, <1>2, PlanFacts, StepsAreLabels
<1>4. TypeOK'
  BY <1>1, <1>3 DEF TypeOK
<1>5. RowInv'
  BY <1>2 DEF RowInv
<1>6. OpInv'
  BY <1>2, <1>3 DEF TypeOK, RowInv, OpInv, RecInv, PurgeSteps, UploadSteps, FetchSteps
<1>7. RecInv'
  BY <1>1, <1>3 DEF RecInv
<1>8. StepInv'
  BY <1>1, <1>3 DEF StepInv, Verified, StepsOf, PurgeSteps, FetchSteps
<1>9. JournalInv'
  BY <1>2 DEF JournalInv, NoUpload, Verified, Available
<1>10. GenInv'
  BY <1>2 DEF GenInv, NoUpload
<1>11. DataSafe'
  BY <1>2 DEF DataSafe, Retrievable, Verified, Available
<1>12. ParentsKept'
  BY <1>2 DEF ParentsKept
<1>13. MarkerHasJournal'
  BY <1>2 DEF MarkerHasJournal
<1>14. RuntimeHasDisk'
  BY <1>2 DEF RuntimeHasDisk
<1>15. QED
  BY <1>4, <1>5, <1>6, <1>7, <1>8, <1>9, <1>10, <1>11, <1>12, <1>13, <1>14 DEF IInv

\* A rejected call leaves no trace.
LEMMA RejectKeeps ==
    ASSUME TypeOK, IInv, NEW q \in calls, Reject(q)
    PROVE  TypeOK' /\ IInv'
PROOF
<1> USE StoreAssumption, NoneAssumption DEF IInv, Reject, storeVars, localVars, runVars,
        cpVars
<1>1. TypeOK'
  BY DEF TypeOK
<1>2. RowInv'
  BY DEF RowInv
<1>3. OpInv'
  BY DEF OpInv
<1>4. RecInv'
  BY DEF RecInv
<1>5. StepInv'
  BY DEF StepInv, Verified, Available
<1>6. JournalInv'
  BY DEF JournalInv, NoUpload, Verified, Available
<1>7. GenInv'
  BY DEF GenInv, NoUpload
<1>8. DataSafe'
  BY DEF DataSafe, Retrievable, Verified, Available
<1>9. ParentsKept'
  BY DEF ParentsKept
<1>10. MarkerHasJournal'
  BY DEF MarkerHasJournal
<1>11. RuntimeHasDisk'
  BY DEF RuntimeHasDisk
<1>12. QED
  BY <1>1, <1>2, <1>3, <1>4, <1>5, <1>6, <1>7, <1>8, <1>9, <1>10, <1>11 DEF IInv

\* A failed step leaves the record as it was; a failed upload turns to recovery.
LEMMA StepFailsKeeps ==
    ASSUME TypeOK, IInv, StepFails
    PROVE  TypeOK' /\ IInv'
PROOF
<1> USE StoreAssumption, NoneAssumption DEF IInv, StepFails, storeVars, localVars, runVars,
        cpVars
<1>1. PICK Q \in SUBSET Orphaned : wire' = wire \cup Q
  OBVIOUS
<1>2. wire' \subseteq Command /\ JournalInv' /\ GenInv'
  BY <1>1, OrphansKept
<1>3. \/ /\ op' \in Operation /\ op'.act = "offload" /\ op'.inst = op.inst
         /\ op'.rescue = TRUE
         /\ op.act = "offload" /\ pc' = "hot" /\ rec' = rec /\ pc \in UploadSteps
      \/ op' = None /\ pc' = "done" /\ rec' = None
  BY <1>1, <1>2 DEF TypeOK, Operation, Uploading, Upload, UploadSteps
<1>4. \/ op' # None /\ op' \in Operation
      \/ op' = None
  BY <1>1, <1>2, <1>3
<1>5. pc' \in Labels /\ (op' # None => pc' \in StepsOf("offload"))
  BY <1>1, <1>2, <1>3, <1>4, StepsAreLabels DEF StepsOf, Acts, RecoverSteps
<1>6. TypeOK'
  BY <1>2, <1>3, <1>5 DEF TypeOK
<1>7. RowInv'
  BY <1>2, <1>4 DEF RowInv
<1>8. OpInv'
  BY <1>1, <1>3, <1>5 DEF OpInv, RecoverSteps, UploadSteps
<1>9. RecInv'
  BY <1>1, <1>3, <1>4 DEF RecInv, RecoverSteps, UploadSteps
<1>10. StepInv'
  BY <1>2, <1>4 DEF StepInv, Verified, StepsOf, PurgeSteps, FetchSteps
<1>11. JournalInv'
  BY <1>2, <1>4 DEF JournalInv, NoUpload, Verified
<1>12. GenInv'
  BY <1>2, <1>4 DEF GenInv, NoUpload
<1>13. DataSafe'
  BY <1>2, <1>4 DEF DataSafe, Retrievable, Verified, Available
<1>14. ParentsKept'
  BY <1>2, <1>4 DEF ParentsKept
<1>15. MarkerHasJournal'
  BY <1>2, <1>4 DEF MarkerHasJournal
<1>16. RuntimeHasDisk'
  BY <1>2, <1>4 DEF RuntimeHasDisk
<1>17. QED
  BY <1>6, <1>7, <1>8, <1>9, <1>10, <1>11, <1>12, <1>13, <1>14, <1>15, <1>16 DEF IInv

\* A crash loses the operation and nothing durable.
LEMMA CrashKeeps ==
    ASSUME TypeOK, IInv, Crash
    PROVE  TypeOK' /\ IInv'
PROOF
<1> USE StoreAssumption, NoneAssumption DEF IInv, Crash, storeVars, localVars, runVars,
        cpVars
<1>1. PICK Q \in SUBSET Orphaned : wire' = wire \cup Q
  OBVIOUS
<1>2. wire' \subseteq Command /\ JournalInv' /\ GenInv'
  BY <1>1, OrphansKept
<1>3. pc' \in Labels
  BY <1>1, <1>2, StepsAreLabels
<1>4. TypeOK'
  BY <1>2, <1>3 DEF TypeOK
<1>5. RowInv'
  BY <1>2 DEF RowInv
<1>6. OpInv'
  BY <1>2 DEF OpInv
<1>7. RecInv'
  BY <1>2 DEF RecInv
<1>8. StepInv'
  BY <1>2 DEF StepInv, Verified, StepsOf, PurgeSteps, FetchSteps
<1>9. JournalInv'
  BY <1>2 DEF JournalInv, NoUpload, Verified
<1>10. GenInv'
  BY <1>2 DEF GenInv, NoUpload
<1>11. DataSafe'
  BY <1>2 DEF DataSafe, Retrievable, Verified, Available
<1>12. ParentsKept'
  BY <1>2 DEF ParentsKept
<1>13. MarkerHasJournal'
  BY <1>2 DEF MarkerHasJournal
<1>14. RuntimeHasDisk'
  BY <1>2 DEF RuntimeHasDisk
<1>15. QED
  BY <1>4, <1>5, <1>6, <1>7, <1>8, <1>9, <1>10, <1>11, <1>12, <1>13, <1>14 DEF IInv

\* A delete is acknowledged only when the journal is gone.
LEMMA ReplyKeeps ==
    ASSUME TypeOK, IInv, Reply
    PROVE  TypeOK' /\ IInv'
PROOF
<1> USE StoreAssumption, NoneAssumption DEF IInv, Reply, storeVars, localVars, runVars,
        cpVars
<1>1. TypeOK'
  BY DEF TypeOK, Record, Phases, Disk, Operation
<1>2. RowInv'
  BY DEF RowInv, OpInv
<1>3. OpInv'
  BY DEF OpInv
<1>4. RecInv'
  BY DEF RecInv
<1>5. StepInv'
  BY DEF StepInv, Verified, StepsOf, PurgeSteps, UploadSteps
<1>6. JournalInv'
  BY DEF OpInv, JournalInv, NoUpload, Verified, Available
<1>7. GenInv'
  BY DEF GenInv, NoUpload
<1>8. DataSafe'
  BY DEF DataSafe, Retrievable, Verified, Available
<1>9. ParentsKept'
  BY DEF ParentsKept
<1>10. MarkerHasJournal'
  BY DEF MarkerHasJournal
<1>11. RuntimeHasDisk'
  BY DEF RuntimeHasDisk
<1>12. QED
  BY <1>1, <1>2, <1>3, <1>4, <1>5, <1>6, <1>7, <1>8, <1>9, <1>10, <1>11 DEF IInv

\* A call carries the incarnation in the row.
LEMMA ColdDiskCallKeeps ==
    ASSUME TypeOK, IInv, NEW act \in {"offload", "hydrate", "purge"}, ColdDiskCall(act)
    PROVE  TypeOK' /\ IInv'
PROOF
<1> USE StoreAssumption, NoneAssumption DEF IInv, ColdDiskCall, storeVars, localVars,
        runVars, cpVars
<1>1. row \in Insts /\ Expected \in DiskIds \cup {None}
  BY DEF TypeOK, Expected, Disk
<1>2. calls' \subseteq Call /\ \A q \in calls' : q \in calls \/ q.inst = row
  BY <1>1 DEF TypeOK, Call, Acts
<1>3. TypeOK'
  BY <1>2 DEF TypeOK
<1>4. RowInv'
  BY <1>1 DEF RowInv
<1>5. OpInv'
  BY <1>1 DEF OpInv
<1>6. RecInv'
  BY <1>1 DEF RecInv
<1>7. StepInv'
  BY <1>1 DEF StepInv, Verified, Available
<1>8. JournalInv'
  BY <1>1 DEF JournalInv, NoUpload, Verified, Available
<1>9. GenInv'
  BY <1>1 DEF GenInv, NoUpload
<1>10. DataSafe'
  BY <1>1 DEF DataSafe, Retrievable, Verified, Available
<1>11. ParentsKept'
  BY <1>1 DEF ParentsKept
<1>12. MarkerHasJournal'
  BY <1>1 DEF MarkerHasJournal
<1>13. RuntimeHasDisk'
  BY <1>1 DEF RuntimeHasDisk
<1>14. QED
  BY <1>3, <1>4, <1>5, <1>6, <1>7, <1>8, <1>9, <1>10, <1>11, <1>12, <1>13 DEF IInv

\* So does the call of a deletion.
LEMMA DeleteCallKeeps ==
    ASSUME TypeOK, IInv, DeleteCall
    PROVE  TypeOK' /\ IInv'
PROOF
<1> USE StoreAssumption, NoneAssumption DEF IInv, DeleteCall, storeVars, localVars, runVars,
        cpVars
<1>1. row \in Insts
  BY DEF TypeOK
<1>2. calls' \subseteq Call /\ \A q \in calls' : q \in calls \/ q.inst = row
  BY <1>1 DEF TypeOK, Call, Acts
<1>3. TypeOK'
  BY <1>2 DEF TypeOK
<1>4. RowInv'
  BY <1>1 DEF RowInv
<1>5. OpInv'
  BY <1>1 DEF OpInv
<1>6. RecInv'
  BY <1>1 DEF RecInv
<1>7. StepInv'
  BY <1>1 DEF StepInv, Verified, Available
<1>8. JournalInv'
  BY <1>1 DEF JournalInv, NoUpload, Verified, Available
<1>9. GenInv'
  BY <1>1 DEF GenInv, NoUpload
<1>10. DataSafe'
  BY <1>1 DEF DataSafe, Retrievable, Verified, Available
<1>11. ParentsKept'
  BY <1>1 DEF ParentsKept
<1>12. MarkerHasJournal'
  BY <1>1 DEF MarkerHasJournal
<1>13. RuntimeHasDisk'
  BY <1>1 DEF RuntimeHasDisk
<1>14. QED
  BY <1>3, <1>4, <1>5, <1>6, <1>7, <1>8, <1>9, <1>10, <1>11, <1>12, <1>13 DEF IInv

\* The directory is removed of an incarnation that is condemned already.
LEMMA RemoveInstanceKeeps ==
    ASSUME TypeOK, IInv, RemoveInstance
    PROVE  TypeOK' /\ IInv'
PROOF
<1> USE StoreAssumption, NoneAssumption DEF IInv, RemoveInstance, storeVars, localVars,
        runVars, cpVars
<1>1. row \in Insts /\ row # None /\ row \in acked /\ row \in tomb
  BY InstsAssumption DEF TypeOK, RowInv
<1>2. TypeOK'
  BY <1>1 DEF TypeOK
<1>3. RowInv'
  BY DEF RowInv
<1>4. OpInv'
  BY <1>1 DEF OpInv
<1>5. RecInv'
  BY DEF RecInv
<1>6. StepInv'
  BY <1>1 DEF OpInv, RecInv, StepInv, Verified, StepsOf, PurgeSteps, UploadSteps
<1>7. JournalInv'
  BY DEF JournalInv, NoUpload, Verified, Available
<1>8. GenInv'
  BY DEF GenInv, NoUpload
<1>9. DataSafe'
  BY DEF DataSafe, Retrievable, Verified
<1>10. ParentsKept'
  BY DEF ParentsKept
<1>11. MarkerHasJournal'
  BY DEF MarkerHasJournal
<1>12. RuntimeHasDisk'
  BY DEF TypeOK, RowInv, OpInv, RuntimeHasDisk
<1>13. QED
  BY <1>2, <1>3, <1>4, <1>5, <1>6, <1>7, <1>8, <1>9, <1>10, <1>11, <1>12 DEF IInv

\* A new incarnation meets at most the end of a delete of an old one.
LEMMA CreateInstanceKeeps ==
    ASSUME TypeOK, IInv, NEW i \in Insts, CreateInstance(i)
    PROVE  TypeOK' /\ IInv'
PROOF
<1> USE StoreAssumption, NoneAssumption DEF IInv, CreateInstance, storeVars, localVars,
        runVars, cpVars
<1>1. /\ i # None /\ disks' \in DiskIds /\ disk' \in Disk /\ disk'.owner = i
      /\ vm = None /\ ram = None
  BY InstsAssumption DEF TypeOK, RowInv, RAM, Disk, DiskIds
<1>2. disk' # None /\ used \subseteq tomb /\ i \notin tomb
  BY <1>1, InstsAssumption DEF TypeOK, RowInv
<1>3. \/ op = None /\ pc = "done"
      \/ op.act = "delete" /\ pc \in {"done", "tombstone", "discard"} \cup PurgeSteps
  BY <1>1, <1>2, InstsAssumption DEF TypeOK, OpInv, StepsOf
<1>4. TypeOK'
  BY <1>1, <1>2 DEF TypeOK
<1>5. RowInv'
  BY <1>1, <1>2 DEF RowInv
<1>6. OpInv'
  BY <1>2 DEF OpInv
<1>7. RecInv'
  BY <1>2 DEF RecInv
<1>8. StepInv'
  BY <1>1, <1>3 DEF StepInv, Verified, StepsOf, PurgeSteps, UploadSteps
<1>9. JournalInv'
  BY <1>2 DEF JournalInv, NoUpload, Verified, Available
<1>10. GenInv'
  BY <1>2 DEF GenInv, NoUpload
<1>11. DataSafe'
  BY <1>2 DEF DataSafe, Retrievable, Verified
<1>12. ParentsKept'
  BY <1>2 DEF ParentsKept
<1>13. MarkerHasJournal'
  BY <1>2 DEF MarkerHasJournal
<1>14. RuntimeHasDisk'
  BY <1>1, <1>2 DEF RuntimeHasDisk
<1>15. QED
  BY <1>4, <1>5, <1>6, <1>7, <1>8, <1>9, <1>10, <1>11, <1>12, <1>13, <1>14 DEF IInv

\* The start fence admits the incarnation in the row, on a hot disk.
LEMMA StartVMKeeps ==
    ASSUME TypeOK, IInv, NEW i \in Insts, StartVM(i)
    PROVE  TypeOK' /\ IInv'
PROOF
<1> USE StoreAssumption, NoneAssumption DEF IInv, StartVM, StartFence, DiskIs, storeVars,
        localVars, runVars, cpVars
<1>1. TypeOK'
  BY DEF TypeOK
<1>2. RowInv'
  BY DEF RowInv
<1>3. OpInv'
  BY DEF OpInv
<1>4. RecInv'
  BY DEF RecInv
<1>5. StepInv'
  BY DEF StepInv, Verified, Available
<1>6. JournalInv'
  BY DEF JournalInv, NoUpload, Verified
<1>7. GenInv'
  BY DEF GenInv, NoUpload
<1>8. DataSafe'
  BY DEF DataSafe, Retrievable, Verified
<1>9. ParentsKept'
  BY DEF ParentsKept
<1>10. MarkerHasJournal'
  BY DEF MarkerHasJournal
<1>11. RuntimeHasDisk'
  BY DEF TypeOK, RowInv, OpInv, RuntimeHasDisk
<1>12. QED
  BY <1>1, <1>2, <1>3, <1>4, <1>5, <1>6, <1>7, <1>8, <1>9, <1>10, <1>11 DEF IInv

\* The guest writes to a disk that no operation is working on.
LEMMA GuestWritesKeeps ==
    ASSUME TypeOK, IInv, GuestWrites
    PROVE  TypeOK' /\ IInv'
PROOF
<1> USE StoreAssumption, NoneAssumption DEF IInv, GuestWrites, storeVars, localVars,
        runVars, cpVars
<1>1. disk' \in Disk /\ disk'.owner = disk.owner /\ disk'.id = disk.id /\ op = None
  BY InstsAssumption DEF TypeOK, OpInv, Disk
<1>2. TypeOK'
  BY <1>1 DEF TypeOK
<1>3. RowInv'
  BY <1>1 DEF RowInv
<1>4. OpInv'
  BY <1>1 DEF OpInv
<1>5. RecInv'
  BY <1>1 DEF RecInv
<1>6. StepInv'
  BY <1>1 DEF OpInv, StepInv, Verified
<1>7. JournalInv'
  BY <1>1 DEF JournalInv, NoUpload, Verified, Available
<1>8. GenInv'
  BY <1>1 DEF GenInv, NoUpload
<1>9. DataSafe'
  BY <1>1 DEF DataSafe, Retrievable, Verified
<1>10. ParentsKept'
  BY <1>1 DEF ParentsKept
<1>11. MarkerHasJournal'
  BY <1>1 DEF MarkerHasJournal
<1>12. RuntimeHasDisk'
  BY <1>1 DEF TypeOK, RowInv, OpInv, RuntimeHasDisk
<1>13. QED
  BY <1>2, <1>3, <1>4, <1>5, <1>6, <1>7, <1>8, <1>9, <1>10, <1>11, <1>12 DEF IInv

\* Saved RAM remembers the disk it was taken with.
LEMMA StopVMKeeps ==
    ASSUME TypeOK, IInv, NEW save \in BOOLEAN, StopVM(save)
    PROVE  TypeOK' /\ IInv'
PROOF
<1> USE StoreAssumption, NoneAssumption DEF IInv, StopVM, storeVars, localVars, runVars,
        cpVars
<1>1. disk # None /\ disk \in Disk /\ vm \in Insts /\ vm = row /\ row \notin tomb
  BY DEF TypeOK, RowInv, RuntimeHasDisk
<1>2. disk.id \in DiskIds /\ disk.ver \in 0 .. MaxVer
  BY <1>1 DEF Disk
<1>3. [inst |-> vm, disk |-> disk.id, ver |-> disk.ver] \in RAM
  BY <1>1, <1>2 DEF RAM
<1>4. TypeOK'
  BY <1>1, <1>3 DEF TypeOK
<1>5. RowInv'
  BY <1>1, <1>3 DEF RowInv
<1>6. OpInv'
  BY <1>1, <1>3 DEF OpInv
<1>7. RecInv'
  BY <1>1, <1>3 DEF RecInv
<1>8. StepInv'
  BY <1>1, <1>3 DEF StepInv, Verified, Available
<1>9. JournalInv'
  BY <1>1, <1>3 DEF JournalInv, NoUpload, Verified, Available
<1>10. GenInv'
  BY <1>1, <1>3 DEF GenInv, NoUpload
<1>11. DataSafe'
  BY <1>1, <1>3 DEF DataSafe, Retrievable, Verified
<1>12. ParentsKept'
  BY <1>1, <1>3 DEF ParentsKept
<1>13. MarkerHasJournal'
  BY <1>1, <1>3 DEF MarkerHasJournal
<1>14. RuntimeHasDisk'
  BY <1>1, <1>3 DEF RuntimeHasDisk
<1>15. QED
  BY <1>4, <1>5, <1>6, <1>7, <1>8, <1>9, <1>10, <1>11, <1>12, <1>13, <1>14 DEF IInv

\* A remote command is lost.
LEMMA DropCommandKeeps ==
    ASSUME TypeOK, IInv, NEW q \in wire, DropCommand(q),
           UNCHANGED <<localVars, runVars, cpVars, vm, calls>>
    PROVE  TypeOK' /\ IInv'
PROOF
<1> USE StoreAssumption, NoneAssumption DEF IInv, DropCommand, storeVars, localVars,
        runVars, cpVars
<1>1. TypeOK'
  BY DEF TypeOK
<1>2. RowInv'
  BY DEF RowInv
<1>3. OpInv'
  BY DEF OpInv
<1>4. RecInv'
  BY DEF RecInv
<1>5. StepInv'
  BY DEF StepInv, Verified, Available
<1>6. JournalInv'
  BY DEF JournalInv, NoUpload, Verified, Available
<1>7. GenInv'
  BY DEF GenInv, NoUpload
<1>8. DataSafe'
  BY DEF DataSafe, Retrievable, Verified, Available
<1>9. ParentsKept'
  BY DEF ParentsKept
<1>10. MarkerHasJournal'
  BY DEF MarkerHasJournal
<1>11. RuntimeHasDisk'
  BY DEF RuntimeHasDisk
<1>12. QED
  BY <1>1, <1>2, <1>3, <1>4, <1>5, <1>6, <1>7, <1>8, <1>9, <1>10, <1>11 DEF IInv

\* A late upload can only be that of the generation the record names.
LEMMA ServePutKeeps ==
    ASSUME TypeOK, IInv, NEW q \in wire, ServePut(q),
           UNCHANGED <<localVars, runVars, cpVars, vm, calls>>
    PROVE  TypeOK' /\ IInv'
PROOF
<1> USE StoreAssumption, NoneAssumption DEF IInv, ServePut, Accepts, Publish, Available,
        storeVars, localVars, runVars, cpVars
<1>1. /\ q.op = "put" /\ q.id \in Gens /\ q.id \in Ids /\ q.id \notin deleted
      /\ objects[q.id] = None
      /\ q.ver \in Nat /\ q.parent \in {Base, None}
      /\ q.parent # None => objects[q.parent] # None
  BY DEF TypeOK, Command, GenInv, Ids
<1>2. /\ objects' \in [Ids -> Object \cup {None}]
      /\ objects'[q.id] \in Object /\ objects'[q.id].parent = q.parent
      /\ \A id \in Ids \ {q.id} : objects'[id] = objects[id]
  BY <1>1 DEF TypeOK, Object, Ids
<1>3. TypeOK'
  BY <1>2 DEF TypeOK
<1>4. RowInv'
  BY <1>2 DEF RowInv
<1>5. OpInv'
  BY <1>2 DEF OpInv
<1>6. RecInv'
  BY <1>2 DEF TypeOK, OpInv, RecInv, StepInv, RecoverSteps, PurgeSteps, UploadSteps,
     FetchSteps
<1>7. StepInv'
  BY <1>2 DEF StepInv, Verified
<1>8. JournalInv'
  BY <1>2 DEF JournalInv, NoUpload, Verified
<1>9. GenInv'
  BY <1>2 DEF GenInv, NoUpload
<1>10. DataSafe'
  BY <1>2 DEF DataSafe, Retrievable, Verified
<1>11. ParentsKept'
  BY <1>2 DEF ParentsKept
<1>12. MarkerHasJournal'
  BY <1>2 DEF MarkerHasJournal
<1>13. RuntimeHasDisk'
  BY <1>2 DEF RuntimeHasDisk
<1>14. QED
  BY <1>3, <1>4, <1>5, <1>6, <1>7, <1>8, <1>9, <1>10, <1>11, <1>12, <1>13 DEF IInv

\* A late delete takes nothing that a living incarnation needs.
LEMMA ServeDeleteKeeps ==
    ASSUME TypeOK, IInv, NEW q \in wire, ServeDelete(q),
           UNCHANGED <<localVars, runVars, cpVars, vm, calls>>
    PROVE  TypeOK' /\ IInv'
PROOF
<1> USE StoreAssumption, NoneAssumption DEF IInv, ServeDelete, DeleteObject, FenceOnly,
        Remove, Unreferenced, storeVars, localVars, runVars, cpVars
<1>1. /\ q.op = "delete" /\ q.id \in Gens /\ q.id \in Ids /\ q.id # Base
      /\ Base \in Ids /\ Gens \subseteq Ids
      /\ journal # None => journal.id \in Gens
  BY DEF TypeOK, Command, GenInv, Ids, Record
<1>2. /\ objects' \in [Ids -> Object \cup {None}]
      /\ deleted' = deleted \cup {q.id}
      /\ objects'[q.id] \in {objects[q.id], None}
      /\ \A id \in Ids \ {q.id} : objects'[id] = objects[id]
  BY <1>1 DEF TypeOK, Ids
<1>3. journal # None /\ journal.id = q.id =>
         /\ pc # "evicting"
         /\ journal.phase \in {"evicting", "cold", "restoring"} => journal.inst \in tomb
  BY <1>1, <1>2 DEF GenInv, StepInv, OpInv, RecInv, StepsOf, PurgeSteps, Operation
<1>4. TypeOK'
  BY <1>1, <1>2 DEF TypeOK
<1>5. RowInv'
  BY <1>2 DEF RowInv
<1>6. OpInv'
  BY <1>2 DEF OpInv
<1>7. RecInv'
  BY <1>2 DEF RecInv
<1>8. StepInv'
  BY <1>1, <1>3 DEF RecInv, StepInv, Verified, Available
<1>9. JournalInv'
  BY <1>1, <1>3 DEF JournalInv, NoUpload, Verified, Available
<1>10. GenInv'
  BY <1>1, <1>2 DEF GenInv, NoUpload
<1>11. DataSafe'
  BY <1>1, <1>3 DEF DataSafe, Retrievable, Verified, Available
<1>12. ParentsKept'
  BY <1>1, <1>2 DEF GenInv, ParentsKept
<1>13. MarkerHasJournal'
  BY <1>2 DEF MarkerHasJournal
<1>14. RuntimeHasDisk'
  BY <1>2 DEF RuntimeHasDisk
<1>15. QED
  BY <1>4, <1>5, <1>6, <1>7, <1>8, <1>9, <1>10, <1>11, <1>12, <1>13, <1>14 DEF IInv

\* The administrator discards only what nothing refers to.
LEMMA AbandonKeeps ==
    ASSUME TypeOK, IInv, Abandon
    PROVE  TypeOK' /\ IInv'
PROOF
<1> USE StoreAssumption, NoneAssumption DEF IInv
<1>1. PICK ids \in SUBSET {id \in Ids : objects[id] # None} :
         /\ journal # None => journal.id \notin ids
         /\ DiscardObjects(ids)
  BY DEF Abandon
<1>2. ids = {Base}
  BY <1>1 DEF DiscardObjects, Ids, GenInv, NoUpload
<1>3. /\ Base \in Ids /\ Gens \subseteq Ids
      /\ journal # None => journal.id \in Gens
      /\ \A g \in Gens : objects[g] # None => objects[g].parent # Base
  BY <1>1, <1>2 DEF DiscardObjects, Unreferenced, Ids, TypeOK, Record
<1>4. /\ objects' \in [Ids -> Object \cup {None}]
      /\ deleted' \in {deleted, deleted \cup {Base}}
      /\ objects'[Base] \in {objects[Base], None}
      /\ \A g \in Gens : objects'[g] = objects[g]
  <2>1. CASE \E part \in SUBSET ids : FenceOnly(part)
    <3>1. PICK part \in SUBSET {Base} : deleted' = deleted \cup part /\ objects' = objects
      BY <2>1, <1>2 DEF FenceOnly
    <3>2. part = {} \/ part = {Base}
      OBVIOUS
    <3>3. QED
      BY <3>1, <3>2 DEF TypeOK
  <2>2. CASE \E gone \in SUBSET ids :
               /\ deleted' = deleted \cup ids
               /\ objects' = [id \in Ids |-> IF id \in gone THEN None ELSE objects[id]]
    BY <2>2, <1>2, <1>3 DEF TypeOK
  <2>3. QED
    BY <1>1, <2>1, <2>2 DEF DiscardObjects
<1>5. UNCHANGED <<wire, localVars, runVars, cpVars, vm, calls>>
  BY <1>1 DEF Abandon, DiscardObjects
<1> USE DEF localVars, runVars, cpVars
<1>6. TypeOK'
  BY <1>3, <1>4, <1>5 DEF TypeOK
<1>7. RowInv'
  BY <1>3, <1>5 DEF RowInv
<1>8. OpInv'
  BY <1>3, <1>5 DEF OpInv
<1>9. RecInv'
  BY <1>3, <1>5 DEF RecInv
<1>10. StepInv'
  BY <1>3, <1>4, <1>5 DEF RecInv, StepInv, Verified, Available
<1>11. JournalInv'
  BY <1>3, <1>4, <1>5 DEF JournalInv, NoUpload, Verified, Available
<1>12. GenInv'
  BY <1>4, <1>5 DEF TypeOK, Ids, OpInv, StepInv, GenInv, NoUpload, RecoverSteps, UploadSteps
<1>13. DataSafe'
  BY <1>3, <1>4, <1>5 DEF DataSafe, Retrievable, Verified, Available
<1>14. ParentsKept'
  BY <1>3, <1>4 DEF TypeOK, Ids, GenInv, ParentsKept, Available
<1>15. MarkerHasJournal'
  BY <1>3, <1>5 DEF MarkerHasJournal
<1>16. RuntimeHasDisk'
  BY <1>3, <1>5 DEF RuntimeHasDisk
<1>17. QED
  BY <1>6, <1>7, <1>8, <1>9, <1>10, <1>11, <1>12, <1>13, <1>14, <1>15, <1>16 DEF IInv

\* A step of the operation under way keeps the invariant.
LEMMA StepKeeps ==
    ASSUME TypeOK, IInv, Step
    PROVE  TypeOK' /\ IInv'
PROOF
<1>1. CASE RewriteRecord
  <2>1. \/ SetHot \/ SetRemote \/ SetLocal \/ SetCandidate \/ SetPhase
    BY <1>1 DEF RewriteRecord
  <2>2. CASE SetPhase
    <3>1. PICK phase \in {"evicting", "cold", "restoring", "purged"} :
             At(phase) /\ WriteJournal([rec EXCEPT !.phase = phase])
      BY <2>2 DEF SetPhase
    <3>2. QED
      BY <1>1, <3>1, SetEvictingKeeps, SetColdKeeps, SetRestoringKeeps, SetPurgedKeeps
  <2>3. QED
    BY <1>1, <2>1, <2>2, SetHotKeeps, SetRemoteKeeps, SetLocalKeeps, SetCandidateKeeps
<1>2. QED
  BY <1>1, WriteMarkerKeeps, NewGenerationKeeps, TakeSnapshotKeeps, PutBaseKeeps,
     PutObjectKeeps, EvictKeeps, CleanStagesKeeps, GetObjectKeeps, InstallCandidateKeeps,
     RemoteDeleteKeeps, RemoveMarkerKeeps, RemoveJournalKeeps, WriteTombstoneKeeps,
     DiscardRAMKeeps DEF Step

\* The invariant holds of an instance that was just created.
LEMMA InitHolds ==
    ASSUME Init
    PROVE  TypeOK /\ IInv
PROOF
<1> USE StoreAssumption, InstsAssumption, NoneAssumption DEF Init, StoreInit
<1>1. PICK i \in Insts :
        /\ row = i /\ used = {i}
        /\ disk = [id |-> 1, ver |-> 0, owner |-> i]
  OBVIOUS
<1>2. disk \in Disk /\ disk.owner = i
  BY <1>1 DEF Disk, DiskIds
<1>3. disk # None /\ i # None
  BY <1>2
<1>4. TypeOK
  <2>1. 1 \in DiskIds /\ {i} \subseteq Insts
    BY DEF DiskIds
  <2>2. /\ objects \in [Ids -> Object \cup {None}]
        /\ gens \in [Gens -> Insts \cup {None}]
    OBVIOUS
  <2>3. QED
    BY <1>1, <1>2, <2>1, <2>2, StepsAreLabels DEF TypeOK
<1>5. RowInv /\ OpInv /\ RecInv
  BY <1>1, <1>2, <1>3 DEF RowInv, OpInv, RecInv
<1>6. StepInv
  BY DEF StepInv, FetchSteps, PurgeSteps
<1>7. JournalInv /\ GenInv /\ ParentsKept
  BY DEF JournalInv, GenInv, NoUpload, ParentsKept, Ids
<1>8. DataSafe /\ MarkerHasJournal /\ RuntimeHasDisk
  BY <1>3 DEF DataSafe, MarkerHasJournal, RuntimeHasDisk
<1>9. QED
  BY <1>4, <1>5, <1>6, <1>7, <1>8 DEF IInv

\* Nothing happens.
LEMMA StutterKeeps ==
    ASSUME TypeOK, IInv, UNCHANGED vars
    PROVE  TypeOK' /\ IInv'
PROOF
<1> USE DEF vars, storeVars, localVars, runVars, cpVars, IInv
<1>1. TypeOK'
  BY DEF TypeOK
<1>2. RowInv' /\ OpInv' /\ RecInv'
  BY DEF RowInv, OpInv, RecInv
<1>3. StepInv'
  BY DEF StepInv, Verified, Available
<1>4. JournalInv' /\ GenInv' /\ ParentsKept'
  BY DEF JournalInv, GenInv, NoUpload, ParentsKept, Verified, Available
<1>5. DataSafe' /\ MarkerHasJournal' /\ RuntimeHasDisk'
  BY DEF DataSafe, Retrievable, Verified, Available, MarkerHasJournal, RuntimeHasDisk
<1>6. QED
  BY <1>1, <1>2, <1>3, <1>4, <1>5

\* Every step of the system keeps the invariant.
LEMMA NextKeeps ==
    ASSUME TypeOK, IInv, [Next]_vars
    PROVE  TypeOK' /\ IInv'
PROOF
<1>1. CASE Step
  BY <1>1, StepKeeps
<1>2. CASE StepFails \/ Crash \/ Reply
  BY <1>2, StepFailsKeeps, CrashKeeps, ReplyKeeps
<1>3. CASE \E q \in calls : Admit(q) \/ Reject(q)
  BY <1>3, AdmitKeeps, RejectKeeps
<1>4. CASE DiskCommand \/ RetentionOffload
  BY <1>4, ColdDiskCallKeeps DEF DiskCommand, RetentionOffload
<1>5. CASE DeleteCall \/ RemoveInstance \/ GuestWrites
  BY <1>5, DeleteCallKeeps, RemoveInstanceKeeps, GuestWritesKeeps
<1>6. CASE \E i \in Insts : CreateInstance(i) \/ StartVM(i)
  BY <1>6, CreateInstanceKeeps, StartVMKeeps
<1>7. CASE \E save \in BOOLEAN : StopVM(save)
  BY <1>7, StopVMKeeps
<1>8. CASE Abandon \/ StoreNext
  BY <1>8, AbandonKeeps, ServePutKeeps, ServeDeleteKeeps, DropCommandKeeps DEF StoreNext
<1>9. CASE UNCHANGED vars
  BY <1>9, StutterKeeps
<1>10. QED
  BY <1>1, <1>2, <1>3, <1>4, <1>5, <1>6, <1>7, <1>8, <1>9 DEF Next

\* At every moment, through every crash, failed step and late command, the record,
\* the store, the local disk and the operation under way agree as IInv says.
THEOREM ColdInvariant == Spec => [](TypeOK /\ IInv)
PROOF
<1>1. Init => TypeOK /\ IInv
  BY InitHolds
<1>2. (TypeOK /\ IInv) /\ [Next]_vars => (TypeOK /\ IInv)'
  BY NextKeeps
<1>3. QED
  BY <1>1, <1>2, PTL DEF Spec

\* The contents that hydration would bring back.
Held == IF journal.cand = None THEN journal.ver ELSE cand.ver

\* A step that leaves the disk alone is not seen, unless it gives up the remote copy
\* of a condemned incarnation.
LEMMA QuietImplements ==
    ASSUME UNCHANGED <<row, tomb, disk>>,
           disk = None => /\ Retrievable' => Retrievable /\ Held' = Held
                          /\ Retrievable => Retrievable' \/ row \in tomb
    PROVE  [Contract!Next]_(Contract!contractVars)
PROOF
<1>1. CASE disk # None
  BY <1>1 DEF Place, Contents, Contract!contractVars
<1>2. CASE disk = None /\ Retrievable'
  <2>1. Place = "remote" /\ Place' = "remote"
    BY <1>2 DEF Place
  <2>2. Contents' = Contents
    BY <1>2, <2>1 DEF Contents, Held
  <2>3. QED
    BY <2>1, <2>2 DEF Contract!contractVars
<1>3. CASE disk = None /\ ~Retrievable'
  <2>1. Place' = "none" /\ Contents' = 0
    BY <1>3 DEF Place, Contents
  <2>2. CASE Retrievable
    BY <1>3, <2>1, <2>2 DEF Contract!Next, Contract!Drop
  <2>3. CASE ~Retrievable
    <3>1. Place = "none" /\ Contents = 0
      BY <1>3, <2>3 DEF Place, Contents
    <3>2. QED
      BY <2>1, <3>1 DEF Contract!contractVars
  <2>4. QED
    BY <2>2, <2>3
<1>4. QED
  BY <1>1, <1>2, <1>3

\* So is a step of the operation, if it does not change what would be brought back.
LEMMA OperationImplements ==
    ASSUME TypeOK, IInv, IInv', op # None, pc # "tombstone",
           UNCHANGED <<row, tomb, disk>>,
           disk = None /\ Retrievable /\ Retrievable' => Held' = Held,
           disk = None /\ op.act = "delete" /\ Retrievable' => Retrievable
    PROVE  [Contract!Next]_(Contract!contractVars)
PROOF
<1>1. CASE op.act = "delete"
  <2>1. Retrievable => row \in tomb
    BY <1>1 DEF IInv, OpInv, Retrievable
  <2>2. QED
    BY <1>1, <2>1, QuietImplements
<1>2. CASE op.act # "delete"
  <2>1. row # None /\ row \notin tomb
    BY <1>2, InstsAssumption DEF IInv, OpInv, TypeOK, Operation
  <2>2. disk = None => Retrievable /\ Retrievable'
    BY <2>1 DEF IInv, DataSafe
  <2>3. QED
    BY <2>2, QuietImplements
<1>3. QED
  BY <1>1, <1>2

\* Rewriting the record changes neither where the contents are nor what they are.
LEMMA RewriteImplements ==
    ASSUME TypeOK, IInv, IInv', RewriteRecord
    PROVE  [Contract!Next]_(Contract!contractVars)
PROOF
<1> USE NoneAssumption DEF IInv, RewriteRecord, SetHot, SetRemote, SetLocal, SetCandidate,
        SetPhase,
        WriteJournal, At
<1>1. /\ pc \in {"hot", "remote", "local", "candidate", "evicting", "cold", "restoring",
                 "purged"}
      /\ UNCHANGED <<row, tomb, disk, cand>>
      /\ op # None /\ rec \in Record /\ journal # None
  BY DEF cpVars, TypeOK, OpInv, RecInv
<1>2. CASE SetHot \/ SetRemote
  <2>1. disk # None
    BY <1>2 DEF Recognised, DiskIs, StepInv
  <2>2. QED
    BY <1>1, <2>1, OperationImplements
<1>3. CASE SetLocal
  <2>1. /\ rec = journal /\ journal'.remote = FALSE
    BY <1>1, <1>3 DEF RecInv, Record
  <2>2. ~Retrievable'
    BY <2>1 DEF Retrievable
  <2>3. QED
    BY <1>1, <1>3, <2>2, OperationImplements
<1>4. CASE SetCandidate
  <2>1. /\ rec = journal /\ pc = "candidate" /\ journal'.cand = cand.id
    BY <1>1, <1>4 DEF RecInv, Record
  <2>2. /\ journal.cand = None /\ journal.ver = cand.ver /\ cand.id # None
    BY <2>1 DEF StepInv, TypeOK, Candidate
  <2>3. Held' = Held
    BY <2>1, <2>2, <1>1 DEF Held
  <2>4. op.act # "delete"
    BY <2>1 DEF OpInv, StepsOf, PurgeSteps
  <2>5. QED
    BY <1>1, <2>1, <2>3, <2>4, OperationImplements
<1>5. CASE SetPhase
  <2>1. /\ rec = journal /\ journal'.cand = journal.cand /\ journal'.ver = journal.ver
        /\ journal'.phase = pc /\ pc \in {"evicting", "cold", "restoring", "purged"}
    BY <1>1, <1>5 DEF RecInv, Record
  <2>2. op.act = "delete" => ~Retrievable'
    BY <2>1 DEF OpInv, StepsOf, PurgeSteps, Retrievable
  <2>3. Held' = Held
    BY <2>1, <1>1 DEF Held
  <2>4. QED
    BY <1>1, <2>1, <2>2, <2>3, OperationImplements
<1>6. QED
  BY <1>2, <1>3, <1>4, <1>5

\* An eviction and a restore move the contents unchanged.
LEMMA MovesImplement ==
    ASSUME TypeOK, IInv, TypeOK', IInv', Evict \/ InstallCandidate
    PROVE  [Contract!Next]_(Contract!contractVars)
PROOF
<1> USE NoneAssumption DEF IInv
<1>1. /\ UNCHANGED <<row, tomb, journal>>
      /\ pc \in {"evict", "install"} /\ op # None /\ op.act # "delete"
  BY DEF Evict, InstallCandidate, At, cpVars, OpInv, StepsOf, PurgeSteps
<1>2. row # None /\ row \notin tomb
  BY <1>1, InstsAssumption DEF OpInv, TypeOK, Operation
<1>3. CASE Evict
  <2>1. /\ disk # None /\ disk' = None /\ cand' = cand /\ pc = "evict"
    BY <1>3 DEF Evict, At, DiskIs
  <2>2. Retrievable'
    BY <1>1, <1>2, <2>1 DEF DataSafe
  <2>3. journal.cand = None /\ journal.ver = disk.ver
    BY <2>1 DEF StepInv, RecInv, JournalInv
  <2>4. /\ Place = "local" /\ Place' = "remote" /\ Contents' = Contents
    BY <1>1, <2>1, <2>2, <2>3 DEF Place, Contents
  <2>5. QED
    BY <1>1, <2>4 DEF Contract!Next, Contract!Move
<1>4. CASE InstallCandidate
  <2>1. /\ disk = None /\ disk' \in Disk /\ disk'.ver = cand.ver /\ pc = "install"
    BY <1>1, <1>4 DEF InstallCandidate, At, TypeOK, Operation, Disk, Candidate
  <2>2. Retrievable
    BY <1>2, <2>1 DEF DataSafe
  <2>3. journal.cand # None
    BY <2>1 DEF StepInv, TypeOK, Candidate
  <2>4. /\ Place = "remote" /\ Place' = "local" /\ Contents' = Contents
    BY <2>1, <2>2, <2>3 DEF Place, Contents
  <2>5. QED
    BY <1>1, <2>4 DEF Contract!Next, Contract!Move
<1>5. QED
  BY <1>3, <1>4

\* A step of the operation moves the contents, condemns the incarnation, or is not seen.
LEMMA StepImplements ==
    ASSUME TypeOK, IInv, TypeOK', IInv', Step
    PROVE  [Contract!Next]_(Contract!contractVars)
PROOF
<1> USE DEF IInv, At, storeVars, localVars, cpVars
<1>1. CASE RewriteRecord
  BY <1>1, RewriteImplements
<1>2. CASE Evict \/ InstallCandidate
  BY <1>2, MovesImplement
<1>3. CASE WriteMarker \/ TakeSnapshot \/ RemoveMarker \/ DiscardRAM
  <2>1. UNCHANGED <<row, tomb, disk, journal, cand, objects, deleted>>
    BY <1>3 DEF WriteMarker, TakeSnapshot, RemoveMarker, DiscardRAM
  <2>2. QED
    BY <2>1, QuietImplements DEF Retrievable, Held, Verified, Available
<1>4. CASE NewGeneration \/ PutBase \/ PutObject
  <2>1. UNCHANGED <<row, tomb, disk>> /\ disk # None
    BY <1>4 DEF NewGeneration, PutBase, PutObject, StepInv
  <2>2. QED
    BY <2>1, QuietImplements
<1>5. CASE CleanStages
  <2>1. /\ UNCHANGED <<row, tomb, disk, journal, objects, deleted>> /\ cand' = None
        /\ op # None /\ pc \in Cleans
    BY <1>5 DEF CleanStages, Cleans, OpInv
  <2>2. /\ Retrievable' => Retrievable
        /\ Retrievable' => Held' = Held
    BY <2>1 DEF Retrievable, Held, Verified, Available
  <2>3. QED
    BY <2>1, <2>2, OperationImplements DEF Cleans
<1>6. CASE GetObject
  <2>1. /\ UNCHANGED <<row, tomb, disk, journal, objects, deleted>>
        /\ op # None /\ pc = "get"
    BY <1>6 DEF GetObject, OpInv
  <2>2. journal.cand = None
    BY <2>1 DEF StepInv
  <2>3. (Retrievable' <=> Retrievable) /\ Held' = Held
    BY <2>1, <2>2 DEF Retrievable, Held, Verified, Available
  <2>4. QED
    BY <2>1, <2>3, QuietImplements
<1>7. CASE RemoteDelete
  <2>1. /\ UNCHANGED <<row, tomb, disk, journal, cand>>
        /\ op # None /\ pc = "delete" /\ deleted \subseteq deleted'
        /\ journal # None /\ journal \in Record /\ journal.id \in Ids /\ rec = journal
    BY <1>7 DEF RemoteDelete, DeleteObject, Remove, OpInv, RecInv, TypeOK, Record
  <2>2. objects'[journal.id] = None
    BY <1>7, <2>1 DEF RemoteDelete, DeleteObject, Remove
  <2>3. /\ Retrievable' => Retrievable
        /\ Held' = Held
    BY <2>1, <2>2 DEF Retrievable, Held, Verified, Available
  <2>4. QED
    BY <2>1, <2>3, OperationImplements
<1>8. CASE RemoveJournal
  <2>1. /\ UNCHANGED <<row, tomb, disk>>
        /\ op # None /\ pc = "unjournal" /\ journal' = None
    BY <1>8 DEF RemoveJournal, OpInv
  <2>2. QED
    BY <2>1, OperationImplements DEF Retrievable
<1>9. CASE WriteTombstone
  <2>1. /\ UNCHANGED <<row, disk, journal, cand, objects, deleted>>
        /\ tomb' = tomb \cup {op.inst} /\ op.inst \in Insts
    BY <1>9 DEF WriteTombstone, OpInv, TypeOK, Operation
  <2>2. UNCHANGED <<Place, Contents>>
    BY <2>1 DEF Place, Contents, Retrievable, Verified, Available
  <2>3. QED
    BY <2>1, <2>2 DEF Contract!Next, Contract!Condemn
<1>10. QED
  BY <1>1, <1>2, <1>3, <1>4, <1>5, <1>6, <1>7, <1>8, <1>9 DEF Step

\* A late command of the store, or the administrator, never takes what is needed.
LEMMA StoreImplements ==
    ASSUME TypeOK, IInv, Abandon \/ StoreNext
    PROVE  [Contract!Next]_(Contract!contractVars)
PROOF
<1> USE StoreAssumption, NoneAssumption DEF IInv
<1>1. UNCHANGED <<row, tomb, disk, journal, cand>>
  BY DEF Abandon, StoreNext, localVars, cpVars
<1>2. journal # None => journal.id \in Gens /\ journal.id \in Ids
  BY DEF TypeOK, Record, Ids
<1>3. CASE Abandon
  <2>1. PICK ids \in SUBSET Ids :
           (journal # None => journal.id \notin ids) /\ DiscardObjects(ids)
    BY <1>3 DEF Abandon
  <2>2. journal # None =>
           /\ objects'[journal.id] = objects[journal.id]
           /\ journal.id \in deleted' <=> journal.id \in deleted
    BY <1>2, <2>1 DEF DiscardObjects, FenceOnly
  <2>3. (Retrievable' <=> Retrievable) /\ Held' = Held
    BY <1>1, <2>2 DEF Retrievable, Held, Verified, Available
  <2>4. QED
    BY <1>1, <2>3, QuietImplements
<1>4. ASSUME NEW q \in wire, ServePut(q)
      PROVE  [Contract!Next]_(Contract!contractVars)
  <2>1. /\ q.op = "put" /\ q.id \in Gens /\ q.id \notin deleted /\ objects[q.id] = None
        /\ deleted' = deleted
    BY <1>4 DEF ServePut, Accepts, GenInv
  <2>2. /\ journal # None /\ journal.id = q.id
        /\ journal.phase \notin {"evicting", "cold", "restoring"}
    BY <2>1 DEF GenInv, JournalInv, NoUpload, Verified, Available
  <2>3. ~Retrievable /\ ~Retrievable'
    BY <1>1, <2>2 DEF Retrievable
  <2>4. QED
    BY <1>1, <2>3, QuietImplements
<1>5. ASSUME NEW q \in wire, ServeDelete(q)
      PROVE  [Contract!Next]_(Contract!contractVars)
  <2>1. /\ q.op = "delete" /\ q.id \in Ids /\ deleted' = deleted \cup {q.id}
        /\ \A id \in Ids : objects'[id] \in {objects[id], None}
        /\ \A id \in Ids \ {q.id} : objects'[id] = objects[id]
    BY <1>5 DEF ServeDelete, DeleteObject, Remove, FenceOnly, GenInv, Ids
  <2>2. Retrievable' => Retrievable /\ Held' = Held
    BY <1>1, <1>2, <2>1 DEF Retrievable, Held, Verified, Available
  <2>3. Retrievable => Retrievable' \/ row \in tomb
    BY <1>1, <1>2, <2>1 DEF Retrievable, Verified, Available, GenInv
  <2>4. QED
    BY <1>1, <2>2, <2>3, QuietImplements
<1>6. ASSUME NEW q \in wire, DropCommand(q)
      PROVE  [Contract!Next]_(Contract!contractVars)
  BY <1>1, <1>6, QuietImplements DEF DropCommand, Retrievable, Held, Verified, Available
<1>7. QED
  BY <1>3, <1>4, <1>5, <1>6 DEF StoreNext

\* The disk of an incarnation that is created, writes, and is retired.
LEMMA LifeImplements ==
    ASSUME TypeOK, IInv, TypeOK', IInv',
           RemoveInstance \/ GuestWrites \/ \E i \in Insts : CreateInstance(i)
    PROVE  [Contract!Next]_(Contract!contractVars)
PROOF
<1> USE NoneAssumption, InstsAssumption DEF IInv
<1>1. CASE RemoveInstance
  <2>1. row \in tomb /\ row' = None /\ disk' = None /\ UNCHANGED <<tomb, journal>>
    BY <1>1 DEF RemoveInstance, RowInv
  <2>2. ~Retrievable'
    BY <2>1 DEF Retrievable, TypeOK, Record
  <2>3. Place' = "none" /\ Contents' = 0
    BY <2>1, <2>2 DEF Place, Contents
  <2>4. QED
    BY <2>1, <2>3 DEF Contract!Next, Contract!Retire
<1>2. CASE GuestWrites
  <2>1. /\ disk # None /\ disk \in Disk /\ disk' = [disk EXCEPT !.ver = @ + 1]
        /\ UNCHANGED <<row, tomb>>
    BY <1>2 DEF GuestWrites, TypeOK, cpVars
  <2>2. disk'.ver = disk.ver + 1 /\ disk' # None
    BY <1>2, <2>1 DEF GuestWrites, Disk
  <2>3. /\ Place = "local" /\ Place' = "local" /\ Contents' = Contents + 1
    BY <2>1, <2>2 DEF Place, Contents
  <2>4. QED
    BY <2>1, <2>3 DEF Contract!Next, Contract!Write
<1>3. ASSUME NEW i \in Insts, CreateInstance(i)
      PROVE  [Contract!Next]_(Contract!contractVars)
  <2>1. /\ row = None /\ row' = i /\ i # None /\ i \notin tomb /\ tomb' = tomb
        /\ disk' = [id |-> disks', ver |-> 0, owner |-> i]
    BY <1>3 DEF CreateInstance, RowInv
  <2>2. disks' \in DiskIds
    BY DEF TypeOK
  <2>3. disk' \in Disk /\ disk'.ver = 0
    BY <2>1, <2>2 DEF Disk
  <2>4. disk' # None
    BY <2>3
  <2>5. Place' = "local" /\ Contents' = 0
    BY <2>1, <2>3, <2>4 DEF Place, Contents
  <2>6. QED
    BY <2>1, <2>5 DEF Contract!Next, Contract!Create
<1>4. QED
  BY <1>1, <1>2, <1>3

\* Every step of the system is one the contract of the disk allows.
LEMMA NextImplements ==
    ASSUME TypeOK, IInv, [Next]_vars
    PROVE  [Contract!Next]_(Contract!contractVars)
PROOF
<1>1. TypeOK' /\ IInv'
  BY NextKeeps
<1>2. CASE Step
  BY <1>1, <1>2, StepImplements
<1>3. CASE Abandon \/ StoreNext
  BY <1>3, StoreImplements
<1>4. CASE RemoveInstance \/ GuestWrites \/ \E i \in Insts : CreateInstance(i)
  BY <1>1, <1>4, LifeImplements
<1>5. ASSUME UNCHANGED <<row, tomb, disk, journal, cand, objects, deleted>>
      PROVE  [Contract!Next]_(Contract!contractVars)
  BY <1>5, QuietImplements DEF Retrievable, Held, Verified, Available
<1>6. CASE StepFails \/ Crash \/ Reply \/ DeleteCall
  BY <1>5, <1>6 DEF StepFails, Crash, Reply, DeleteCall, storeVars, localVars, cpVars
<1>7. CASE \E q \in calls : Admit(q) \/ Reject(q)
  BY <1>5, <1>7 DEF Admit, Reject, storeVars, localVars, cpVars
<1>8. CASE DiskCommand \/ RetentionOffload
  BY <1>5, <1>8 DEF DiskCommand, RetentionOffload, ColdDiskCall, storeVars, localVars,
     cpVars
<1>9. CASE \E i \in Insts : StartVM(i)
  BY <1>5, <1>9 DEF StartVM, storeVars, cpVars
<1>10. CASE \E save \in BOOLEAN : StopVM(save)
  BY <1>5, <1>10 DEF StopVM, storeVars, cpVars
<1>11. CASE UNCHANGED vars
  BY <1>5, <1>11 DEF vars, storeVars, localVars, cpVars
<1>12. QED
  BY <1>2, <1>3, <1>4, <1>6, <1>7, <1>8, <1>9, <1>10, <1>11 DEF Next

\* The cold disk implements the contract of a disk: contents are written only by the
\* guest, move unchanged, and are given up only for a condemned incarnation.
THEOREM ColdImplementsDisk == Spec => ImplementsDisk
PROOF
<1>1. Init => Contract!Init
  <2>1. SUFFICES ASSUME Init PROVE Contract!Init
    OBVIOUS
  <2>2. TypeOK /\ IInv
    BY <2>1, InitHolds
  <2>3. row # None /\ disk # None /\ disk.ver = 0 /\ tomb = {}
    BY <2>1, <2>2, InstsAssumption DEF Init, IInv, DataSafe, Retrievable
  <2>4. QED
    BY <2>3 DEF Contract!Init, Place, Contents
<1>2. TypeOK /\ IInv /\ [Next]_vars => [Contract!Next]_(Contract!contractVars)
  BY NextImplements
<1>3. QED
  BY <1>1, <1>2, ColdInvariant, PTL DEF Spec, ImplementsDisk, Contract!Spec

\* Once a delete of an incarnation is acknowledged, none of its objects is in the
\* store and no upload that outlived its client can put one back.
THEOREM DeletedIsGone == Spec => []DeletedLeavesNoObject
PROOF
<1>1. IInv => DeletedLeavesNoObject
  BY DEF IInv, DeletedLeavesNoObject, JournalInv, GenInv, NoUpload
<1>2. QED
  BY <1>1, ColdInvariant, PTL

\* A published disk always has the base it depends on in the store.
THEOREM ParentsStay == Spec => []ParentsKept
PROOF
<1>1. IInv => ParentsKept
  BY DEF IInv
<1>2. QED
  BY <1>1, ColdInvariant, PTL

\* No interruption leaves a marker that no journal explains.
THEOREM MarkerIsJournaled == Spec => []MarkerHasJournal
PROOF
<1>1. IInv => MarkerHasJournal
  BY DEF IInv
<1>2. QED
  BY <1>1, ColdInvariant, PTL

\* A VM runs on its own disk and is not condemned under it, and saved RAM fits the
\* disk it was taken with.
THEOREM RuntimeKeepsDisk == Spec => []RuntimeHasDisk
PROOF
<1>1. IInv => RuntimeHasDisk
  BY DEF IInv
<1>2. QED
  BY <1>1, ColdInvariant, PTL
=============================================================================
