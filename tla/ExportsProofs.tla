---------------------------- MODULE ExportsProofs ----------------------------
(***************************************************************************)
(* Proofs about exports, for any number of exports, requests, photos,      *)
(* pages, attempts and faults: READY ends in EXPIRED alone, an expired     *)
(* archive is gone for good, and an archive is complete.                   *)
(*                                                                         *)
(* All rest on this: while a generation is at work its export is neither   *)
(* READY nor EXPIRED.  So what it stores is not a cleanup's to delete, and *)
(* what a cleanup deletes is stored by none.                               *)
(***************************************************************************)
EXTENDS ExportsProps, FiniteSums

Ended == {"ready", "expired"}

Archives == (SUBSET Photos) \cup {NoArchive}

ExportsTypeOK ==
    /\ status \in [Exports -> {"none", "pending", "processing", "failed"} \cup Ended]
    /\ archive \in [Exports -> Archives]
    /\ op \in [Requests -> {"idle", "insert", "enqueue", "fail"}]
    /\ arg \in [Requests -> Exports \cup {NoExport}]
    /\ \A r \in Requests : op[r] \in {"enqueue", "fail"} => arg[r] \in Exports
    /\ job \in [Exports -> Generating \cup {"none", "pending", "done", "failed", "lost"}]
    /\ cursor \in [Exports -> Nat]
    /\ page \in [Exports -> SUBSET Photos]
    /\ zip \in [Exports -> SUBSET Photos]
    /\ steady \in [Exports -> SUBSET Photos]
    /\ photo \in [Photos -> {"processing", "READY", "gone"}]
    /\ pc \in {"idle", "delete", "fail"} \cup Exports
    /\ batch \subseteq Exports

GeneratingIsOpen == \A x \in Exports : job[x] \in Generating => status[x] \notin Ended

\* What a cleanup listed as READY stays so or is expired; the archive of the
\* one it is at is gone.
BatchIsEnded ==
    /\ pc \in {"delete"} \cup Exports => \A x \in batch : status[x] \in Ended
    /\ pc \in Exports => pc \in batch /\ archive[pc] = NoArchive

\* What a generation has listed and not appended is done: photos that were
\* READY all along and come before the page (they are newer) are in its file,
\* those after it are older than all of a full page.
Listed(x) == \A p \in steady[x] : p >= cursor[x] => p \in zip[x]

PageIsNewest(x) ==
    \A p \in steady[x] : p < cursor[x] /\ p \notin page[x] =>
        (\A q \in page[x] : p < q) /\ Cardinality(page[x]) >= PageSize

ListingOK ==
    \A x \in Exports :
        /\ job[x] \in Generating \ {"mark"} => \A p \in steady[x] : photo[p] = "READY"
        /\ job[x] \in {"list", "append"} => Listed(x)
        /\ job[x] = "append" => PageIsNewest(x)
        /\ job[x] = "put" => steady[x] \subseteq zip[x]
        /\ job[x] = "ready" => steady[x] \subseteq archive[x]

IInv ==
    /\ ExportsTypeOK
    /\ GeneratingIsOpen /\ BatchIsEnded /\ ExpiredIsGone
    /\ ListingOK /\ ArchiveComplete

-----------------------------------------------------------------------------
(* A page of the listing                                                   *)

LEMMA PhotosFinite ==
  ASSUME NEW S \in SUBSET Photos
  PROVE  IsFiniteSet(S) /\ Cardinality(S) \in Nat
<1>1. IsFiniteSet(Photos)
  BY FS_Interval, ExportsAssumption DEF Photos
<1>. QED BY <1>1, FS_Subset, FS_CardinalityType

\* A set of photos has an oldest, which is Min, and a newest.
LEMMA Extremes ==
  ASSUME NEW S \in SUBSET Photos, S # {}
  PROVE  /\ Min(S) \in S /\ \A q \in S : Min(S) <= q
         /\ \E p \in S : \A q \in S : p >= q
<1>. USE ExportsAssumption DEF Photos
<1>1. \E p \in S : \A q \in S : p <= q
  BY Least
<1>2. Min(S) \in S /\ \A q \in S : Min(S) <= q
  BY <1>1 DEF Min
<1>3. PICK p \in S : \A q \in S : NPhotos - q >= NPhotos - p
  <2>. DEFINE T == {NPhotos - q : q \in S}
  <2>1. \A q \in S : NPhotos - q \in Nat
    OBVIOUS
  <2>2. T \in SUBSET Nat /\ T # {}
    BY <2>1
  <2>3. PICK t \in T : \A u \in T : t <= u
    BY <2>2, Least
  <2>. QED BY <2>3
<1>4. \A q \in S : p >= q
  BY <1>3
<1>. QED BY <1>2, <1>4

\* A photo that is not on the page is older than all that are, and the page
\* is full.
LEMMA NewestPage ==
  ASSUME NEW S \in SUBSET Photos, NEW p \in S, p \notin Newest(S, PageSize)
  PROVE  /\ \A q \in Newest(S, PageSize) : p < q
         /\ Cardinality(Newest(S, PageSize)) >= PageSize
<1>. DEFINE Newer(m) == {q \in S : q > m}
            P == Newest(S, PageSize)
<1>0. S \subseteq Int /\ PageSize \in Nat
  BY ExportsAssumption DEF Photos
<1>1. P \in SUBSET S /\ \A m \in S : m \in P <=> Cardinality(Newer(m)) < PageSize
  BY DEF Newest
<1>2. \A m \in S : IsFiniteSet(Newer(m)) /\ Cardinality(Newer(m)) \in Nat
  <2>1. \A m \in S : Newer(m) \in SUBSET Photos
    OBVIOUS
  <2>. QED BY <2>1, PhotosFinite
<1>. HIDE DEF P
<1>3. ASSUME NEW q \in P, q <= p PROVE FALSE
  <2>1. ASSUME NEW o \in Newer(p) PROVE o \in Newer(q)
    <3>1. o \in Int /\ p \in Int /\ q \in Int
      BY <1>0, <1>1
    <3>. QED BY <3>1, <1>3
  <2>2. IsFiniteSet(Newer(p)) /\ IsFiniteSet(Newer(q)) /\ Cardinality(Newer(p)) \in Nat /\ Cardinality(Newer(q)) \in Nat
    BY <1>1, <1>2
  <2>. HIDE DEF Newer
  <2>3. Cardinality(Newer(p)) <= Cardinality(Newer(q))
    BY <2>1, <2>2, FS_Subset
  <2>4. Cardinality(Newer(q)) < PageSize /\ ~(Cardinality(Newer(p)) < PageSize)
    BY <1>1 DEF P
  <2>. QED BY <2>2, <2>3, <2>4, <1>0
<1>4. PICK m \in S \ P : \A q \in S \ P : m >= q
  <2>1. S \ P \in SUBSET Photos /\ S \ P # {}
    BY DEF P
  <2>. QED BY <2>1, Extremes
<1>5. ASSUME NEW o \in Newer(m) PROVE o \in P
  <2>1. o \in Int /\ m \in Int
    BY <1>0
  <2>. QED BY <2>1, <1>4
<1>6. IsFiniteSet(P) /\ Cardinality(P) \in Nat
  BY <1>1, PhotosFinite
<1>. HIDE DEF Newer
<1>7. Cardinality(Newer(m)) <= Cardinality(P)
  BY <1>5, <1>6, FS_Subset
<1>8. Cardinality(P) >= PageSize
  BY <1>0, <1>1, <1>2, <1>4, <1>6, <1>7
<1>9. \A q \in P : p < q
  BY <1>0, <1>1, <1>3
<1>. QED BY <1>8, <1>9 DEF P

-----------------------------------------------------------------------------
(* Every step keeps the invariant                                          *)

LEMMA InitOK == Init => IInv
<1>. SUFFICES ASSUME Init PROVE IInv
  OBVIOUS
<1>. USE DEF Init
<1>1. ExportsTypeOK
  <2>1. cursor \in [Exports -> Nat]
    BY ExportsAssumption
  <2>2. photo \in [Photos -> {"processing", "READY", "gone"}]
    OBVIOUS
  <2>3. /\ page \in [Exports -> SUBSET Photos] /\ zip \in [Exports -> SUBSET Photos]
        /\ steady \in [Exports -> SUBSET Photos]
    OBVIOUS
  <2>4. archive \in [Exports -> Archives] /\ arg \in [Requests -> Exports \cup {NoExport}]
    <3>1. NoArchive \in Archives
      BY DEF Archives
    <3>. QED BY <3>1
  <2>5. /\ op \in [Requests -> {"idle", "insert", "enqueue", "fail"}]
        /\ \A r \in Requests : op[r] \notin {"enqueue", "fail"}
    OBVIOUS
  <2>6. /\ status \in [Exports -> {"none", "pending", "processing", "failed"} \cup Ended]
        /\ job \in [Exports -> Generating \cup {"none", "pending", "done", "failed", "lost"}]
    OBVIOUS
  <2>. QED BY <2>1, <2>2, <2>3, <2>4, <2>5, <2>6 DEF ExportsTypeOK
<1>2. GeneratingIsOpen /\ BatchIsEnded /\ ExpiredIsGone
  BY ExportsAssumption DEF GeneratingIsOpen, BatchIsEnded, ExpiredIsGone, Ended
<1>3. ListingOK /\ ArchiveComplete
  BY DEF ListingOK, ArchiveComplete
<1>. QED BY <1>1, <1>2, <1>3 DEF IInv

\* What the rest of the state says of exports is left as it was.
LEMMA SameListing ==
  ASSUME IInv, UNCHANGED <<cursor, page, zip, steady, photo>>,
         \A x \in Exports : job'[x] \in Generating => job'[x] = job[x] /\ archive'[x] = archive[x],
         \A x \in Exports : status'[x] = "ready" =>
             status[x] = "ready" /\ archive'[x] \in {archive[x], NoArchive}
  PROVE  ListingOK' /\ ArchiveComplete'
BY DEF IInv, ListingOK, ArchiveComplete, Listed, PageIsNewest, Generating

LEMMA RequestKeeps ==
  ASSUME IInv, NEW r \in Requests, GetActiveByEvent(r) \/ RequestStep(r) \/ RequestFails(r)
  PROVE  IInv'
<1>. USE DEF IInv, ExportsTypeOK
<1>1. /\ UNCHANGED <<archive, cursor, page, zip, steady, photo, pc, batch>>
      /\ op' \in [Requests -> {"idle", "insert", "enqueue", "fail"}]
      /\ arg' \in [Requests -> Exports \cup {NoExport}]
      /\ \A q \in Requests : op'[q] \in {"enqueue", "fail"} => arg'[q] \in Exports
  BY DEF GetActiveByEvent, RequestStep, Create, EnqueueGenerate, EnqueueFailed, RequestFails, Goto, Respond,
         genVars, cleanVars
<1>2. status' = status \/ \E x \in Exports, v \in {"pending", "failed"} :
                            status[x] \notin Ended /\ status' = [status EXCEPT ![x] = v]
  BY DEF GetActiveByEvent, RequestStep, Create, EnqueueGenerate, EnqueueFailed, RequestFails, Failed, Active,
         Ended
<1>3. job' = job \/ \E x \in Exports : job' = [job EXCEPT ![x] = "pending"]
  BY DEF GetActiveByEvent, RequestStep, Create, EnqueueGenerate, EnqueueFailed, RequestFails, genVars
<1>4. ExportsTypeOK'
  BY <1>1, <1>2, <1>3
<1>5. GeneratingIsOpen' /\ BatchIsEnded' /\ ExpiredIsGone'
  BY <1>1, <1>2, <1>3 DEF GeneratingIsOpen, BatchIsEnded, ExpiredIsGone, Ended, Generating
<1>6. ListingOK' /\ ArchiveComplete'
  BY <1>1, <1>2, <1>3, SameListing DEF Generating
<1>. QED BY <1>4, <1>5, <1>6

LEMMA GenLoadKeeps ==
  ASSUME IInv, NEW x \in Exports, GenLoad(x)
  PROVE  IInv'
<1>. USE DEF IInv, ExportsTypeOK, GenLoad, GenGoto, reqVars, cleanVars
<1>1. ExportsTypeOK'
  BY DEF Generating
<1>2. GeneratingIsOpen' /\ BatchIsEnded' /\ ExpiredIsGone'
  BY DEF GeneratingIsOpen, BatchIsEnded, ExpiredIsGone, Generating, Ended
<1>3. ListingOK' /\ ArchiveComplete'
  BY DEF ListingOK, ArchiveComplete, Listed, PageIsNewest, Generating
<1>. QED BY <1>1, <1>2, <1>3

LEMMA MarkProcessingKeeps ==
  ASSUME IInv, NEW x \in Exports, MarkProcessing(x)
  PROVE  IInv'
<1>. USE DEF IInv, ExportsTypeOK, MarkProcessing, GenGoto, reqVars, cleanVars
<1>1. ExportsTypeOK'
  BY ExportsAssumption DEF Generating
<1>2. GeneratingIsOpen' /\ BatchIsEnded' /\ ExpiredIsGone'
  BY DEF GeneratingIsOpen, BatchIsEnded, ExpiredIsGone, Ended
<1>3. ListingOK' /\ ArchiveComplete'
  BY ExportsAssumption DEF ListingOK, ArchiveComplete, Listed, PageIsNewest, GeneratingIsOpen, Generating,
         Photos, Active
<1>. QED BY <1>1, <1>2, <1>3

LEMMA ListByEventKeeps ==
  ASSUME IInv, NEW x \in Exports, ListByEvent(x)
  PROVE  IInv'
<1>. USE DEF IInv, ExportsTypeOK, ListByEvent, GenGoto, reqVars, cleanVars
<1>. DEFINE S == {p \in Photos : photo[p] = "READY" /\ p < cursor[x]}
<1>0. Newest(S, PageSize) \in SUBSET Photos
  BY DEF Newest
<1>1. ExportsTypeOK'
  BY <1>0 DEF Generating
<1>2. GeneratingIsOpen' /\ BatchIsEnded' /\ ExpiredIsGone'
  BY DEF GeneratingIsOpen, BatchIsEnded, ExpiredIsGone
<1>3. ListingOK' /\ ArchiveComplete'
  <2>1. PageIsNewest(x)'
    <3>. SUFFICES ASSUME NEW p \in steady[x], p < cursor[x], p \notin Newest(S, PageSize)
                  PROVE  /\ \A q \in Newest(S, PageSize) : p < q
                         /\ Cardinality(Newest(S, PageSize)) >= PageSize
      BY DEF PageIsNewest
    <3>1. p \in S /\ S \in SUBSET Photos
      BY DEF ListingOK
    <3>. QED BY <3>1, NewestPage
  <2>2. Listed(x)'
    BY DEF ListingOK, Listed
  <2>. QED BY <2>1, <2>2 DEF ListingOK, ArchiveComplete, Listed, PageIsNewest, GeneratingIsOpen, Generating, Ended
<1>. QED BY <1>1, <1>2, <1>3

LEMMA AppendPhotosKeeps ==
  ASSUME IInv, NEW x \in Exports, AppendPhotos(x)
  PROVE  IInv'
<1>. USE DEF IInv, ExportsTypeOK, AppendPhotos, GenGoto, reqVars, cleanVars
<1>1. PICK kept \in SUBSET page[x] :
          /\ \A p \in page[x] : photo[p] # "gone" => p \in kept
          /\ zip' = [zip EXCEPT ![x] = @ \cup kept]
  OBVIOUS
<1>2. page[x] # {} => Min(page[x]) \in page[x] /\ \A q \in page[x] : Min(page[x]) <= q
  BY Extremes
<1>3. ExportsTypeOK'
  <2>1. cursor' \in [Exports -> Nat]
    BY <1>2, ExportsAssumption DEF Photos
  <2>2. zip' \in [Exports -> SUBSET Photos]
    BY <1>1
  <2>. QED BY <2>1, <2>2 DEF Generating
<1>4. GeneratingIsOpen' /\ BatchIsEnded' /\ ExpiredIsGone'
  BY DEF GeneratingIsOpen, BatchIsEnded, ExpiredIsGone
<1>5. \A p \in steady[x] : photo[p] = "READY" /\ p \in Photos
  BY DEF ListingOK
<1>6. \A p \in steady[x] : p >= cursor[x] \/ p \in page[x] => p \in zip'[x]
  BY <1>1, <1>5 DEF ListingOK, Listed
<1>7. /\ steady[x] \subseteq Int /\ cursor[x] \in Int
      /\ PageSize \in Nat \ {0} /\ Cardinality(page[x]) \in Nat
  BY PhotosFinite, ExportsAssumption DEF Photos
<1>8. ListingOK'
  <2>1. CASE Cardinality(page[x]) < PageSize
    <3>1. steady[x] \subseteq zip'[x]
      BY <1>6, <1>7, <2>1 DEF ListingOK, PageIsNewest
    <3>. QED BY <1>1, <3>1, <2>1 DEF ListingOK, Listed, PageIsNewest, Generating
  <2>2. CASE ~(Cardinality(page[x]) < PageSize)
    <3>1. page[x] # {}
      <4>1. ASSUME page[x] = {} PROVE Cardinality(page[x]) = 0
      BY <4>1, FS_EmptySet
    <4>. QED BY <1>7, <2>2, <4>1
    <3>2. ASSUME NEW p \in steady[x], p >= Min(page[x]) PROVE p \in zip'[x]
      <4>1. Min(page[x]) \in Int /\ p \in Int /\ ~(p < Min(page[x]))
        BY <1>2, <1>7, <3>1, <3>2 DEF Photos
      <4>. QED BY <4>1, <1>2, <1>6, <1>7, <3>1 DEF ListingOK, PageIsNewest
    <3>. QED BY <1>1, <3>1, <3>2, <2>2 DEF ListingOK, Listed, PageIsNewest, Generating
  <2>. QED BY <2>1, <2>2
<1>9. ArchiveComplete'
  BY DEF ArchiveComplete
<1>. QED BY <1>3, <1>4, <1>8, <1>9

LEMMA PutArchiveKeeps ==
  ASSUME IInv, NEW x \in Exports, PutArchive(x)
  PROVE  IInv'
<1>. USE DEF IInv, ExportsTypeOK, PutArchive, GenGoto, reqVars, cleanVars
<1>1. ExportsTypeOK'
  BY DEF Generating, Archives
<1>2. GeneratingIsOpen' /\ BatchIsEnded' /\ ExpiredIsGone'
  BY DEF GeneratingIsOpen, BatchIsEnded, ExpiredIsGone
<1>3. ListingOK' /\ ArchiveComplete'
  BY DEF ListingOK, ArchiveComplete, Listed, PageIsNewest
<1>. QED BY <1>1, <1>2, <1>3

LEMMA MarkReadyKeeps ==
  ASSUME IInv, NEW x \in Exports, MarkReady(x)
  PROVE  IInv'
<1>. USE DEF IInv, ExportsTypeOK, MarkReady, GenGoto, Attempted, reqVars, cleanVars
<1>1. ExportsTypeOK'
  BY DEF Ended
<1>2. GeneratingIsOpen' /\ BatchIsEnded' /\ ExpiredIsGone'
  BY DEF GeneratingIsOpen, BatchIsEnded, ExpiredIsGone, Generating
<1>3. ListingOK' /\ ArchiveComplete'
  BY DEF ListingOK, ArchiveComplete, Listed, PageIsNewest
<1>. QED BY <1>1, <1>2, <1>3

LEMMA GenErrorKeeps ==
  ASSUME IInv, NEW x \in Exports, GenError(x)
  PROVE  IInv'
<1>. USE DEF IInv, ExportsTypeOK, GenError, GenGoto, Attempted, reqVars, cleanVars
<1>1. ExportsTypeOK'
  OBVIOUS
<1>2. GeneratingIsOpen' /\ BatchIsEnded' /\ ExpiredIsGone'
  BY DEF GeneratingIsOpen, BatchIsEnded, ExpiredIsGone
<1>3. ListingOK' /\ ArchiveComplete'
  BY DEF ListingOK, ArchiveComplete, Listed, PageIsNewest, Generating
<1>. QED BY <1>1, <1>2, <1>3

LEMMA CleanupKeeps ==
  ASSUME IInv, CleanStep \/ CleanupError
  PROVE  IInv'
<1>. USE DEF IInv, ExportsTypeOK, CleanStep, ListExpired, ListStaleProcessing, CleanupDone, DeleteArchive, MarkExpired,
             FailStale, CleanupError, reqVars, genVars
<1>1. UNCHANGED <<op, arg, job, cursor, page, zip, steady, photo>>
  OBVIOUS
<1>2. \/ status' = status
      \/ \E x \in Exports : status[x] \in Active /\ status' = [status EXCEPT ![x] = "failed"]
      \/ pc \in Exports /\ status[pc] = "ready" /\ status' = [status EXCEPT ![pc] = "expired"]
  BY DEF Failed
<1>3. archive' = archive \/ \E x \in batch : pc = "delete" /\ archive' = [archive EXCEPT ![x] = NoArchive]
  OBVIOUS
<1>4. ExportsTypeOK'
  <2>1. pc' \in {"idle", "delete", "fail"} \cup Exports /\ batch' \subseteq Exports
    OBVIOUS
  <2>2. status' \in [Exports -> {"none", "pending", "processing", "failed"} \cup Ended]
    BY <1>2 DEF Ended
  <2>3. archive' \in [Exports -> Archives]
    <3>1. NoArchive \in Archives
      BY DEF Archives
    <3>. QED BY <1>3, <3>1
  <2>. QED BY <1>1, <2>1, <2>2, <2>3
<1>5. GeneratingIsOpen'
  BY <1>1, <1>2 DEF GeneratingIsOpen, Ended
<1>6. BatchIsEnded'
  BY ExportsAssumption DEF BatchIsEnded
<1>7. ExpiredIsGone'
  BY <1>2, <1>3 DEF BatchIsEnded, ExpiredIsGone
<1>8. ListingOK' /\ ArchiveComplete'
  <2>1. \A x \in Exports : job[x] \in Generating => archive'[x] = archive[x]
    BY <1>3 DEF BatchIsEnded, GeneratingIsOpen
  <2>. QED BY <1>1, <1>2, <1>3, <2>1, SameListing
<1>. QED BY <1>4, <1>5, <1>6, <1>7, <1>8

LEMMA TimeKeeps ==
  ASSUME IInv, NEW x \in Exports, Expire(x) \/ Age(x)
  PROVE  IInv'
BY DEF IInv, Expire, Age, reqVars, genVars, cleanVars, ExportsTypeOK, GeneratingIsOpen, BatchIsEnded, ExpiredIsGone,
       ListingOK, ArchiveComplete, Listed, PageIsNewest

LEMMA PhotoReadyKeeps ==
  ASSUME IInv, NEW p \in Photos, PhotoReady(p)
  PROVE  IInv'
BY DEF IInv, PhotoReady, reqVars, genVars, cleanVars, ExportsTypeOK, GeneratingIsOpen, BatchIsEnded, ExpiredIsGone,
       ListingOK, ArchiveComplete, Listed, PageIsNewest

LEMMA PhotoDeletedKeeps ==
  ASSUME IInv, NEW p \in Photos, PhotoDeleted(p)
  PROVE  IInv'
<1>. USE DEF IInv, PhotoDeleted, reqVars, cleanVars, ExportsTypeOK
<1>1. \A x \in Exports : /\ steady'[x] \subseteq steady[x]
                         /\ job[x] \in Generating => p \notin steady'[x]
  OBVIOUS
<1>2. ExportsTypeOK'
  OBVIOUS
<1>3. GeneratingIsOpen' /\ BatchIsEnded' /\ ExpiredIsGone'
  BY DEF GeneratingIsOpen, BatchIsEnded, ExpiredIsGone
<1>4. ListingOK' /\ ArchiveComplete'
  BY <1>1 DEF ListingOK, ArchiveComplete, Listed, PageIsNewest
<1>. QED BY <1>2, <1>3, <1>4

LEMMA NextKeeps == IInv /\ [Next]_vars => IInv'
<1>. SUFFICES ASSUME IInv, [Next]_vars PROVE IInv'
  OBVIOUS
<1>1. ASSUME NEW r \in Requests, GetActiveByEvent(r) \/ RequestStep(r) \/ RequestFails(r) PROVE IInv'
  BY <1>1, RequestKeeps
<1>2. ASSUME NEW x \in Exports, GenStep(x) PROVE IInv'
  BY <1>2, GenLoadKeeps, MarkProcessingKeeps, ListByEventKeeps, AppendPhotosKeeps, PutArchiveKeeps, MarkReadyKeeps
     DEF GenStep
<1>3. ASSUME NEW x \in Exports, GenError(x) PROVE IInv'
  BY <1>3, GenErrorKeeps
<1>4. ASSUME NEW x \in Exports, Expire(x) \/ Age(x) PROVE IInv'
  BY <1>4, TimeKeeps
<1>5. CASE CleanStep \/ CleanupError
  BY <1>5, CleanupKeeps
<1>6. ASSUME NEW p \in Photos, PhotoReady(p) \/ PhotoDeleted(p) PROVE IInv'
  BY <1>6, PhotoReadyKeeps, PhotoDeletedKeeps
<1>7. CASE UNCHANGED vars
  BY <1>7 DEF vars, IInv, ExportsTypeOK, GeneratingIsOpen, BatchIsEnded, ExpiredIsGone, ListingOK,
         ArchiveComplete, Listed, PageIsNewest
<1>. QED BY <1>1, <1>2, <1>3, <1>4, <1>5, <1>6, <1>7 DEF Next

LEMMA Invariance == Spec => []IInv
BY InitOK, NextKeeps, PTL DEF Spec

-----------------------------------------------------------------------------
(* What follows                                                            *)

\* However requests, failed generations and cleanups interleave, an archive
\* whose export is EXPIRED is gone, and no retried generation brings it back.
THEOREM ExpiredForGood == Spec => []ExpiredIsGone
<1>1. IInv => ExpiredIsGone
  BY DEF IInv
<1>. QED BY <1>1, Invariance, PTL

\* For any number of photos and any page size, an archive that can be
\* downloaded has every photo that was READY all through its generation:
\* listing after the oldest photo of the last page skips none.
THEOREM NoPhotoSkipped == Spec => []ArchiveComplete
<1>1. IInv => ArchiveComplete
  BY DEF IInv
<1>. QED BY <1>1, Invariance, PTL

LEMMA EndedStays ==
  ASSUME IInv, Next, NEW x \in Exports
  PROVE  /\ status[x] = "ready" => status'[x] \in {"ready", "expired"}
         /\ status[x] = "expired" => status'[x] = "expired"
<1>. USE DEF IInv, ExportsTypeOK
<1>1. ASSUME NEW r \in Requests, GetActiveByEvent(r) \/ RequestStep(r) \/ RequestFails(r)
      PROVE  status[x] \in Ended => status'[x] = status[x]
  BY <1>1 DEF GetActiveByEvent, RequestStep, Create, EnqueueGenerate, EnqueueFailed, RequestFails, Failed,
         Active, Ended
<1>2. ASSUME NEW y \in Exports, GenStep(y)
      PROVE  status[x] \in Ended => status'[x] = status[x]
  BY <1>2 DEF GenStep, GenLoad, MarkProcessing, ListByEvent, AppendPhotos, PutArchive, MarkReady,
         GeneratingIsOpen
<1>3. ASSUME NEW y \in Exports, GenError(y) \/ Expire(y) \/ Age(y)
      PROVE  status' = status
  BY <1>3 DEF GenError, Expire, Age
<1>4. CASE CleanStep \/ CleanupError
  BY <1>4 DEF CleanStep, ListExpired, ListStaleProcessing, CleanupDone, DeleteArchive, MarkExpired,
         FailStale, CleanupError, Failed, Active
<1>5. ASSUME NEW p \in Photos, PhotoReady(p) \/ PhotoDeleted(p)
      PROVE  status' = status
  BY <1>5 DEF PhotoReady, PhotoDeleted
<1>. QED BY <1>1, <1>2, <1>3, <1>4, <1>5 DEF Next, Ended

\* READY ends in EXPIRED alone and EXPIRED in nothing: a generation runs to
\* its end only for an export that is neither, and the others check.
THEOREM EndedForGood == Spec => ReadyOnlyExpires
<1>1. IInv /\ [Next]_vars => [\A x \in Exports :
          /\ status[x] = "ready" => status'[x] \in {"ready", "expired"}
          /\ status[x] = "expired" => status'[x] = "expired"]_status
  BY EndedStays DEF vars
<1>. QED BY <1>1, Invariance, PTL DEF Spec, ReadyOnlyExpires

=============================================================================
