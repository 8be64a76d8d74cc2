------------------------ MODULE UploadAdmissionProofs ------------------------
(***************************************************************************)
(* Proofs about the admission of uploads, for any number of photos,        *)
(* handlers, keys, bodies and faults and for any plan.                     *)
(***************************************************************************)
EXTENDS UploadAdmissionProps, FiniteSetTheorems, TLAPS

\* What a request has at hand at the call it is about to make.
CallComplete ==
    \A r \in Requests :
        /\ op[r] \in {"count", "bytes", "lookup", "rebuild", "store", "insert", "save", "answer"} =>
              call[r].body \in Bodies
        /\ op[r] \in {"rebuild", "insert", "save", "answer", "complete", "note", "mark"} =>
              call[r].photo \in Photos
        /\ op[r] \in {"lookup", "rebuild", "save", "complete", "note"} => call[r].key \in Keys

\* A photo is inserted by the one request that chose its storage key.
InsertIsFresh ==
    \A r \in Requests : op[r] = "insert" =>
        /\ row[call[r].photo] = "none"
        /\ \A s \in Requests \ {r} : call[s].photo # call[r].photo

\* A row has the body it was inserted with.
RowHasBody == \A p \in Photos : row[p] # "none" => body[p] \in Bodies

\* A request that has its photo, inserted or found, has one of its own body,
\* and so does the record of a key.
RequestFits ==
    \A r \in Requests : op[r] \in {"rebuild", "save", "answer"} =>
        row[call[r].photo] # "none" /\ body[call[r].photo] = call[r].body

RecordFits ==
    \A k \in Keys : record[k] # NoRecord =>
        /\ row[record[k].photo] # "none"
        /\ record[k].hash # Completion => body[record[k].photo] = record[k].hash

Counted == {p \in Photos : row[p] \in {"UPLOADING", "PROCESSING"}}

\* Requests that found room in the plan and may yet insert.
Passed == {r \in Requests : op[r] \in {"bytes", "lookup", "store", "insert"}}

\* Each request that found room counted fewer photos than the plan has; it
\* can take one more, and each of the others at most one.
SlotsBounded ==
    MaxPhotos > 0 => Cardinality(Counted) + Cardinality(Passed) < MaxPhotos + Cardinality(Requests)

\* The inductive invariant of types and answers.
FitInv == TypeOK /\ CallComplete /\ InsertIsFresh /\ RowHasBody /\ RequestFits /\ RecordFits

-----------------------------------------------------------------------------
\* Nothing is in flight at first.
LEMMA InitFit == Init => FitInv
  BY AdmissionAssumption DEF Init, FitInv, TypeOK, CallComplete, InsertIsFresh,
     RowHasBody, RequestFits, RecordFits, NoCall

\* A request that ends, while nothing else changes.
LEMMA RespondFit ==
  ASSUME FitInv, NEW r \in Requests, Respond(r), faults' \in 0..MaxFaults,
         UNCHANGED <<open, row, body, madeFor, userBytes, record, opened>>
  PROVE  FitInv'
  <1>1. op' = [op EXCEPT ![r] = "idle"] /\ call' = [call EXCEPT ![r] = NoCall]
    BY DEF Respond
  <1>2. TypeOK'
    BY <1>1 DEF FitInv, TypeOK, NoCall
  <1>3. op'[r] = "idle" /\ call'[r].photo = NoPhoto
    BY <1>1 DEF FitInv, TypeOK, NoCall
  <1>4. \A s \in Requests \ {r} : op'[s] = op[s] /\ call'[s] = call[s]
    BY <1>1 DEF FitInv, TypeOK
  <1>5. CallComplete' /\ RequestFits'
    BY <1>3, <1>4 DEF FitInv, CallComplete, RequestFits
  <1>6. InsertIsFresh'
    BY <1>3, <1>4, AdmissionAssumption DEF FitInv, CallComplete, InsertIsFresh
  <1>7. RowHasBody' /\ RecordFits'
    BY DEF FitInv, RowHasBody, RecordFits
  <1>. QED BY <1>2, <1>5, <1>6, <1>7 DEF FitInv

\* A request that goes on to a call for which it has what it needs.
LEMMA ThenFit ==
  ASSUME FitInv, NEW r \in Requests, NEW next, Then(r, next),
         UNCHANGED <<open, row, body, madeFor, userBytes, record, opened, faults>>,
         <<op[r], next>> \in {<<"count", "bytes">>, <<"bytes", "lookup">>, <<"bytes", "store">>,
                             <<"lookup", "store">>, <<"rebuild", "answer">>,
                             <<"complete", "note">>, <<"complete", "mark">>},
         next = "lookup" => call[r].key \in Keys
  PROVE  FitInv'
  <1>1. op' = [op EXCEPT ![r] = next] /\ call' = call
    BY DEF Then
  <1>2. TypeOK'
    BY <1>1 DEF FitInv, TypeOK
  <1>3. op'[r] = next /\ \A s \in Requests \ {r} : op'[s] = op[s]
    BY <1>1 DEF FitInv, TypeOK
  <1>4. CallComplete' /\ RequestFits' /\ InsertIsFresh'
    BY <1>1, <1>3 DEF FitInv, CallComplete, RequestFits, InsertIsFresh
  <1>5. RowHasBody' /\ RecordFits'
    BY DEF FitInv, RowHasBody, RecordFits
  <1>. QED BY <1>2, <1>4, <1>5 DEF FitInv

\* Steps of Initialize that read and go on, or end the request.
LEMMA ReadStepFit ==
  ASSUME FitInv, NEW r \in Requests,
         InitializeOpen(r) \/ EnforcePhotos(r) \/ EnforceBytes(r) \/ RebuildInit(r) \/ Answer(r)
  PROVE  FitInv'
  <1>1. CASE InitializeOpen(r)
    <2>1. PICK k \in Keys \cup {NoKey}, b \in Bodies :
             call' = [call EXCEPT ![r] = [key |-> k, body |-> b, photo |-> NoPhoto]]
      BY <1>1 DEF InitializeOpen
    <2>2. op' = [op EXCEPT ![r] = "count"] /\ UNCHANGED <<open, row, body, madeFor, userBytes, record, opened, faults>>
      BY <1>1 DEF InitializeOpen
    <2>3. TypeOK'
      BY <2>1, <2>2 DEF FitInv, TypeOK
    <2>4. /\ op'[r] = "count" /\ call'[r].body \in Bodies /\ call'[r].photo = NoPhoto
          /\ \A s \in Requests \ {r} : op'[s] = op[s] /\ call'[s] = call[s]
      BY <2>1, <2>2 DEF FitInv, TypeOK
    <2>5. CallComplete' /\ RequestFits'
      BY <2>2, <2>4 DEF FitInv, CallComplete, RequestFits
    <2>6. InsertIsFresh'
      BY <2>2, <2>4, AdmissionAssumption DEF FitInv, CallComplete, InsertIsFresh
    <2>7. RowHasBody' /\ RecordFits'
      BY <2>2 DEF FitInv, RowHasBody, RecordFits
    <2>. QED BY <2>3, <2>5, <2>6, <2>7 DEF FitInv
  <1>2. CASE EnforcePhotos(r)
    BY <1>2, RespondFit, ThenFit DEF EnforcePhotos, FitInv, TypeOK
  <1>3. CASE EnforceBytes(r)
    <2>1. call[r].key \in Keys \cup {NoKey}
      BY DEF FitInv, TypeOK
    <2>. QED BY <1>3, <2>1, RespondFit, ThenFit DEF EnforceBytes, FitInv, TypeOK
  <1>4. CASE RebuildInit(r)
    BY <1>4, RespondFit, ThenFit DEF RebuildInit, FitInv, TypeOK
  <1>5. CASE Answer(r)
    BY <1>5, RespondFit DEF Answer, FitInv, TypeOK
  <1>. QED BY <1>1, <1>2, <1>3, <1>4, <1>5

\* A key that is found with this hash has a photo of this body, which the
\* request takes over (LookupIdempotency).
LEMMA LookupFit ==
  ASSUME FitInv, NEW r \in Requests, LookupIdempotency(r)
  PROVE  FitInv'
  <1>. USE AdmissionAssumption DEF FitInv
  <1>. DEFINE found == record[call[r].key]
  <1>1. call[r].key \in Keys /\ call[r].body \in Bodies
    BY DEF LookupIdempotency, CallComplete
  <1>2. CASE found = NoRecord
    BY <1>2, ThenFit DEF LookupIdempotency
  <1>3. CASE found # NoRecord /\ found.hash # call[r].body
    BY <1>3, RespondFit DEF LookupIdempotency, TypeOK
  <1>4. CASE found # NoRecord /\ found.hash = call[r].body
    <2>1. /\ found.photo \in Photos
          /\ row[found.photo] # "none" /\ body[found.photo] = call[r].body
      BY <1>1, <1>4 DEF TypeOK, RecordFits
    <2>2. /\ op' = [op EXCEPT ![r] = "rebuild"]
          /\ call' = [call EXCEPT ![r].photo = found.photo]
          /\ UNCHANGED <<open, row, body, madeFor, userBytes, record, opened, faults>>
      BY <1>4 DEF LookupIdempotency
    <2>3. TypeOK'
      BY <2>1, <2>2 DEF TypeOK
    <2>4. CallComplete' /\ RequestFits'
      BY <1>1, <2>1, <2>2 DEF TypeOK, CallComplete, RequestFits
    <2>5. InsertIsFresh'
      BY <2>1, <2>2 DEF TypeOK, InsertIsFresh
    <2>6. RowHasBody' /\ RecordFits'
      BY <2>2 DEF RowHasBody, RecordFits
    <2>. QED BY <2>3, <2>4, <2>5, <2>6
  <1>. QED BY <1>2, <1>3, <1>4

\* The storage key a request chooses is nobody else's (CreateMultipartUpload).
LEMMA StoreFit ==
  ASSUME FitInv, NEW r \in Requests, CreateMultipartUpload(r)
  PROVE  FitInv'
  <1>. USE AdmissionAssumption DEF FitInv
  <1>1. PICK p \in Fresh :
          /\ call' = [call EXCEPT ![r].photo = p]
          /\ opened' = IF call[r].body \in Large THEN opened \cup {p} ELSE opened
    BY DEF CreateMultipartUpload
  <1>2. p \in Photos /\ row[p] = "none" /\ \A s \in Requests : call[s].photo # p
    BY DEF Fresh
  <1>3. TypeOK'
    BY <1>1, <1>2 DEF CreateMultipartUpload, TypeOK
  <1>4. CallComplete' /\ InsertIsFresh'
    BY <1>1, <1>2 DEF CreateMultipartUpload, TypeOK, CallComplete, InsertIsFresh
  <1>5. RowHasBody' /\ RequestFits' /\ RecordFits'
    BY <1>1, <1>2 DEF CreateMultipartUpload, TypeOK, RowHasBody, RequestFits, RecordFits
  <1>. QED BY <1>3, <1>4, <1>5

\* The row is inserted with the body of the request (Create).
LEMMA CreateFit ==
  ASSUME FitInv, NEW r \in Requests, Create(r)
  PROVE  FitInv'
  <1>. USE AdmissionAssumption DEF FitInv
  <1>. DEFINE p == call[r].photo
  <1>1. /\ p \in Photos /\ row[p] = "none" /\ call[r].body \in Bodies
        /\ \A s \in Requests \ {r} : call[s].photo # p
    BY DEF Create, CallComplete, InsertIsFresh
  <1>2. /\ row' = [row EXCEPT ![p] = "UPLOADING"]
        /\ body' = [body EXCEPT ![p] = call[r].body]
        /\ madeFor' = [madeFor EXCEPT ![p] = call[r].key]
        /\ op' = [op EXCEPT ![r] = IF call[r].key = NoKey THEN "answer" ELSE "save"]
        /\ UNCHANGED <<open, userBytes, record, opened, call, faults>>
    BY DEF Create, Then
  <1>3. TypeOK'
    BY <1>1, <1>2 DEF TypeOK
  <1>4. CallComplete' /\ RowHasBody'
    BY <1>1, <1>2 DEF TypeOK, CallComplete, RowHasBody
  <1>5. InsertIsFresh' /\ RequestFits'
    BY <1>1, <1>2 DEF TypeOK, InsertIsFresh, RequestFits, CallComplete
  <1>6. RecordFits'
    BY <1>1, <1>2 DEF TypeOK, RecordFits
  <1>. QED BY <1>3, <1>4, <1>5, <1>6

\* Recording a key, for an Initialize or a Complete.
LEMMA RecordFit ==
  ASSUME FitInv, NEW r \in Requests, SaveIdempotency(r) \/ CompleteSave(r)
  PROVE  FitInv'
  <1>. USE AdmissionAssumption DEF FitInv
  <1>1. PICK hash \in Bodies \cup {Completion} :
          /\ RecordKey(r, hash)
          /\ hash # Completion => hash = call[r].body /\ op[r] = "save"
    BY DEF SaveIdempotency, CompleteSave, CallComplete
  <1>2. call[r].photo \in Photos /\ call[r].key \in Keys
    BY DEF SaveIdempotency, CompleteSave, CallComplete
  <1>3. /\ UNCHANGED <<open, row, body, madeFor, userBytes, opened, faults>>
        /\ \/ op' = [op EXCEPT ![r] = "answer"] /\ op[r] = "save" /\ UNCHANGED call
           \/ op' = [op EXCEPT ![r] = "mark"] /\ op[r] = "note" /\ UNCHANGED call
           \/ Respond(r)
    BY DEF SaveIdempotency, CompleteSave, Then
  <1>4. TypeOK'
    BY <1>1, <1>2, <1>3 DEF RecordKey, Respond, NoCall, TypeOK
  <1>5. CallComplete' /\ InsertIsFresh' /\ RequestFits'
    <2>1. \A s \in Requests \ {r} : op'[s] = op[s] /\ call'[s] = call[s]
      BY <1>3 DEF Respond, TypeOK
    <2>2. CASE op'[r] = "idle" /\ call'[r].photo = NoPhoto
      <3>1. CallComplete' /\ RequestFits'
        BY <1>3, <2>1, <2>2 DEF CallComplete, RequestFits
      <3>2. InsertIsFresh'
        BY <1>3, <2>1, <2>2 DEF CallComplete, InsertIsFresh
      <3>. QED BY <3>1, <3>2
    <2>3. CASE op'[r] = "answer" /\ op[r] = "save" /\ call' = call
      BY <1>3, <2>1, <2>3 DEF CallComplete, InsertIsFresh, RequestFits
    <2>4. CASE op'[r] = "mark" /\ op[r] = "note" /\ call' = call
      BY <1>3, <2>1, <2>4 DEF CallComplete, InsertIsFresh, RequestFits
    <2>. QED BY <1>3, <2>2, <2>3, <2>4 DEF Respond, NoCall, TypeOK
  <1>6. RecordFits'
    BY <1>1, <1>2, <1>3 DEF RecordKey, Rows, TypeOK, RecordFits, RequestFits
  <1>7. RowHasBody'
    BY <1>3 DEF RowHasBody
  <1>. QED BY <1>4, <1>5, <1>6, <1>7

\* The calls of Complete, and a request that fails at any call.
LEMMA CompleteStepFit ==
  ASSUME FitInv, NEW r \in Requests,
         CompleteLookup(r) \/ MarkProcessing(r) \/ RequestFails(r) \/ \E p \in Photos : CompleteRead(r, p)
  PROVE  FitInv'
  <1>. USE AdmissionAssumption DEF FitInv
  <1>1. CASE CompleteLookup(r)
    BY <1>1, RespondFit, ThenFit DEF CompleteLookup, TypeOK
  <1>2. CASE MarkProcessing(r)
    <2>1. call[r].photo \in Photos
      BY <1>2 DEF MarkProcessing, CallComplete
    <2>2. TypeOK'
      BY <1>2, <2>1 DEF MarkProcessing, Respond, NoCall, TypeOK, RowHasBody
    <2>3. CallComplete' /\ InsertIsFresh' /\ RowHasBody' /\ RequestFits' /\ RecordFits'
      BY <1>2, <2>1 DEF MarkProcessing, Respond, NoCall, TypeOK, CallComplete, InsertIsFresh, RowHasBody, RequestFits, RecordFits
    <2>. QED BY <2>2, <2>3
  <1>3. CASE RequestFails(r)
    BY <1>3, RespondFit DEF RequestFails, TypeOK
  <1>4. ASSUME NEW p \in Photos, CompleteRead(r, p) PROVE FitInv'
    BY <1>4 DEF CompleteRead, Rows, TypeOK, CallComplete, InsertIsFresh, RowHasBody, RequestFits, RecordFits
  <1>. QED BY <1>1, <1>2, <1>3, <1>4

\* What happens to a photo beside the requests: a row that is deleted takes
\* the records of its keys along, and keeps its body in the model.
LEMMA PhotoStepFit ==
  ASSUME FitInv, NEW p \in Photos,
         CompleteMultipart(p) \/ FailStale(p) \/ DeleteOwned(p)
  PROVE  FitInv'
  <1>. USE AdmissionAssumption DEF FitInv
  <1>1. CASE CompleteMultipart(p)
    BY <1>1 DEF CompleteMultipart, TypeOK, CallComplete, InsertIsFresh, RowHasBody, RequestFits, RecordFits
  <1>2. CASE FailStale(p)
    BY <1>2 DEF FailStale, TypeOK, CallComplete, InsertIsFresh, RowHasBody, RequestFits, RecordFits
  <1>3. CASE DeleteOwned(p)
    <2>1. row[p] # "none" /\ body[p] \in Bodies
      BY <1>3 DEF DeleteOwned, Rows, RowHasBody
    <2>2. userBytes' \in Nat
      BY <1>3, <2>1 DEF DeleteOwned, AtLeastZero, TypeOK
    <2>3. TypeOK'
      BY <1>3, <2>2 DEF DeleteOwned, TypeOK
    <2>4. CallComplete' /\ InsertIsFresh' /\ RowHasBody' /\ RequestFits' /\ RecordFits'
      BY <1>3, <2>1 DEF DeleteOwned, TypeOK, CallComplete, InsertIsFresh, RowHasBody, RequestFits, RecordFits
    <2>. QED BY <2>3, <2>4
  <1>. QED BY <1>1, <1>2, <1>3

\* Every step keeps the invariant.
LEMMA NextFit == FitInv /\ [Next]_vars => FitInv'
  <1>. SUFFICES ASSUME FitInv, [Next]_vars PROVE FitInv'
    OBVIOUS
  <1>1. CASE CloseEvent
    BY <1>1 DEF CloseEvent, FitInv, TypeOK, CallComplete, InsertIsFresh, RowHasBody, RequestFits, RecordFits
  <1>2. CASE UNCHANGED vars
    BY <1>2 DEF vars, FitInv, TypeOK, CallComplete, InsertIsFresh, RowHasBody, RequestFits, RecordFits
  <1>. QED
    BY <1>1, <1>2, ReadStepFit, LookupFit, StoreFit, CreateFit, RecordFit, CompleteStepFit, PhotoStepFit DEF Next

\* The type invariant of the admission of uploads.
THEOREM TypeCorrect == Spec => []TypeOK
  <1>1. FitInv => TypeOK
    BY DEF FitInv
  <1>. QED BY InitFit, NextFit, <1>1, PTL DEF Spec

\* Initialize answers with a photo of the body it was called with, whatever
\* requests use its key at once (LookupIdempotency, SaveIdempotency).
THEOREM AnswersFit == Spec => []AnsweredPhotoFits
  <1>1. FitInv => AnsweredPhotoFits
    BY DEF FitInv, RequestFits, AnsweredPhotoFits
  <1>. QED BY InitFit, NextFit, <1>1, PTL DEF Spec

-----------------------------------------------------------------------------
\* The sets that SlotsBounded counts are finite.
LEMMA SlotsFinite ==
  /\ IsFiniteSet(Counted) /\ Cardinality(Counted) \in Nat
  /\ IsFiniteSet(Passed) /\ Cardinality(Passed) \in Nat
  /\ Cardinality(Passed) <= Cardinality(Requests)
  /\ Cardinality(Requests) \in Nat
  <1>1. Counted \in SUBSET Photos /\ Passed \in SUBSET Requests
    BY DEF Counted, Passed
  <1>2. IsFiniteSet(Counted) /\ IsFiniteSet(Passed)
    BY <1>1, AdmissionAssumption, FS_Subset
  <1>. QED BY <1>1, <1>2, AdmissionAssumption, FS_Subset, FS_CardinalityType

\* The same of the next state, for any step.
LEMMA SlotsFiniteNext ==
  /\ IsFiniteSet(Counted') /\ Cardinality(Counted') \in Nat
  /\ IsFiniteSet(Passed') /\ Cardinality(Passed') \in Nat
  /\ Cardinality(Passed') <= Cardinality(Requests)
  <1>1. Counted' \in SUBSET Photos /\ Passed' \in SUBSET Requests
    BY DEF Counted, Passed
  <1>2. IsFiniteSet(Counted') /\ IsFiniteSet(Passed')
    BY <1>1, AdmissionAssumption, FS_Subset
  <1>. QED BY <1>1, <1>2, AdmissionAssumption, FS_Subset, FS_CardinalityType

\* A step that counts no further photo and admits no further request keeps
\* the bound.
LEMMA SlotsShrink ==
  ASSUME SlotsBounded, Counted' \subseteq Counted, Passed' \subseteq Passed
  PROVE  SlotsBounded'
  <1>1. Cardinality(Counted') <= Cardinality(Counted)
    BY SlotsFinite, FS_Subset
  <1>2. Cardinality(Passed') <= Cardinality(Passed)
    BY SlotsFinite, FS_Subset
  <1>. QED BY <1>1, <1>2, SlotsFinite, SlotsFiniteNext, AdmissionAssumption DEF SlotsBounded

\* The check of the plan admits a request only while fewer photos than the
\* limit count (EnforcePhotos).
LEMMA EnforceSlots ==
  ASSUME FitInv, SlotsBounded, NEW r \in Requests, EnforcePhotos(r)
  PROVE  SlotsBounded'
  <1>1. CASE MaxPhotos > 0 /\ CountByEvent >= MaxPhotos
    <2>1. op' = [op EXCEPT ![r] = "idle"] /\ row' = row
      BY <1>1 DEF EnforcePhotos, Respond
    <2>2. Passed' \subseteq Passed /\ Counted' = Counted
      BY <2>1 DEF Passed, Counted, FitInv, TypeOK
    <2>. QED BY <2>2, SlotsShrink
  <1>2. CASE ~(MaxPhotos > 0 /\ CountByEvent >= MaxPhotos)
    <2>1. Counted' = Counted /\ CountByEvent = Cardinality(Counted)
      BY DEF EnforcePhotos, Counted, CountByEvent
    <2>2. MaxPhotos > 0 => Cardinality(Counted') < MaxPhotos
      BY <1>2, <2>1, SlotsFinite, AdmissionAssumption
    <2>. QED BY <2>2, SlotsFinite, SlotsFiniteNext, AdmissionAssumption DEF SlotsBounded
  <1>. QED BY <1>1, <1>2

\* An insert turns a request that was admitted into a photo that counts
\* (Create).
LEMMA CreateSlots ==
  ASSUME FitInv, SlotsBounded, NEW r \in Requests, Create(r)
  PROVE  SlotsBounded'
  <1>. DEFINE p == call[r].photo
  <1>1. /\ p \in Photos /\ row[p] = "none"
        /\ row' = [row EXCEPT ![p] = "UPLOADING"]
        /\ op' = [op EXCEPT ![r] = IF call[r].key = NoKey THEN "answer" ELSE "save"]
        /\ op[r] = "insert"
    BY DEF Create, Then, FitInv, CallComplete, InsertIsFresh
  <1>2. Counted' = Counted \cup {p} /\ p \notin Counted
    BY <1>1 DEF Counted, FitInv, TypeOK
  <1>3. Passed' = Passed \ {r} /\ r \in Passed
    BY <1>1 DEF Passed, FitInv, TypeOK
  <1>4. Cardinality(Counted') = Cardinality(Counted) + 1
    BY <1>2, SlotsFinite, FS_AddElement
  <1>5. Cardinality(Passed') = Cardinality(Passed) - 1
    BY <1>3, SlotsFinite, FS_RemoveElement
  <1>. QED BY <1>4, <1>5, SlotsFinite, SlotsFiniteNext, AdmissionAssumption DEF SlotsBounded

\* Every other step of a request.
LEMMA RequestSlots ==
  ASSUME FitInv, SlotsBounded, NEW r \in Requests,
         \/ InitializeOpen(r) \/ EnforceBytes(r) \/ LookupIdempotency(r) \/ RebuildInit(r)
         \/ CreateMultipartUpload(r) \/ SaveIdempotency(r) \/ Answer(r)
         \/ CompleteLookup(r) \/ CompleteSave(r) \/ MarkProcessing(r) \/ RequestFails(r)
         \/ \E p \in Photos : CompleteRead(r, p)
  PROVE  SlotsBounded'
  <1>1. \A s \in Requests \ {r} : op'[s] = op[s]
    BY DEF InitializeOpen, EnforceBytes, LookupIdempotency, RebuildInit, CreateMultipartUpload,
       SaveIdempotency, Answer, CompleteLookup, CompleteSave, MarkProcessing, RequestFails,
       CompleteRead, Then, Respond, FitInv, TypeOK
  <1>2. op'[r] \in {"bytes", "lookup", "store", "insert"} => op[r] \in {"bytes", "lookup", "store", "insert"}
    BY DEF InitializeOpen, EnforceBytes, LookupIdempotency, RebuildInit, CreateMultipartUpload,
       SaveIdempotency, Answer, CompleteLookup, CompleteSave, MarkProcessing, RequestFails,
       CompleteRead, Then, Respond, FitInv, TypeOK
  <1>3. Passed' \subseteq Passed
    BY <1>1, <1>2 DEF Passed
  <1>4. \/ row' = row
        \/ row[call[r].photo] = "UPLOADING" /\ row' = [row EXCEPT ![call[r].photo] = "PROCESSING"]
    BY DEF InitializeOpen, EnforceBytes, LookupIdempotency, RebuildInit, CreateMultipartUpload,
       SaveIdempotency, Answer, CompleteLookup, CompleteSave, MarkProcessing, RequestFails,
       CompleteRead
  <1>5. Counted' \subseteq Counted
    BY <1>4 DEF Counted, FitInv, TypeOK
  <1>. QED BY <1>3, <1>5, SlotsShrink

\* The sweep and the delete of a photo, the end of a multipart upload and
\* the end of the event admit nothing.
LEMMA OtherSlots ==
  ASSUME FitInv, SlotsBounded,
         \/ \E p \in Photos : CompleteMultipart(p) \/ FailStale(p) \/ DeleteOwned(p)
         \/ CloseEvent \/ UNCHANGED vars
  PROVE  SlotsBounded'
  <1>1. op' = op
    BY DEF CompleteMultipart, FailStale, DeleteOwned, CloseEvent, vars
  <1>2. \/ row' = row
        \/ \E p \in Photos : \/ row' = [row EXCEPT ![p] = "FAILED"]
                             \/ row' = [row EXCEPT ![p] = "gone"]
    BY DEF CompleteMultipart, FailStale, DeleteOwned, CloseEvent, vars
  <1>3. Counted' \subseteq Counted
    BY <1>2 DEF Counted, FitInv, TypeOK
  <1>4. Passed' \subseteq Passed
    BY <1>1 DEF Passed
  <1>. QED BY <1>3, <1>4, SlotsShrink

\* Every step keeps the bound.
LEMMA NextSlots == FitInv /\ SlotsBounded /\ [Next]_vars => SlotsBounded'
  <1>. SUFFICES ASSUME FitInv, SlotsBounded, [Next]_vars PROVE SlotsBounded'
    OBVIOUS
  <1>. QED BY EnforceSlots, CreateSlots, RequestSlots, OtherSlots DEF Next

\* Nothing counts and nobody is admitted at first.
LEMMA InitSlots == Init => SlotsBounded
  <1>. SUFFICES ASSUME Init, MaxPhotos > 0
                PROVE  Cardinality(Counted) + Cardinality(Passed) < MaxPhotos + Cardinality(Requests)
    BY DEF SlotsBounded
  <1>1. Counted = {} /\ Passed = {}
    BY DEF Init, Counted, Passed
  <1>. QED BY <1>1, FS_EmptySet, SlotsFinite, AdmissionAssumption

\* The plan's photos per event are never exceeded by as many photos as there
\* are handlers (Initialize: the check and the insert are two statements).
THEOREM Overshoot == Spec => []OvershootBounded
  <1>1. SlotsBounded => OvershootBounded
    BY SlotsFinite, AdmissionAssumption DEF SlotsBounded, OvershootBounded, CountByEvent, Counted
  <1>. QED BY InitFit, NextFit, InitSlots, NextSlots, <1>1, PTL DEF Spec

-----------------------------------------------------------------------------
(* The photos that are made under one key.                                 *)

\* Requests that did not find the key on record and may yet insert.
Making(k) == {r \in Requests : op[r] \in {"store", "insert"} /\ call[r].key = k}

\* Requests that are about to record the key for a photo that is there.
Saving(k) == {r \in Requests : op[r] = "save" /\ call[r].key = k /\ call[r].photo \in Rows}

Budget == Cardinality(Requests) * (1 + Cardinality(Deleted)) + faults

\* While a key is not on record, each of its photos beyond what deletes and
\* failures account for has a request that is about to record it; once it is
\* on record, only the requests that looked it up before can add to them.
KeyBudget ==
    \A k \in Keys :
        /\ record[k] = NoRecord =>
              Cardinality(MadeUnder(k)) + Cardinality(Requests) <= Budget + Cardinality(Saving(k))
        /\ Cardinality(MadeUnder(k)) + Cardinality(Making(k)) <= Budget

\* Two disjoint sets of requests are together no more than all of them.
LEMMA DisjointRequests ==
  ASSUME NEW S, NEW T, S \subseteq Requests, T \subseteq Requests, S \cap T = {}
  PROVE  Cardinality(S) + Cardinality(T) <= Cardinality(Requests)
  <1>1. IsFiniteSet(S) /\ IsFiniteSet(T) /\ IsFiniteSet(S \cup T)
    BY AdmissionAssumption, FS_Subset, FS_Union
  <1>2. Cardinality(S \cup T) <= Cardinality(Requests)
    BY AdmissionAssumption, FS_Subset
  <1>3. Cardinality(S \cap T) = 0
    BY FS_EmptySet
  <1>4. Cardinality(S \cup T) = Cardinality(S) + Cardinality(T) - Cardinality(S \cap T)
    BY <1>1, FS_Union
  <1>5. Cardinality(S) \in Nat /\ Cardinality(T) \in Nat
    BY <1>1, FS_CardinalityType
  <1>. QED BY <1>2, <1>3, <1>4, <1>5

\* What is counted is finite.
LEMMA BudgetFinite ==
  ASSUME NEW k \in Keys, faults \in 0..MaxFaults
  PROVE  /\ IsFiniteSet(MadeUnder(k)) /\ Cardinality(MadeUnder(k)) \in Nat
         /\ IsFiniteSet(Making(k)) /\ Cardinality(Making(k)) \in Nat
         /\ IsFiniteSet(Saving(k)) /\ Cardinality(Saving(k)) \in Nat
         /\ IsFiniteSet(Deleted) /\ Cardinality(Deleted) \in Nat
         /\ Cardinality(Making(k)) + Cardinality(Saving(k)) <= Cardinality(Requests)
         /\ Cardinality(Requests) \in Nat /\ Budget \in Nat
  <1>1. /\ MadeUnder(k) \in SUBSET Photos /\ Deleted \in SUBSET Photos
        /\ Making(k) \in SUBSET Requests /\ Saving(k) \in SUBSET Requests
    BY DEF MadeUnder, Deleted, Making, Saving
  <1>2. IsFiniteSet(MadeUnder(k)) /\ IsFiniteSet(Deleted) /\ IsFiniteSet(Making(k)) /\ IsFiniteSet(Saving(k))
    BY <1>1, AdmissionAssumption, FS_Subset
  <1>3. /\ Cardinality(MadeUnder(k)) \in Nat /\ Cardinality(Deleted) \in Nat /\ Cardinality(Making(k)) \in Nat
        /\ Cardinality(Saving(k)) \in Nat /\ Cardinality(Requests) \in Nat
    BY <1>2, AdmissionAssumption, FS_CardinalityType
  <1>4. Making(k) \cap Saving(k) = {}
    BY DEF Making, Saving
  <1>5. Cardinality(Making(k)) + Cardinality(Saving(k)) <= Cardinality(Requests)
    BY <1>1, <1>4, DisjointRequests
  <1>6. Budget \in Nat
    <2>. DEFINE d == 1 + Cardinality(Deleted)
                n == Cardinality(Requests)
    <2>1. n \in Nat /\ d \in Nat /\ faults \in Nat
      BY <1>3, AdmissionAssumption
    <2>. HIDE DEF d, n
    <2>2. n * d \in Nat
      BY <2>1
    <2>3. n * d + faults \in Nat
      BY <2>1, <2>2
    <2>. QED BY <2>3 DEF Budget, d, n
  <1>. QED BY <1>2, <1>3, <1>5, <1>6

\* The same of the next state, for any step.
LEMMA BudgetFiniteNext ==
  ASSUME NEW k \in Keys
  PROVE  /\ IsFiniteSet(MadeUnder(k)') /\ Cardinality(MadeUnder(k)') \in Nat
         /\ IsFiniteSet(Making(k)') /\ Cardinality(Making(k)') \in Nat
         /\ IsFiniteSet(Saving(k)') /\ Cardinality(Saving(k)') \in Nat
         /\ IsFiniteSet(Deleted') /\ Cardinality(Deleted') \in Nat
  <1>1. /\ MadeUnder(k)' \in SUBSET Photos /\ Deleted' \in SUBSET Photos
        /\ Making(k)' \in SUBSET Requests /\ Saving(k)' \in SUBSET Requests
    BY DEF MadeUnder, Deleted, Making, Saving
  <1>2. IsFiniteSet(MadeUnder(k)') /\ IsFiniteSet(Deleted') /\ IsFiniteSet(Making(k)') /\ IsFiniteSet(Saving(k)')
    BY <1>1, AdmissionAssumption, FS_Subset
  <1>. QED BY <1>2, FS_CardinalityType

\* A step that makes no photo, lets no request make one and loses no request
\* that was to record a key, unless the key is on record by then.
LEMMA QuietBudget ==
  ASSUME FitInv, KeyBudget, UNCHANGED <<row, madeFor, faults>>,
         \A k \in Keys : Making(k)' \subseteq Making(k) \/ (record[k] = NoRecord /\ Making(k)' \cap Saving(k) = {}),
         \A k \in Keys : record'[k] = NoRecord => record[k] = NoRecord /\ Saving(k) \subseteq Saving(k)'
  PROVE  KeyBudget'
  <1>. SUFFICES ASSUME NEW k \in Keys
       PROVE  /\ record'[k] = NoRecord =>
                   Cardinality(MadeUnder(k)') + Cardinality(Requests) <= Budget' + Cardinality(Saving(k)')
              /\ Cardinality(MadeUnder(k)') + Cardinality(Making(k)') <= Budget'
    BY DEF KeyBudget
  <1>1. MadeUnder(k)' = MadeUnder(k) /\ Budget' = Budget
    BY DEF MadeUnder, Budget, Deleted
  <1>2. faults \in 0..MaxFaults
    BY DEF FitInv, TypeOK
  <1>3. record'[k] = NoRecord =>
          Cardinality(MadeUnder(k)') + Cardinality(Requests) <= Budget' + Cardinality(Saving(k)')
    <2>. SUFFICES ASSUME record'[k] = NoRecord
         PROVE  Cardinality(MadeUnder(k)') + Cardinality(Requests) <= Budget' + Cardinality(Saving(k)')
      OBVIOUS
    <2>1. record[k] = NoRecord /\ Cardinality(Saving(k)) <= Cardinality(Saving(k)')
      BY BudgetFiniteNext, FS_Subset
    <2>. QED BY <1>1, <1>2, <2>1, BudgetFinite, BudgetFiniteNext DEF KeyBudget
  <1>4. Cardinality(MadeUnder(k)') + Cardinality(Making(k)') <= Budget'
    <2>1. CASE Making(k)' \subseteq Making(k)
      <3>1. Cardinality(Making(k)') <= Cardinality(Making(k))
        BY <1>2, <2>1, BudgetFinite, FS_Subset
      <3>. QED BY <1>1, <1>2, <3>1, BudgetFinite, BudgetFiniteNext DEF KeyBudget
    <2>2. CASE record[k] = NoRecord /\ Making(k)' \cap Saving(k) = {}
      <3>1. Making(k)' \subseteq Requests /\ Saving(k) \subseteq Requests
        BY DEF Making, Saving
      <3>2. Cardinality(Making(k)') + Cardinality(Saving(k)) <= Cardinality(Requests)
        BY <2>2, <3>1, DisjointRequests
      <3>. QED BY <1>1, <1>2, <2>2, <3>2, BudgetFinite, BudgetFiniteNext DEF KeyBudget
    <2>. QED BY <2>1, <2>2
  <1>. QED BY <1>3, <1>4

\* A lookup lets its request make a photo only where the key is not on record
\* (LookupIdempotency); every other call but the insert, the records and a
\* failure is quiet.
LEMMA CallBudget ==
  ASSUME FitInv, KeyBudget, NEW r \in Requests,
         \/ InitializeOpen(r) \/ EnforcePhotos(r) \/ EnforceBytes(r) \/ LookupIdempotency(r) \/ RebuildInit(r)
         \/ CreateMultipartUpload(r) \/ Answer(r) \/ CompleteLookup(r) \/ \E p \in Photos : CompleteRead(r, p)
  PROVE  KeyBudget'
  <1>1. UNCHANGED <<row, madeFor, faults, record>> /\ op[r] # "save"
    BY DEF InitializeOpen, EnforcePhotos, EnforceBytes, LookupIdempotency, RebuildInit,
       CreateMultipartUpload, Answer, CompleteLookup, CompleteRead
  <1>2. \A s \in Requests \ {r} : op'[s] = op[s] /\ call'[s] = call[s]
    BY DEF InitializeOpen, EnforcePhotos, EnforceBytes, LookupIdempotency, RebuildInit,
       CreateMultipartUpload, Answer, CompleteLookup, CompleteRead, Then, Respond, FitInv, TypeOK
  <1>3. \A k \in Keys : Saving(k) \subseteq Saving(k)'
    BY <1>1, <1>2 DEF Saving, Rows
  <1>4. op'[r] \in {"store", "insert"} =>
          /\ call'[r].key = call[r].key
          /\ op[r] \in {"bytes", "lookup", "store"}
          /\ op[r] = "bytes" => call[r].key = NoKey
          /\ op[r] = "lookup" => record[call[r].key] = NoRecord
    BY DEF InitializeOpen, EnforcePhotos, EnforceBytes, LookupIdempotency, RebuildInit,
       CreateMultipartUpload, Answer, CompleteLookup, CompleteRead, Then, Respond, FitInv, TypeOK
  <1>5. ASSUME NEW k \in Keys
        PROVE  Making(k)' \subseteq Making(k) \/ (record[k] = NoRecord /\ Making(k)' \cap Saving(k) = {})
    <2>1. CASE op'[r] \in {"store", "insert"} /\ op[r] = "lookup" /\ call[r].key = k
      <3>1. record[k] = NoRecord
        BY <1>4, <2>1
      <3>. QED BY <1>1, <1>2, <3>1 DEF Making, Saving
    <2>2. CASE ~(op'[r] \in {"store", "insert"} /\ op[r] = "lookup" /\ call[r].key = k)
      <3>1. r \in Making(k)' => r \in Making(k)
        BY <1>4, <2>2, <1>5, AdmissionAssumption DEF Making
      <3>. QED BY <1>2, <3>1 DEF Making
    <2>. QED BY <2>1, <2>2
  <1>. QED BY <1>1, <1>3, <1>5, QuietBudget

\* A record that is made uses up the request that makes it; one that is not,
\* because the photo is gone, was not counted on (SaveIdempotency).
LEMMA RecordBudget ==
  ASSUME FitInv, KeyBudget, NEW r \in Requests, SaveIdempotency(r) \/ CompleteSave(r)
  PROVE  KeyBudget'
  <1>1. UNCHANGED <<row, madeFor, faults>> /\ op'[r] \notin {"store", "insert"}
    BY DEF SaveIdempotency, CompleteSave, Then, Respond, FitInv, TypeOK
  <1>2. \A s \in Requests \ {r} : op'[s] = op[s] /\ call'[s] = call[s]
    BY DEF SaveIdempotency, CompleteSave, Then, Respond, FitInv, TypeOK
  <1>3. PICK hash \in Bodies \cup {Completion} : RecordKey(r, hash)
    BY DEF SaveIdempotency, CompleteSave, FitInv, CallComplete
  <1>4. call[r].key \in Keys /\ call[r].photo \in Photos
    BY DEF SaveIdempotency, CompleteSave, FitInv, CallComplete
  <1>5. ASSUME NEW k \in Keys, record'[k] = NoRecord
        PROVE  record[k] = NoRecord /\ Saving(k) \subseteq Saving(k)'
    <2>1. record[k] = NoRecord
      BY <1>3, <1>4, <1>5, AdmissionAssumption DEF RecordKey, FitInv, TypeOK
    <2>2. k = call[r].key => call[r].photo \notin Rows
      BY <1>3, <1>4, <1>5, <2>1, AdmissionAssumption DEF RecordKey, FitInv, TypeOK
    <2>3. r \notin Saving(k)
      BY <2>2 DEF Saving
    <2>. QED BY <1>1, <1>2, <2>1, <2>3 DEF Saving, Rows
  <1>6. \A k \in Keys : Making(k)' \subseteq Making(k)
    BY <1>1, <1>2 DEF Making
  <1>7. \A k \in Keys : record'[k] = NoRecord => record[k] = NoRecord /\ Saving(k) \subseteq Saving(k)'
    BY <1>5
  <1>. QED BY <1>1, <1>6, <1>7, QuietBudget

\* Rows that move but stay leave every count as it is.
LEMMA MoveBudget ==
  ASSUME FitInv, KeyBudget,
         \/ \E r \in Requests : MarkProcessing(r)
         \/ \E p \in Photos : CompleteMultipart(p) \/ FailStale(p)
         \/ CloseEvent \/ UNCHANGED vars
  PROVE  KeyBudget'
  <1>1. UNCHANGED <<madeFor, faults, record>>
    BY DEF MarkProcessing, CompleteMultipart, FailStale, CloseEvent, vars
  <1>2. Deleted' = Deleted /\ Rows' = Rows
    BY DEF MarkProcessing, CompleteMultipart, FailStale, CloseEvent, vars, Deleted, Rows, FitInv, TypeOK
  <1>3. \A s \in Requests : op'[s] \in {"store", "insert", "save"} \/ op[s] \in {"store", "insert", "save"}
           => op'[s] = op[s] /\ call'[s] = call[s]
    BY DEF MarkProcessing, CompleteMultipart, FailStale, CloseEvent, vars, Respond, FitInv, TypeOK
  <1>4. \A k \in Keys : /\ MadeUnder(k)' = MadeUnder(k) /\ Making(k)' = Making(k) /\ Saving(k)' = Saving(k)
                        /\ record'[k] = record[k]
    BY <1>1, <1>2, <1>3 DEF MadeUnder, Making, Saving
  <1>5. Budget' = Budget
    BY <1>1, <1>2 DEF Budget
  <1>. QED BY <1>4, <1>5 DEF KeyBudget

\* An insert turns a request that may make a photo into one that has it and is
\* about to record the key (Create).
LEMMA CreateBudget ==
  ASSUME FitInv, KeyBudget, NEW r \in Requests, Create(r)
  PROVE  KeyBudget'
  <1>. DEFINE p == call[r].photo
  <1>1. /\ p \in Photos /\ row[p] = "none" /\ op[r] = "insert"
        /\ \A s \in Requests \ {r} : call[s].photo # p
    BY DEF Create, FitInv, CallComplete, InsertIsFresh
  <1>2. /\ row' = [row EXCEPT ![p] = "UPLOADING"] /\ madeFor' = [madeFor EXCEPT ![p] = call[r].key]
        /\ op' = [op EXCEPT ![r] = IF call[r].key = NoKey THEN "answer" ELSE "save"]
        /\ UNCHANGED <<call, record, faults>>
    BY DEF Create, Then
  <1>3. Deleted' = Deleted /\ Budget' = Budget
    BY <1>1, <1>2 DEF Deleted, Budget, FitInv, TypeOK
  <1>4. p \in Rows' /\ \A q \in Photos \ {p} : q \in Rows' <=> q \in Rows
    BY <1>1, <1>2 DEF Rows, FitInv, TypeOK
  <1>5. faults \in 0..MaxFaults
    BY DEF FitInv, TypeOK
  <1>. SUFFICES ASSUME NEW k \in Keys
       PROVE  /\ record'[k] = NoRecord =>
                   Cardinality(MadeUnder(k)') + Cardinality(Requests) <= Budget' + Cardinality(Saving(k)')
              /\ Cardinality(MadeUnder(k)') + Cardinality(Making(k)') <= Budget'
    BY DEF KeyBudget
  <1>6. CASE k = call[r].key
    <2>1. MadeUnder(k)' = MadeUnder(k) \cup {p}
      BY <1>1, <1>2, <1>6 DEF MadeUnder, FitInv, TypeOK
    <2>2. Making(k)' = Making(k) \ {r} /\ r \in Making(k)
      BY <1>1, <1>2, <1>6 DEF Making, FitInv, TypeOK
    <2>3. Saving(k)' = Saving(k) \cup {r} /\ r \notin Saving(k)
      <3>1. op'[r] = "save" /\ k # NoKey
        BY <1>2, <1>6, AdmissionAssumption DEF FitInv, TypeOK
      <3>2. \A s \in Requests \ {r} : s \in Saving(k)' <=> s \in Saving(k)
        BY <1>1, <1>2, <1>4 DEF Saving, Rows, FitInv, TypeOK
      <3>3. r \in Saving(k)' /\ r \notin Saving(k)
        BY <1>1, <1>2, <1>4, <1>6, <3>1 DEF Saving
      <3>. QED BY <3>2, <3>3 DEF Saving
    <2>4. Cardinality(MadeUnder(k)') <= Cardinality(MadeUnder(k)) + 1
      <3>1. IsFiniteSet(MadeUnder(k)) /\ Cardinality(MadeUnder(k)) \in Nat
        BY <1>5, BudgetFinite
      <3>. DEFINE S == MadeUnder(k)
      <3>2. Cardinality(S \cup {p}) \in {Cardinality(S), Cardinality(S) + 1}
        <4>. HIDE DEF S, p
        <4>. QED BY <3>1, FS_AddElement DEF S
      <3>. QED BY <2>1, <3>1, <3>2
    <2>5. Cardinality(Making(k)') = Cardinality(Making(k)) - 1
      BY <1>5, <2>2, BudgetFinite, FS_RemoveElement
    <2>6. Cardinality(Saving(k)') = Cardinality(Saving(k)) + 1
      BY <1>5, <2>3, BudgetFinite, FS_AddElement
    <2>. QED BY <1>2, <1>3, <1>5, <2>4, <2>5, <2>6, BudgetFinite, BudgetFiniteNext DEF KeyBudget
  <1>7. CASE k # call[r].key
    <2>1. MadeUnder(k)' \subseteq MadeUnder(k)
      BY <1>1, <1>2, <1>7 DEF MadeUnder, FitInv, TypeOK
    <2>2. Making(k)' = Making(k) /\ Saving(k)' = Saving(k)
      BY <1>1, <1>2, <1>4, <1>7 DEF Making, Saving, Rows, FitInv, TypeOK
    <2>3. Cardinality(MadeUnder(k)') <= Cardinality(MadeUnder(k))
      BY <1>5, <2>1, BudgetFinite, FS_Subset
    <2>. QED BY <1>2, <1>3, <1>5, <2>2, <2>3, BudgetFinite, BudgetFiniteNext DEF KeyBudget
  <1>. QED BY <1>6, <1>7

\* A failure leaves at most the one photo of its request without a record.
LEMMA FailsBudget ==
  ASSUME FitInv, KeyBudget, NEW r \in Requests, RequestFails(r)
  PROVE  KeyBudget'
  <1>1. /\ UNCHANGED <<row, madeFor, record>> /\ faults' = faults + 1
        /\ op' = [op EXCEPT ![r] = "idle"] /\ call' = [call EXCEPT ![r] = NoCall]
    BY DEF RequestFails, Respond
  <1>2. faults \in 0..MaxFaults /\ Cardinality(Requests) \in Nat /\ Cardinality(Deleted) \in Nat
    BY AdmissionAssumption, FS_CardinalityType, FS_Subset DEF FitInv, TypeOK, Deleted
  <1>3. Budget' = Budget + 1
    <2>. DEFINE n == Cardinality(Requests) * (1 + Cardinality(Deleted))
    <2>1. n \in Int
      BY <1>2
    <2>2. Budget = n + faults /\ Budget' = n + faults'
      BY <1>1 DEF Budget, Deleted
    <2>. HIDE DEF n
    <2>. QED BY <1>1, <1>2, <2>1, <2>2, AdmissionAssumption
  <1>. SUFFICES ASSUME NEW k \in Keys
       PROVE  /\ record'[k] = NoRecord =>
                   Cardinality(MadeUnder(k)') + Cardinality(Requests) <= Budget' + Cardinality(Saving(k)')
              /\ Cardinality(MadeUnder(k)') + Cardinality(Making(k)') <= Budget'
    BY DEF KeyBudget
  <1>4. MadeUnder(k)' = MadeUnder(k)
    BY <1>1 DEF MadeUnder
  <1>5. Saving(k)' = Saving(k) \ {r} /\ Making(k)' \subseteq Making(k)
    BY <1>1 DEF Saving, Making, Rows, FitInv, TypeOK
  <1>6. Cardinality(Saving(k)) <= Cardinality(Saving(k)') + 1
    <2>1. IsFiniteSet(Saving(k)) /\ Cardinality(Saving(k)) \in Nat
      BY <1>2, BudgetFinite
    <2>2. CASE r \in Saving(k)
      <3>1. Cardinality(Saving(k) \ {r}) = Cardinality(Saving(k)) - 1
        BY <2>1, <2>2, FS_RemoveElement
      <3>. QED BY <1>5, <2>1, <3>1
    <2>3. CASE r \notin Saving(k)
      <3>1. Saving(k)' = Saving(k)
        BY <1>5, <2>3
      <3>. QED BY <2>1, <3>1
    <2>. QED BY <2>2, <2>3
  <1>7. Cardinality(Making(k)') <= Cardinality(Making(k))
    BY <1>2, <1>5, BudgetFinite, FS_Subset
  <1>. QED BY <1>1, <1>2, <1>3, <1>4, <1>6, <1>7, BudgetFinite, BudgetFiniteNext DEF KeyBudget

\* A delete takes the records of its photo along; the key may be used anew by
\* as many requests as there are (DeleteOwned).
LEMMA DeleteBudget ==
  ASSUME FitInv, KeyBudget, NEW p \in Photos, DeleteOwned(p)
  PROVE  KeyBudget'
  <1>1. /\ row' = [row EXCEPT ![p] = "gone"] /\ madeFor' = [madeFor EXCEPT ![p] = NoKey]
        /\ row[p] # "gone" /\ UNCHANGED <<op, call, faults>>
    BY DEF DeleteOwned, Rows
  <1>2. /\ faults \in 0..MaxFaults /\ IsFiniteSet(Deleted)
        /\ Cardinality(Requests) \in Nat /\ Cardinality(Deleted) \in Nat
    BY AdmissionAssumption, FS_CardinalityType, FS_Subset DEF FitInv, TypeOK, Deleted
  <1>3. Budget' = Budget + Cardinality(Requests)
    <2>1. Deleted' = Deleted \cup {p} /\ p \notin Deleted
      BY <1>1 DEF Deleted, FitInv, TypeOK
    <2>2. Cardinality(Deleted') = Cardinality(Deleted) + 1
      BY <1>2, <2>1, FS_AddElement
    <2>. DEFINE n == Cardinality(Requests)
                d == 1 + Cardinality(Deleted)
    <2>3. Budget = n * d + faults /\ Budget' = n * (d + 1) + faults
      BY <1>1, <1>2, <2>2 DEF Budget
    <2>4. n \in Nat /\ d \in Nat
      BY <1>2
    <2>. HIDE DEF n, d
    <2>5. n * (d + 1) = n * d + n /\ n * d \in Nat
      BY <2>4
    <2>6. Budget' = Budget + n
      <3>. DEFINE m == n * d
      <3>1. m \in Nat /\ Budget = m + faults /\ Budget' = (m + n) + faults
        BY <2>3, <2>5
      <3>. HIDE DEF m
      <3>. QED BY <1>2, <2>4, <3>1, AdmissionAssumption
    <2>. QED BY <2>6 DEF n
  <1>. SUFFICES ASSUME NEW k \in Keys
       PROVE  /\ record'[k] = NoRecord =>
                   Cardinality(MadeUnder(k)') + Cardinality(Requests) <= Budget' + Cardinality(Saving(k)')
              /\ Cardinality(MadeUnder(k)') + Cardinality(Making(k)') <= Budget'
    BY DEF KeyBudget
  <1>4. MadeUnder(k)' \subseteq MadeUnder(k) /\ Making(k)' = Making(k)
    BY <1>1, AdmissionAssumption DEF MadeUnder, Making, FitInv, TypeOK
  <1>5. Cardinality(MadeUnder(k)') <= Cardinality(MadeUnder(k))
    BY <1>2, <1>4, BudgetFinite, FS_Subset
  <1>. QED BY <1>2, <1>3, <1>4, <1>5, BudgetFinite, BudgetFiniteNext DEF KeyBudget

\* Every step keeps the budget of each key.
LEMMA NextBudget == FitInv /\ KeyBudget /\ [Next]_vars => KeyBudget'
  <1>. SUFFICES ASSUME FitInv, KeyBudget, [Next]_vars PROVE KeyBudget'
    OBVIOUS
  <1>. QED BY CallBudget, RecordBudget, MoveBudget, CreateBudget, FailsBudget, DeleteBudget DEF Next

\* No key has made anything at first.
LEMMA InitBudget == Init => KeyBudget
  <1>. SUFFICES ASSUME Init, NEW k \in Keys
       PROVE  /\ record[k] = NoRecord =>
                   Cardinality(MadeUnder(k)) + Cardinality(Requests) <= Budget + Cardinality(Saving(k))
              /\ Cardinality(MadeUnder(k)) + Cardinality(Making(k)) <= Budget
    BY DEF KeyBudget
  <1>1. MadeUnder(k) = {} /\ Making(k) = {} /\ Saving(k) = {} /\ Deleted = {}
    BY AdmissionAssumption DEF Init, MadeUnder, Making, Saving, Deleted
  <1>2. Cardinality(Requests) \in Nat
    BY AdmissionAssumption, FS_CardinalityType
  <1>3. Budget = Cardinality(Requests)
    BY <1>1, <1>2, FS_EmptySet DEF Budget, Init
  <1>. QED BY <1>1, <1>2, <1>3, FS_EmptySet

\* However many requests repeat a key, in whatever order their lookups, inserts
\* and records come, a key makes no more photos than there are requests at
\* once, once over for each delete, and one for each failed call.
THEOREM DuplicatesAreBounded == Spec => []DuplicatesBounded
  <1>1. FitInv /\ KeyBudget => DuplicatesBounded
    BY BudgetFinite DEF FitInv, TypeOK, KeyBudget, DuplicatesBounded, Budget
  <1>. QED BY InitFit, NextFit, InitBudget, NextBudget, <1>1, PTL DEF Spec
=============================================================================
