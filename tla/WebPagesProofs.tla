--------------------------- MODULE WebPagesProofs ---------------------------
(***************************************************************************)
(* Proofs about three pages: the guest's gallery, and the operator's       *)
(* photos of an event and billing page.                                    *)
(***************************************************************************)
EXTENDS WebPages, FiniteSums, FiniteSetTheorems, FunctionTheorems, TLAPS

-----------------------------------------------------------------------------
(***************************************************************************)
(* The guest's gallery.  A promise is pending, and then its key is one the *)
(* next batch asks for, or it is a batch's, and then the batch asks for its*)
(* key.  A flush hands the pending ones over to batches: there are as many *)
(* free slots as there are variants to ask for, so that no two variants get*)
(* the same one, and what waited for a slot that was in use still does.    *)
(* A key that is asked for is one there is, because the next page is asked *)
(* for only where there is one.                                            *)
(***************************************************************************)

Promises == {None, Pending} \cup Batches
CallerRows == [state : {"idle", "waiting", "url", "next", "retry", "error"}, key : Keys,
               on : Promises, failures : Nat, retried : BOOLEAN]
BatchRows == [variant : Variants \cup {"none"}, photos : SUBSET Photos, token : BOOLEAN]

UrlsTyped ==
    /\ entries \subseteq Keys /\ pending \subseteq Keys
    /\ inflight \in [Keys -> Promises]
    /\ batch \in [Batches -> BatchRows]
    /\ caller \in [Callers -> CallerRows]

\* What waits holds a promise, what does not holds none; a promise settles.
UrlsSettle ==
    /\ \A k \in Keys : Settles(inflight[k], k)
    /\ \A c \in Callers : /\ caller[c].state = "waiting" <=> caller[c].on # None
                          /\ Settles(caller[c].on, caller[c].key)

\* The next page is asked for only where there is one.
ShellInv ==
    /\ list \in [status : {"pending", "success", "error"}, pages : 0..MaxPhotos,
                 retry : {"none", "first", "next"}, error : {"none", "401", "5xx"}]
    /\ listCall \in [on : {"none", "first", "next"}, token : BOOLEAN]
    /\ "next" \in {listCall.on, list.retry} => list.pages < MaxPhotos
    /\ viewerIndex \in 0..MaxPhotos /\ token \in BOOLEAN
    /\ token => list.error # "401"

GalleryInv == UrlsTyped /\ UrlsSettle /\ ShellInv

-----------------------------------------------------------------------------
LEMMA Sizes == /\ MaxPhotos \in Nat /\ MaxPhotos > 0 /\ MaxBatches \in Nat
               /\ None \notin Batches /\ Pending \notin Batches /\ None # Pending
               /\ \A p \in Photos, v \in Variants : <<p, v>> \in Keys
               /\ \A k \in Keys : k[1] \in Photos /\ k[2] \in Variants /\ k = <<k[1], k[2]>>
               /\ 1 \in Photos /\ "thumbnail" \in Variants /\ "large" \in Variants
BY GalleryUrlsAssumption DEF None, Pending, Batches, Keys, Photos

\* A set that is no larger than another one has an injection into it.
LEMMA InjectionExists ==
    ASSUME NEW S, NEW T, IsFiniteSet(S), IsFiniteSet(T), Cardinality(S) <= Cardinality(T)
    PROVE  \E f \in [S -> T] : \A v, w \in S : f[v] = f[w] => v = w
<1>1. Cardinality(S) \in Nat /\ Cardinality(T) \in Nat
  BY FS_CardinalityType
<1>2. ExistsInjection(1..Cardinality(S), 1..Cardinality(T))
  BY <1>1, Fun_NatInjLeq
<1>3. ExistsBijection(S, 1..Cardinality(S)) /\ ExistsBijection(1..Cardinality(T), T)
  BY FS_CardinalityType, Fun_ExistsBijSymmetric
<1>4. ExistsInjection(S, 1..Cardinality(S)) /\ ExistsInjection(1..Cardinality(T), T)
  BY <1>3 DEF ExistsBijection, ExistsInjection, Bijection
<1>5. ExistsInjection(S, 1..Cardinality(T))
  BY <1>2, <1>4, Fun_ExistsInjTransitive
<1>6. ExistsInjection(S, T)
  BY <1>4, <1>5, Fun_ExistsInjTransitive
<1>. QED
  BY <1>6 DEF ExistsInjection, Injection, IsInjective

\* The slots a flush takes are free, one for each variant.
LEMMA Slots ==
    ASSUME NEW ks, Room(ks)
    PROVE  /\ SlotOf(ks) \in [Groups(ks) -> Free]
           /\ \A v, w \in Groups(ks) : SlotOf(ks)[v] = SlotOf(ks)[w] => v = w
<1>1. IsFiniteSet(Groups(ks)) /\ IsFiniteSet(Free)
  <2>1. IsFiniteSet(Variants) /\ IsFiniteSet(Batches)
    BY GalleryUrlsAssumption, FS_Interval DEF Batches
  <2>. QED
    BY <2>1, FS_Subset DEF Groups, Free
<1>2. \E f \in [Groups(ks) -> Free] : \A v, w \in Groups(ks) : f[v] = f[w] => v = w
  BY <1>1, InjectionExists DEF Room
<1>. QED
  BY <1>2, Zenon DEF SlotOf

\* A flush makes good the promises it was made over.
LEMMA FlushSettles ==
    ASSUME GalleryInv, NEW ks \in SUBSET Keys, NEW wait, NEW fly, NEW t \in BOOLEAN, Flushed(ks, wait, fly, t),
           fly \in [Keys -> Promises], wait \in [Callers -> CallerRows],
           \A k \in Keys : /\ fly[k] = Pending => k \in ks
                           /\ fly[k] \in Batches => Settles(fly[k], k),
           \A c \in Callers : /\ wait[c].state = "waiting" <=> wait[c].on # None
                              /\ wait[c].on = Pending => wait[c].key \in ks
                              /\ wait[c].on \in Batches => Settles(wait[c].on, wait[c].key)
    PROVE  /\ pending' = {} /\ inflight' \in [Keys -> Promises] /\ batch' \in [Batches -> BatchRows]
           /\ caller' \in [Callers -> CallerRows] /\ UrlsSettle'
<1> DEFINE f == SlotOf(ks)
           G == Groups(ks)
<1>1. /\ f \in [G -> Free] /\ \A v, w \in G : f[v] = f[w] => v = w
  BY Slots DEF Flushed
<1>2. \A k \in ks : k[2] \in G /\ f[k[2]] \in Batches /\ f[k[2]] \in Promises /\ f[k[2]] \notin {None, Pending}
  <2>1. \A k \in ks : k[1] \in Group(ks, k[2]) /\ k[2] \in Variants
    BY Sizes DEF Group
  <2>2. \A k \in ks : k[2] \in G
    BY <2>1 DEF Groups
  <2>. QED
    BY <1>1, <2>2, Sizes DEF Free, Promises
<1>3. \A v \in G : batch'[f[v]] = [variant |-> v, photos |-> Group(ks, v), token |-> t]
  <2> TAKE v \in G
  <2>1. f[v] \in Batches
    BY <1>1 DEF Free
  <2>2. (CHOOSE w \in G : f[w] = f[v]) = v
    BY <1>1
  <2>3. batch'[f[v]] = IF \E w \in G : f[w] = f[v]
          THEN LET w == CHOOSE u \in G : f[u] = f[v]
               IN [variant |-> w, photos |-> Group(ks, w), token |-> t]
          ELSE batch[f[v]]
    BY <2>1 DEF Flushed
  <2>. QED
    BY <2>2, <2>3
<1>4. \A b \in Batches : (\A v \in G : f[v] # b) => batch'[b] = batch[b]
  BY DEF Flushed
<1>5. \A b \in Batches \ Free : batch'[b] = batch[b]
  BY <1>1, <1>4
<1>6. batch' \in [Batches -> BatchRows]
  <2>1. \A v \in G : [variant |-> v, photos |-> Group(ks, v), token |-> t] \in BatchRows
    BY DEF BatchRows, Group, Groups
  <2>2. \A b \in Batches : batch'[b] \in BatchRows
    <3> TAKE b \in Batches
    <3>1. CASE \E v \in G : f[v] = b
      BY <3>1, <1>3, <2>1
    <3>2. CASE \A v \in G : f[v] # b
      BY <3>2, <1>4 DEF GalleryInv, UrlsTyped
    <3>. QED
      BY <3>1, <3>2
  <2>3. batch' = [b \in Batches |-> batch'[b]]
    BY DEF Flushed
  <2>. QED
    BY <2>2, <2>3
<1> DEFINE SettlesNext(on, k) == /\ on = Pending => k \in pending'
                                 /\ on \in Batches => k \in batch'[on].photos \X {batch'[on].variant}
<1> HIDE DEF f, G
<1>7. ASSUME NEW on \in Promises, NEW k \in Keys, on = Pending => k \in ks, on \in Batches => Settles(on, k)
      PROVE  /\ Dispatched(on, k, ks) \in Promises /\ SettlesNext(Dispatched(on, k, ks), k)
             /\ Dispatched(on, k, ks) = None <=> on = None
  <2>1. CASE on = Pending
    <3>1. Dispatched(on, k, ks) = f[k[2]]
      BY <2>1, <1>7 DEF Dispatched, f
    <3>2. k[2] \in G /\ f[k[2]] \in Batches /\ f[k[2]] \in Promises /\ f[k[2]] \notin {None, Pending}
      BY <1>2, <1>7, <2>1
    <3>3. k[1] \in Group(ks, k[2])
      BY <1>7, <2>1, Sizes DEF Group
    <3>4. k \in Group(ks, k[2]) \X {k[2]}
      BY <3>3, Sizes
    <3>5. batch'[f[k[2]]] = [variant |-> k[2], photos |-> Group(ks, k[2]), token |-> t]
      BY <1>3, <3>2, Zenon
    <3>. QED
      BY <3>1, <3>2, <3>4, <3>5, <2>1, Sizes
  <2>2. CASE on \in Batches
    <3>1. Dispatched(on, k, ks) = on
      BY <2>2, Sizes DEF Dispatched
    <3>2. k \in batch[on].photos \X {batch[on].variant}
      BY <1>7, <2>2 DEF Settles
    <3>3. batch[on] # NoBatch
      BY <3>2 DEF NoBatch
    <3>4. batch'[on] = batch[on]
      BY <1>5, <2>2, <3>3 DEF Free
    <3>. QED
      BY <2>2, <3>1, <3>2, <3>4, Sizes DEF Promises
  <2>3. CASE on = None
    BY <2>3, Sizes DEF Dispatched, Promises
  <2>. QED
    BY <2>1, <2>2, <2>3 DEF Promises
<1>8. pending' = {}
  BY DEF Flushed
<1>9. inflight' = [k \in Keys |-> Dispatched(fly[k], k, ks)]
  BY DEF Flushed
<1>10. caller' = [c \in Callers |-> [wait[c] EXCEPT !.on = Dispatched(wait[c].on, wait[c].key, ks)]]
  BY DEF Flushed
<1>11. \A k \in Keys : inflight'[k] \in Promises /\ Settles(inflight[k], k)'
  <2> TAKE k \in Keys
  <2>1. fly[k] \in Promises
    OBVIOUS
  <2>2. Dispatched(fly[k], k, ks) \in Promises /\ SettlesNext(Dispatched(fly[k], k, ks), k)
    BY <1>7, <2>1
  <2>3. inflight'[k] = Dispatched(fly[k], k, ks)
    BY <1>9
  <2>. QED
    BY <2>2, <2>3 DEF Settles
<1>12. \A c \in Callers : /\ caller'[c] \in CallerRows
                          /\ caller'[c].state = "waiting" <=> caller'[c].on # None
                          /\ Settles(caller[c].on, caller[c].key)'
  <2> TAKE c \in Callers
  <2> DEFINE d == Dispatched(wait[c].on, wait[c].key, ks)
  <2>1. wait[c] \in CallerRows /\ wait[c].on \in Promises /\ wait[c].key \in Keys
    BY DEF CallerRows
  <2>2. d \in Promises /\ SettlesNext(d, wait[c].key) /\ (d = None <=> wait[c].on = None)
    BY <1>7, <2>1
  <2> HIDE DEF d
  <2>3. caller'[c] = [wait[c] EXCEPT !.on = d]
    BY <1>10 DEF d
  <2>4. caller'[c] \in CallerRows /\ caller'[c].on = d /\ caller'[c].key = wait[c].key /\ caller'[c].state = wait[c].state
    BY <2>1, <2>2, <2>3 DEF CallerRows
  <2>. QED
    BY <2>2, <2>4 DEF Settles
<1>. QED
  BY <1>6, <1>8, <1>9, <1>10, <1>11, <1>12 DEF UrlsSettle

\* A fetch leaves the promises good.
LEMMA FetchSettles ==
    ASSUME GalleryInv, NEW c \in Callers, NEW k \in Keys, NEW n \in Nat, NEW r \in BOOLEAN, NEW t \in BOOLEAN,
           Fetch(c, k, n, r, t), UNCHANGED entries
    PROVE  UrlsTyped' /\ UrlsSettle'
<1> DEFINE asking == [state |-> "waiting", key |-> k, on |-> inflight[k], failures |-> n, retried |-> r]
           ks   == pending \cup {k}
           fly  == [inflight EXCEPT ![k] = Pending]
           wait == [caller EXCEPT ![c] = [asking EXCEPT !.on = Pending]]
<1>1. UrlsTyped /\ UrlsSettle
  BY DEF GalleryInv
<1>2. inflight[k] \in Promises /\ Settles(inflight[k], k)
  BY <1>1 DEF UrlsTyped, UrlsSettle
<1>3. asking \in CallerRows /\ asking.state = "waiting" /\ asking.on = inflight[k] /\ asking.key = k
  BY <1>2 DEF CallerRows
<1>4. Pending \in Promises /\ None \in Promises /\ Pending # None
  BY Sizes DEF Promises
<1>5. CASE k \in entries
  <2> DEFINE shown == [asking EXCEPT !.state = "url", !.on = None]
  <2>1. shown \in CallerRows /\ shown.state = "url" /\ shown.on = None /\ shown.key = k
    BY <1>3, <1>4 DEF CallerRows
  <2>2. caller' = [caller EXCEPT ![c] = shown] /\ UNCHANGED <<inflight, pending, batch>>
    BY <1>5 DEF Fetch
  <2> HIDE DEF shown
  <2>3. Settles(None, k)
    BY Sizes DEF Settles
  <2>. QED
    BY <1>1, <2>1, <2>2, <2>3 DEF UrlsTyped, UrlsSettle, Settles
<1>6. CASE k \notin entries /\ inflight[k] # None
  <2>1. caller' = [caller EXCEPT ![c] = asking] /\ UNCHANGED <<inflight, pending, batch>>
    BY <1>6 DEF Fetch
  <2> HIDE DEF asking
  <2>. QED
    BY <1>1, <1>2, <1>3, <1>6, <2>1 DEF UrlsTyped, UrlsSettle, Settles
<1>7. CASE k \notin entries /\ inflight[k] = None
  <2>1. ks \in SUBSET Keys /\ fly \in [Keys -> Promises]
    BY <1>1, <1>4 DEF UrlsTyped
  <2>2. [asking EXCEPT !.on = Pending] \in CallerRows /\ [asking EXCEPT !.on = Pending].state = "waiting"
        /\ [asking EXCEPT !.on = Pending].on = Pending /\ [asking EXCEPT !.on = Pending].key = k
    BY <1>3, <1>4 DEF CallerRows
  <2>3. wait \in [Callers -> CallerRows]
    BY <1>1, <2>2 DEF UrlsTyped
  <2>4. \A q \in Keys : /\ fly[q] = Pending => q \in ks
                        /\ fly[q] \in Batches => Settles(fly[q], q)
    BY <1>1, <1>4, Sizes DEF UrlsTyped, UrlsSettle, Settles
  <2>5. \A d \in Callers : /\ wait[d].state = "waiting" <=> wait[d].on # None
                           /\ wait[d].on = Pending => wait[d].key \in ks
                           /\ wait[d].on \in Batches => Settles(wait[d].on, wait[d].key)
    <3> TAKE d \in Callers
    <3>1. CASE d = c
      <4>1. wait[d] = [asking EXCEPT !.on = Pending]
        BY <1>1, <3>1 DEF UrlsTyped
      <4> HIDE DEF wait, asking
      <4>. QED
        BY <2>2, <4>1, <1>4, Sizes
    <3>2. CASE d # c
      BY <1>1, <3>2 DEF UrlsTyped, UrlsSettle, Settles
    <3>. QED
      BY <3>1, <3>2
  <2>6. CASE Cardinality(ks) >= URL_BATCH_MAX_SIZE
    <3>1. Flushed(ks, wait, fly, t)
      BY <1>7, <2>6 DEF Fetch
    <3> HIDE DEF ks, wait, fly
    <3>2. /\ pending' = {} /\ inflight' \in [Keys -> Promises] /\ batch' \in [Batches -> BatchRows]
          /\ caller' \in [Callers -> CallerRows] /\ UrlsSettle'
      BY <2>1, <2>3, <2>4, <2>5, <3>1, FlushSettles
    <3>. QED
      BY <1>1, <3>2 DEF UrlsTyped
  <2>7. CASE ~(Cardinality(ks) >= URL_BATCH_MAX_SIZE)
    <3>1. pending' = ks /\ inflight' = fly /\ caller' = wait /\ UNCHANGED batch
      BY <1>7, <2>7 DEF Fetch
    <3> HIDE DEF ks, wait, fly
    <3>. QED
      BY <1>1, <2>1, <2>3, <2>4, <2>5, <3>1, Sizes DEF UrlsTyped, UrlsSettle, Settles
  <2>. QED
    BY <2>6, <2>7
<1>. QED
  BY <1>5, <1>6, <1>7

\* The cache may be emptied at any time.
LEMMA ClearedSettle ==
    ASSUME UrlsTyped, UrlsSettle, clearPhotoUrls, UNCHANGED <<pending, batch, caller>>
    PROVE  UrlsTyped' /\ UrlsSettle'
BY Sizes DEF UrlsTyped, UrlsSettle, Settles, clearPhotoUrls, Promises

\* Whoever waits for a batch hears of its end.
LEMMA DispatchSettles ==
    ASSUME UrlsTyped, UrlsSettle, NEW b \in Batches, NEW why, dispatch(b, why)
    PROVE  UrlsTyped' /\ UrlsSettle'
<1> DEFINE asked == batch[b].photos \X {batch[b].variant}
           got   == IF why = "ok" THEN asked \cap Available ELSE {}
<1>1. got \subseteq Keys
  BY GalleryUrlsAssumption
<1>2. NoBatch \in BatchRows
  BY DEF NoBatch, BatchRows
<1>3. batch' = [batch EXCEPT ![b] = NoBatch] /\ batch' \in [Batches -> BatchRows]
  BY <1>2 DEF dispatch, UrlsTyped
<1>4. entries' \subseteq Keys /\ inflight' \in [Keys -> Promises] /\ \A k \in Keys : inflight'[k] = None \/ (inflight'[k] = inflight[k] /\ inflight[k] # b)
  BY <1>1, Sizes DEF dispatch, clearPhotoUrls, Settled, UrlsTyped, Promises
<1>5. pending' = pending
  BY DEF dispatch
<1>6. \A c \in Callers : caller[c].on # b => caller'[c] = caller[c]
  BY DEF dispatch
<1>7. ASSUME NEW c \in Callers, caller[c].on = b
      PROVE  caller'[c] \in CallerRows /\ caller'[c].on = None /\ caller'[c].state # "waiting"
  <2>1. caller[c] \in CallerRows
    BY DEF UrlsTyped
  <2>2. None \in Promises
    BY DEF Promises
  <2>3. CASE caller[c].key \in got
    <3>1. caller'[c] = [caller[c] EXCEPT !.state = "url", !.on = None]
      BY <1>7, <2>3 DEF dispatch
    <3>. QED
      BY <2>1, <2>2, <3>1 DEF CallerRows
  <2>4. CASE caller[c].key \notin got
    <3> DEFINE reason == IF why = "ok" THEN "404" ELSE why
               s == [caller[c] EXCEPT !.on = None]
    <3>1. caller'[c] = Rejected(c, reason)
      BY <1>7, <2>4 DEF dispatch
    <3> HIDE DEF reason
    <3>2. s \in CallerRows /\ s.on = None
      BY <2>1, <2>2 DEF CallerRows
    <3>3. <<1, Fallback(s.key)>> \in Keys
      <4>1. CoverVariants \in Seq(Variants) /\ s.key[2] \in Variants
        BY <3>2, GalleryUrlsAssumption, Sizes DEF CallerRows
      <4> HIDE DEF s
      <4>2. Fallback(s.key) \in Variants
        <5> DEFINE more == {i \in 1..(Len(CoverVariants) - 1) : CoverVariants[i] = s.key[2]}
                   j == CHOOSE i \in more : TRUE
        <5>1. CASE more = {}
          BY <4>1, <5>1 DEF Fallback
        <5>2. CASE more # {}
          <6>1. Fallback(s.key) = CoverVariants[1 + j]
            BY <5>2 DEF Fallback
          <6>2. j \in more
            BY <5>2
          <6>3. 1 + j \in 1..Len(CoverVariants)
            BY <4>1, <6>2
          <6>. QED
            BY <4>1, <6>1, <6>3
        <5>. QED
          BY <5>1, <5>2
      <4>. QED
        BY <4>2, Sizes
    <3>4. /\ [s EXCEPT !.state = "error"] \in CallerRows
          /\ [s EXCEPT !.state = "next", !.key = <<1, Fallback(s.key)>>] \in CallerRows
          /\ [s EXCEPT !.state = "retry", !.failures = s.failures + 1] \in CallerRows
      <4> DEFINE q == <<1, Fallback(s.key)>>
                 n == s.failures + 1
      <4>1. q \in Keys /\ n \in Nat
        BY <3>2, <3>3 DEF CallerRows
      <4> HIDE DEF s, q, n
      <4>. QED
        BY <3>2, <4>1 DEF CallerRows, q, n
    <3>5. caller'[c] \in {[s EXCEPT !.state = "error"], [s EXCEPT !.state = "next", !.key = <<1, Fallback(s.key)>>],
                          [s EXCEPT !.state = "retry", !.failures = s.failures + 1]}
      <4>1. caller'[c] \in {[s EXCEPT !.state = "error"], [s EXCEPT !.state = "next", !.key = <<1, Fallback(@)>>],
                          [s EXCEPT !.state = "retry", !.failures = @ + 1]}
        BY <3>1 DEF Rejected
      <4> HIDE DEF s
      <4>. QED
        BY <4>1
    <3> HIDE DEF s
    <3>. QED
      BY <3>2, <3>4, <3>5 DEF CallerRows
  <2>. QED
    BY <2>3, <2>4
<1>8. caller' \in [Callers -> CallerRows]
  <2>1. \A c \in Callers : caller'[c] \in CallerRows
    BY <1>6, <1>7 DEF UrlsTyped
  <2>. QED
    BY <2>1 DEF dispatch
<1>9. \A c \in Callers : /\ caller'[c].state = "waiting" <=> caller'[c].on # None
                         /\ Settles(caller[c].on, caller[c].key)'
  <2> TAKE c \in Callers
  <2>1. CASE caller[c].on = b
    BY <1>7, <2>1, Sizes DEF Settles
  <2>2. CASE caller[c].on # b
    BY <1>3, <1>5, <1>6, <2>2, Sizes DEF UrlsSettle, UrlsTyped, Settles
  <2>. QED
    BY <2>1, <2>2
<1>10. \A k \in Keys : Settles(inflight[k], k)'
  BY <1>3, <1>4, <1>5, Sizes DEF UrlsSettle, UrlsTyped, Settles
<1>. QED
  BY <1>3, <1>4, <1>5, <1>8, <1>9, <1>10 DEF UrlsTyped, UrlsSettle

\* A page has a first photo, and what the components ask for is a key.
LEMMA KeysAsked ==
    ASSUME ShellInv, NEW c \in Callers, Mounted(c)
    PROVE  KeyOf(c) \in Keys
<1>1. 1 \in Photos /\ \A p \in Photos : <<p, "thumbnail">> \in Keys /\ <<p, "large">> \in Keys
  BY Sizes
<1>2. <<1, CoverVariants[1]>> \in Keys
  <2>1. CoverVariants[1] \in Variants
    BY GalleryUrlsAssumption
  <2>. QED
    BY <2>1, Sizes
<1>3. viewing => viewerIndex \in Photos
  BY Sizes DEF ShellInv, viewing, photos, Photos
<1>4. CASE c = <<"save", 1>>
  BY <1>1, <1>3, <1>4 DEF KeyOf
<1>5. CASE c = <<"cover", 1>>
  BY <1>2, <1>5 DEF KeyOf
<1>6. ASSUME NEW p \in Photos, c = <<"tile", p>> PROVE KeyOf(c) \in Keys
  <2>1. c[1] = "tile" /\ c[2] = p
    BY <1>6
  <2>. QED
    BY <1>1, <2>1 DEF KeyOf
<1>7. ASSUME NEW p \in Photos, c = <<"view", p>> PROVE KeyOf(c) \in Keys
  <2>1. c[1] = "view" /\ c[2] = p
    BY <1>7
  <2>. QED
    BY <1>1, <2>1 DEF KeyOf
<1>. QED
  BY <1>4, <1>5, <1>6, <1>7 DEF Callers

LEMMA GalleryInitInv == Init => GalleryInv
<1>. SUFFICES ASSUME Init PROVE GalleryInv
  OBVIOUS
<1>1. NoBatch \in BatchRows /\ NoCaller \in CallerRows /\ None \in Promises
  BY Sizes DEF NoBatch, BatchRows, NoCaller, CallerRows, Promises
<1>2. UrlsTyped
  BY <1>1 DEF Init, UrlsInit, UrlsTyped
<1>3. UrlsSettle
  BY Sizes DEF Init, UrlsInit, UrlsSettle, Settles, NoCaller
<1>4. /\ token = FALSE /\ list = NewList /\ listCall = NoCall /\ viewerIndex = 0
      /\ NewList.error = "none" /\ NewList.retry = "none" /\ NoCall.on = "none"
      /\ NewList \in [status : {"pending", "success", "error"}, pages : 0..MaxPhotos,
                     retry : {"none", "first", "next"}, error : {"none", "401", "5xx"}]
      /\ NoCall \in [on : {"none", "first", "next"}, token : BOOLEAN] /\ 0 \in 0..MaxPhotos
  BY Sizes DEF Init, NewList, NoCall
<1>5. ShellInv
  BY <1>4 DEF ShellInv
<1>. QED
  BY <1>2, <1>3, <1>5 DEF GalleryInv

\* What a query is at is within its bounds.
LEMMA ListStep ==
    ASSUME ShellInv, FetchList \/ fetchNextPage \/ TryAgain \/ ListAnswered
    PROVE  ShellInv'
<1>1. /\ list \in [status : {"pending", "success", "error"}, pages : 0..MaxPhotos,
                   retry : {"none", "first", "next"}, error : {"none", "401", "5xx"}]
      /\ listCall \in [on : {"none", "first", "next"}, token : BOOLEAN]
      /\ "next" \in {listCall.on, list.retry} => list.pages < MaxPhotos
      /\ viewerIndex \in 0..MaxPhotos /\ token \in BOOLEAN
      /\ token => list.error # "401"
  BY DEF ShellInv
<1>2. NoCall \in [on : {"none", "first", "next"}, token : BOOLEAN] /\ NoCall.on = "none"
  BY DEF NoCall
<1>3. CASE FetchList
  BY <1>1, <1>3 DEF FetchList, Call, ShellInv
<1>4. CASE fetchNextPage
  BY <1>1, <1>4, Sizes DEF fetchNextPage, Call, ShellInv, hasNextPage
<1>5. CASE TryAgain
  <2> DEFINE q == IF list.pages = 0 THEN "pending" ELSE list.status
  <2>1. list' = [list EXCEPT !.retry = "none", !.status = q]
    BY <1>5 DEF TryAgain
  <2>2. q \in {"pending", "success", "error"}
    BY <1>1
  <2> HIDE DEF q
  <2>. QED
    BY <1>1, <1>5, <2>1, <2>2 DEF TryAgain, Call, ShellInv
<1>6. CASE ListAnswered
  <2>1. listCall' = NoCall /\ viewerIndex' = viewerIndex
    BY <1>6 DEF ListAnswered
  <2>2. CASE ListRefused /\ token' = FALSE
    BY <1>1, <1>2, <2>1, <2>2 DEF ListRefused, ShellInv
  <2>3. CASE /\ list' = [status |-> "success", retry |-> "none", error |-> "none",
                      pages |-> IF listCall.on = "next" THEN list.pages + 1
                                ELSE IF list.pages = 0 THEN 1 ELSE list.pages]
             /\ token' = token
    BY <1>1, <1>2, <2>1, <2>3, Sizes DEF ShellInv
  <2>4. CASE list' = [list EXCEPT !.status = "error", !.retry = "none", !.error = "5xx"] /\ token' = token
    BY <1>1, <1>2, <2>1, <2>4 DEF ShellInv
  <2>. QED
    BY <1>6, <2>2, <2>3, <2>4 DEF ListAnswered, unauthorized
<1>. QED
  BY <1>3, <1>4, <1>5, <1>6

\* The token is stored when the list starts over.
LEMMA ShellStep ==
    ASSUME ShellInv,
           \/ list' = NewList /\ listCall' = NoCall /\ token' = TRUE /\ viewerIndex' = viewerIndex
           \/ UNCHANGED <<list, listCall>> /\ token' \in {token, FALSE} /\ viewerIndex' \in photos \cup {0, viewerIndex}
    PROVE  ShellInv'
<1>1. CASE list' = NewList /\ listCall' = NoCall /\ token' = TRUE /\ viewerIndex' = viewerIndex
  BY <1>1, Sizes DEF ShellInv, NewList, NoCall
<1>2. CASE UNCHANGED <<list, listCall>> /\ token' \in {token, FALSE} /\ viewerIndex' \in photos \cup {0, viewerIndex}
  <2>1. viewerIndex' \in 0..MaxPhotos
    BY <1>2, Sizes DEF ShellInv, photos
  <2>2. token' \in BOOLEAN /\ (token' => list'.error # "401")
    <3>1. token \in BOOLEAN /\ (token => list.error # "401")
      BY DEF ShellInv
    <3>2. CASE token' = token
      BY <1>2, <3>1, <3>2, Zenon
    <3>3. CASE token' = FALSE
      BY <3>3, Zenon
    <3>. QED
      BY <1>2, <3>2, <3>3, Zenon
  <2>3. /\ list' = list /\ listCall' = listCall
    BY <1>2
  <2>. QED
    BY <2>1, <2>2, <2>3 DEF ShellInv
<1>. QED
  BY <1>1, <1>2

LEMMA GalleryNext == GalleryInv /\ [Next]_vars => GalleryInv'
<1>. SUFFICES ASSUME GalleryInv, [Next]_vars PROVE GalleryInv'
  OBVIOUS
<1>1. UrlsTyped /\ UrlsSettle /\ ShellInv
  BY DEF GalleryInv
<1>2. ASSUME UNCHANGED urls PROVE UrlsTyped' /\ UrlsSettle'
  BY <1>1, <1>2 DEF UrlsTyped, UrlsSettle, Settles, urls
<1>3. ASSUME UNCHANGED urls \/ unauthorized PROVE UrlsTyped' /\ UrlsSettle'
  BY <1>1, <1>2, <1>3, ClearedSettle DEF unauthorized
<1>4. CASE FetchList \/ fetchNextPage \/ TryAgain \/ ListAnswered
  <2>1. ShellInv'
    BY <1>1, <1>4, ListStep
  <2>2. UNCHANGED urls \/ unauthorized
    BY <1>4 DEF FetchList, fetchNextPage, TryAgain, ListAnswered
  <2>. QED
    BY <1>3, <2>1, <2>2 DEF GalleryInv
<1>5. CASE \E t \in stray : StrayAnswered(t)
  <2>1. UNCHANGED urls \/ unauthorized
    BY <1>5 DEF StrayAnswered
  <2>2. UNCHANGED <<list, listCall, viewerIndex>> /\ token' \in {token, FALSE}
    BY <1>5 DEF StrayAnswered, unauthorized
  <2>. QED
    BY <1>1, <1>3, <2>1, <2>2, ShellStep DEF GalleryInv
<1>6. CASE handleUnlock \/ TokenExpires \/ Protect
  <2>1. UNCHANGED urls /\ UNCHANGED <<list, listCall, viewerIndex>> /\ token' \in {token, FALSE}
    BY <1>6 DEF handleUnlock, TokenExpires, Protect
  <2>. QED
    BY <1>1, <1>2, <2>1, ShellStep DEF GalleryInv
<1>7. CASE UnlockAnswered
  <2>1. UNCHANGED urls \/ unauthorized
    BY <1>7 DEF UnlockAnswered
  <2>2. \/ list' = NewList /\ listCall' = NoCall /\ token' = TRUE /\ viewerIndex' = viewerIndex
        \/ UNCHANGED <<list, listCall, viewerIndex>> /\ token' \in {token, FALSE}
    BY <1>7 DEF UnlockAnswered, removeQueries, unauthorized
  <2>. QED
    BY <1>1, <1>3, <2>1, <2>2, ShellStep DEF GalleryInv
<1>8. CASE PhotoViewer
  <2>1. UNCHANGED urls /\ UNCHANGED <<list, listCall, token>> /\ viewerIndex' \in photos \cup {0}
    BY <1>8 DEF PhotoViewer
  <2>. QED
    BY <1>1, <1>2, <2>1, ShellStep DEF GalleryInv
<1>9. ASSUME UNCHANGED shell PROVE ShellInv'
  BY <1>1, <1>9 DEF ShellInv, shell
<1>10. token \in BOOLEAN
  BY <1>1 DEF ShellInv
<1>11. CASE Flush
  <2>1. Flushed(pending, caller, inflight, token) /\ UNCHANGED entries
    BY <1>11 DEF Flush, flush
  <2>2. /\ pending' = {} /\ inflight' \in [Keys -> Promises] /\ batch' \in [Batches -> BatchRows]
        /\ caller' \in [Callers -> CallerRows] /\ UrlsSettle'
    <3>1. pending \in SUBSET Keys /\ inflight \in [Keys -> Promises] /\ caller \in [Callers -> CallerRows]
      BY <1>1 DEF UrlsTyped
    <3>2. \A k \in Keys : /\ inflight[k] = Pending => k \in pending
                          /\ inflight[k] \in Batches => Settles(inflight[k], k)
      BY <1>1 DEF UrlsSettle, Settles
    <3>3. \A c \in Callers : /\ caller[c].state = "waiting" <=> caller[c].on # None
                             /\ caller[c].on = Pending => caller[c].key \in pending
                             /\ caller[c].on \in Batches => Settles(caller[c].on, caller[c].key)
      BY <1>1 DEF UrlsSettle, Settles
    <3>. QED
      BY <1>10, <2>1, <3>1, <3>2, <3>3, FlushSettles
  <2>3. UrlsTyped'
    BY <1>1, <2>1, <2>2 DEF UrlsTyped
  <2>. QED
    BY <1>9, <1>11, <2>2, <2>3 DEF GalleryInv, Flush
<1>12. ASSUME NEW c \in Callers, Urls(c) PROVE GalleryInv'
  <2>1. ShellInv'
    BY <1>9, <1>12 DEF Urls
  <2>2. caller[c].key \in Keys /\ caller[c].failures \in Nat /\ caller[c].retried \in BOOLEAN
    BY <1>1 DEF UrlsTyped, CallerRows
  <2>3. CASE Mounted(c) /\ Ask(c, KeyOf(c), token)
    <3>1. KeyOf(c) \in Keys
      BY <1>1, <2>3, KeysAsked
    <3>2. Fetch(c, KeyOf(c), 0, FALSE, token) /\ UNCHANGED entries
      BY <2>3 DEF Ask
    <3>. QED
      BY <1>10, <2>1, <3>1, <3>2, FetchSettles DEF GalleryInv
  <2>4. CASE Mounted(c) /\ Retry(c, token)
    <3>1. Fetch(c, caller[c].key, 0, TRUE, token) /\ UNCHANGED entries
      BY <2>4 DEF Retry
    <3>. QED
      BY <1>10, <2>1, <2>2, <3>1, FetchSettles DEF GalleryInv
  <2>5. CASE Again(c, token)
    <3>1. Fetch(c, caller[c].key, caller[c].failures, caller[c].retried, token) /\ UNCHANGED entries
      BY <2>5 DEF Again
    <3>. QED
      BY <1>10, <2>1, <2>2, <3>1, FetchSettles DEF GalleryInv
  <2>. QED
    BY <1>12, <2>3, <2>4, <2>5 DEF Urls
<1>13. ASSUME NEW b \in Batches, UrlsAnswered(b) PROVE GalleryInv'
  <2>1. PICK why \in {"ok", "401", "429", "5xx"} : dispatch(b, why)
    BY <1>13 DEF UrlsAnswered
  <2>2. UNCHANGED <<list, listCall, viewerIndex>> /\ token' \in {token, FALSE}
    BY <1>13 DEF UrlsAnswered
  <2>. QED
    BY <1>1, <2>1, <2>2, DispatchSettles, ShellStep DEF GalleryInv
<1>14. ASSUME NEW k \in Keys, Expire(k) PROVE GalleryInv'
  <2>1. UrlsTyped' /\ UrlsSettle'
    BY <1>1, <1>14 DEF Expire, UrlExpires, UrlsTyped, UrlsSettle, Settles
  <2>2. UNCHANGED <<list, listCall, viewerIndex, token>>
    BY <1>14 DEF Expire
  <2>. QED
    BY <1>1, <2>1, <2>2, ShellStep DEF GalleryInv
<1>15. CASE UNCHANGED vars
  BY <1>2, <1>9, <1>15 DEF vars, GalleryInv
<1>. QED
  BY <1>4, <1>5, <1>6, <1>7, <1>8, <1>11, <1>12, <1>13, <1>14, <1>15 DEF Next

\* A promise of a URL, in the cache or waited for, is one that will settle,
\* for any number of photos, variants, batches and failures, whoever shares
\* it and whatever clears the cache (url-cache.ts:45, batch-url-fetcher.ts:107).
THEOREM UrlPromisesSettle == Spec => []PromisesSettle
<1>1. GalleryInv => PromisesSettle
  BY DEF GalleryInv, UrlsSettle, PromisesSettle
<1>. QED
  BY <1>1, GalleryInitInv, GalleryNext, PTL DEF Spec

\* A guest whose token is stored does not see the password gate, whatever
\* request of an earlier list is still on its way (api.ts:166).
THEOREM GateOpens == Spec => []GateMeansNoToken
<1>1. GalleryInv => GateMeansNoToken
  BY DEF GalleryInv, ShellInv, GateMeansNoToken, locked, baseLocked
<1>. QED
  BY <1>1, GalleryInitInv, GalleryNext, PTL DEF Spec

-----------------------------------------------------------------------------
(***************************************************************************)
(* The photos of an event.  A list that is at rest shows what its last     *)
(* request read, and that was read after the last deletion: a deletion     *)
(* cancels the requests for the list when it begins, and asks again when it*)
(* ends.  What a request reads holds until the next deletion, because the  *)
(* worker neither takes photos away nor brings any back.                   *)
(***************************************************************************)

RowStatuses == {"UPLOADING", "PROCESSING", "READY", "FAILED", "gone"}
ListData  == [items : [Rows -> RowStatuses \cup {"none"}], cursor : 0..MaxRows, pages : Nat, more : BOOLEAN]
ListRows  == [data : ListData, state : {"pending", "success", "error"}, stale : BOOLEAN, last : {"first", "again", "next"}]
FetchRows == [on : {"none", "first", "again", "next"}, data : ListData, read : BOOLEAN]

LibraryTyped ==
    /\ row \in [Rows -> RowStatuses]
    /\ library \in [Filters -> ListRows] /\ snapshots \in [Filters -> ListRows]
    /\ fetch \in [Filters -> FetchRows]
    /\ pendingDelete \subseteq Rows /\ deleted \subseteq Rows
    /\ deletion \in [todo : SUBSET Rows, photo : 0..MaxRows, call : {"none", "sent", "ok", "404", "error"}]

\* Data that shows no photo that was reported deleted, and all those there
\* are up to its cursor.
Complete(d) ==
    /\ \A p \in deleted : d.items[p] = "none"
    /\ \A p \in Rows : p <= d.cursor /\ row[p] # "gone" => d.items[p] # "none"

\* What was reported deleted is gone.
DeletionOK ==
    /\ deletion.photo = 0 <=> deletion.call = "none"
    /\ deletion.call = "ok" => row[deletion.photo] = "gone"
    /\ \A p \in deleted : row[p] = "gone"

\* A request for the list again has its data at hand, starts from no cursor,
\* and what it read still holds, unless a deletion is under way: that one asks
\* again when it ends.
FetchOK ==
    /\ \A f \in Filters : fetch[f].read => fetch[f].on # "none" /\ fetch[f].data.pages > 0
    /\ fetch["all"].on = "again" =>
         /\ HasData(library["all"])
         /\ ~fetch["all"].read => fetch["all"].data.cursor = 0
         /\ fetch["all"].read /\ ~isPending => Complete(fetch["all"].data)

ListOK == AtRest /\ library["all"].last = "again" => Complete(library["all"].data)

FilterInv  == status \in Filters
LibraryInv == LibraryTyped /\ DeletionOK /\ FetchOK /\ ListOK
-----------------------------------------------------------------------------
LEMMA LibrarySizes ==
    /\ MaxRows \in Nat /\ MaxRows > 0 /\ PageLimit \in Nat /\ PageLimit > 0
    /\ "all" \in Filters /\ IsFiniteSet(Rows) /\ Rows \in SUBSET Nat /\ 0 \notin Rows /\ Rows \subseteq 0..MaxRows
<1>1. MaxRows \in Nat /\ MaxRows > 0 /\ PageLimit \in Nat /\ PageLimit > 0 /\ "all" \in Filters
  BY PhotoLibraryAssumption
<1>2. IsFiniteSet(Rows)
  BY <1>1, FS_Interval DEF Rows
<1>. QED
  BY <1>1, <1>2 DEF Rows

LEMMA NothingTyped ==
    /\ NoData \in ListData /\ NoData.pages = 0 /\ NoData.cursor = 0
    /\ NoList \in ListRows /\ NoFetch \in FetchRows /\ NoFetch.on = "none" /\ NoFetch.read = FALSE
<1>1. NoData \in ListData /\ NoData.pages = 0 /\ NoData.cursor = 0
  BY LibrarySizes DEF NoData, Nothing, ListData
<1>. QED
  BY <1>1 DEF NoList, ListRows, NoFetch, FetchRows

\* A set of rows has a last one.
LEMMA LargestOf ==
    ASSUME NEW S \in SUBSET Rows, S # {}, NEW none
    PROVE  Largest(S, none) \in S /\ \A q \in S : q <= Largest(S, none)
<1> DEFINE Above == {n \in Nat : \A q \in S : q <= n}
<1>1. MaxRows \in Above
  BY LibrarySizes DEF Rows
<1>2. PICK n \in Above : \A m \in Above : n <= m
  BY <1>1, Least
<1>3. n \in S
  <2>1. SUFFICES ASSUME n \notin S PROVE FALSE
    OBVIOUS
  <2>2. \A q \in S : q < n /\ q \in Nat /\ q > 0
    BY <2>1, LibrarySizes DEF Rows
  <2>3. n - 1 \in Above
    BY <2>2
  <2>. QED
    BY <1>2, <2>3
<1>4. \E p \in S : \A q \in S : q <= p
  BY <1>2, <1>3
<1> HIDE DEF Above
<1>5. Largest(S, none) = CHOOSE p \in S : \A q \in S : q <= p
  BY DEF Largest
<1>. QED
  BY <1>4, <1>5, Zenon

\* What comes before one of the newest is one of them.
LEMMA NewestClosed ==
    ASSUME NEW S \in SUBSET Rows, NEW n \in Nat, NEW c \in Newest(S, n), NEW p \in S, p <= c
    PROVE  p \in Newest(S, n)
<1> DEFINE A == {q \in S : q < p}
           B == {q \in S : q < c}
<1>1. A \in SUBSET B
  <2>1. c \in Nat /\ p \in Nat /\ \A q \in S : q \in Nat
    BY LibrarySizes DEF Newest
  <2>2. \A q \in S : q < p => q < c
    BY <2>1
  <2>. QED
    BY <2>2
<1>2. IsFiniteSet(B)
  BY LibrarySizes, FS_Subset
<1>3. Cardinality(A) <= Cardinality(B) /\ Cardinality(A) \in Nat /\ Cardinality(B) \in Nat
  <2> HIDE DEF A, B
  <2>. QED
    BY <1>1, <1>2, FS_Subset, FS_CardinalityType
<1>4. Cardinality(B) < n
  BY DEF Newest
<1>5. Cardinality(A) < n
  <2> HIDE DEF A, B
  <2>. QED
    BY <1>3, <1>4
<1>. QED
  BY <1>5 DEF Newest

LEMMA PagesPositive ==
    ASSUME NEW S \in SUBSET Rows
    PROVE  PagesOf(S) \in Nat /\ PagesOf(S) > 0
<1>1. CASE S = {}
  BY <1>1 DEF PagesOf
<1>2. CASE S # {}
  <2>1. IsFiniteSet(S)
    BY LibrarySizes, FS_Subset
  <2>2. Cardinality(S) \in Nat /\ Cardinality(S) # 0
    BY <1>2, <2>1, FS_CardinalityType, FS_EmptySet
  <2> DEFINE m == Cardinality(S)
  <2>3. PagesOf(S) = (m + PageLimit - 1) \div PageLimit
    BY <1>2 DEF PagesOf
  <2>4. m \in Nat /\ m > 0
    BY <2>2
  <2> HIDE DEF m
  <2>. QED
    BY <2>3, <2>4, LibrarySizes
<1>. QED
  BY <1>1, <1>2

\* What a request reads: photos that are there; all of them up to its cursor,
\* when it starts from none.
LEMMA ReadOK ==
    ASSUME LibraryInv, NEW f \in Filters, fetch[f].on # "none", ~fetch[f].read
    PROVE  /\ ListRead(f) \in ListData /\ ListRead(f).pages > 0
           /\ f = "all" /\ fetch[f].on = "again" => Complete(ListRead(f))
<1> DEFINE old  == fetch[f].data
           next == fetch[f].on = "next"
           S    == Matching(f, IF next THEN old.cursor ELSE 0)
           n    == IF next \/ old.pages = 0 THEN PageLimit ELSE old.pages * PageLimit
           got  == Newest(S, n)
<1>1. fetch[f] \in FetchRows /\ old \in ListData
  BY DEF LibraryInv, LibraryTyped, FetchRows
<1>2. old.cursor \in 0..MaxRows /\ old.pages \in Nat /\ old.items \in [Rows -> RowStatuses \cup {"none"}]
  BY <1>1 DEF ListData
<1>3. n \in Nat
  BY <1>2, LibrarySizes
<1>4. S \in SUBSET Rows /\ got \in SUBSET S /\ \A p \in S : row[p] # "gone"
  BY DEF Matching, Newest
<1>5. ListRead(f) = [items  |-> [p \in Rows |-> IF p \in got THEN row[p] ELSE IF next THEN old.items[p] ELSE "none"],
                     cursor |-> Largest(got, old.cursor),
                     pages  |-> PagesOf(got) + IF next THEN old.pages ELSE 0,
                     more   |-> S # got]
  BY DEF ListRead
<1>6. PagesOf(got) \in Nat /\ PagesOf(got) > 0
  BY <1>4, PagesPositive
<1>7. Largest(got, old.cursor) \in 0..MaxRows
  <2>1. CASE got = {}
    BY <2>1, <1>2 DEF Largest
  <2>2. CASE got # {}
    BY <2>2, <1>4, LargestOf, LibrarySizes
  <2>. QED
    BY <2>1, <2>2
<1>8. row \in [Rows -> RowStatuses]
  BY DEF LibraryInv, LibraryTyped
<1> HIDE DEF S, n, got, next, old
<1>9. ListRead(f) \in ListData /\ ListRead(f).pages > 0
  BY <1>2, <1>5, <1>6, <1>7, <1>8 DEF ListData
<1>10. ASSUME f = "all", fetch[f].on = "again" PROVE Complete(ListRead(f))
  <2>1. ~next /\ old.cursor = 0
    BY <1>10 DEF LibraryInv, FetchOK, next, old
  <2>2. S = {p \in Rows : p > 0 /\ row[p] # "gone"}
    BY <1>10, <2>1 DEF S, Matching
  <2>3. \A p \in deleted : p \in Rows /\ p \notin got
    BY <1>4 DEF LibraryInv, LibraryTyped, DeletionOK
  <2>4. \A p \in deleted : ListRead(f).items[p] = "none"
    BY <1>5, <2>1, <2>3
  <2>5. ASSUME NEW p \in Rows, p <= ListRead(f).cursor, row[p] # "gone"
        PROVE  ListRead(f).items[p] # "none"
    <3>1. got # {}
      BY <2>1, <2>5, <1>5, LibrarySizes DEF Largest, Rows
    <3>2. Largest(got, old.cursor) \in got
      BY <3>1, <1>4, LargestOf
    <3>3. p \in S
      BY <2>2, <2>5, LibrarySizes DEF Rows
    <3>4. p \in got
      BY <3>2, <3>3, <2>5, <1>3, <1>4, <1>5, NewestClosed DEF got
    <3>. QED
      BY <3>4, <1>5, <1>8 DEF RowStatuses
  <2>. QED
    BY <2>4, <2>5 DEF Complete
<1>. QED
  BY <1>9, <1>10

-----------------------------------------------------------------------------
LEMMA LibraryInitInv == LibraryInit => FilterInv /\ LibraryInv
<1>. SUFFICES ASSUME LibraryInit PROVE FilterInv /\ LibraryInv
  OBVIOUS
<1>1. /\ row \in [Rows -> Arriving] /\ library = [f \in Filters |-> NoList] /\ snapshots = [f \in Filters |-> NoList]
      /\ fetch = [f \in Filters |-> IF f = "all" THEN [NoFetch EXCEPT !.on = "first"] ELSE NoFetch]
      /\ pendingDelete = {} /\ deleted = {} /\ deletion = [todo |-> {}, photo |-> 0, call |-> "none"]
  BY DEF LibraryInit, NoLists, NoDeletion
<1>2. [NoFetch EXCEPT !.on = "first"] \in FetchRows /\ [NoFetch EXCEPT !.on = "first"].on = "first"
      /\ [NoFetch EXCEPT !.on = "first"].read = FALSE
  BY NothingTyped DEF FetchRows
<1>3. row \in [Rows -> RowStatuses]
  BY <1>1, PhotoLibraryAssumption DEF RowStatuses
<1>4. fetch \in [Filters -> FetchRows] /\ fetch["all"].on = "first" /\ \A f \in Filters : ~fetch[f].read
  BY <1>1, <1>2, NothingTyped, LibrarySizes
<1>5. LibraryTyped
  BY <1>1, <1>3, <1>4, NothingTyped, LibrarySizes DEF LibraryTyped
<1>6. DeletionOK /\ FetchOK /\ ListOK
  BY <1>1, <1>4 DEF DeletionOK, FetchOK, ListOK, AtRest
<1>7. FilterInv
  BY LibrarySizes DEF LibraryInit, FilterInv
<1>. QED
  BY <1>5, <1>6, <1>7 DEF LibraryInv

\* A request for a list.
LEMMA SentOK ==
    ASSUME NEW l \in ListRows, NEW on \in {"first", "again", "next"}
    PROVE  /\ Sent(l, on) \in FetchRows /\ Sent(l, on).on # "none" /\ ~Sent(l, on).read
           /\ Sent(l, on).on = "again" => HasData(l) /\ Sent(l, on).data.cursor = 0
           /\ HasData(l) => Sent(l, on).on = on
           /\ Started(l) \in ListRows /\ (HasData(l) <=> HasData(Started(l)))
           /\ Started(l).data = l.data
<1> DEFINE fresh == [NoData EXCEPT !.pages = l.data.pages]
           d == IF on = "next" THEN l.data ELSE fresh
           o == IF HasData(l) THEN on ELSE "first"
<1>1. l.data \in ListData /\ l.data.pages \in Nat
  BY DEF ListRows, ListData
<1>2. fresh \in ListData /\ fresh.cursor = 0
  BY <1>1, NothingTyped DEF ListData
<1>3. d \in ListData /\ (on # "next" => d.cursor = 0)
  BY <1>1, <1>2
<1>4. o \in {"first", "again", "next"}
  OBVIOUS
<1>5. Sent(l, on) = [on |-> o, read |-> FALSE, data |-> d]
  BY DEF Sent
<1> HIDE DEF d, o, fresh
<1>6. Sent(l, on) \in FetchRows /\ Sent(l, on).on = o /\ Sent(l, on).data = d /\ ~Sent(l, on).read
  BY <1>3, <1>4, <1>5 DEF FetchRows
<1>7. Started(l) \in ListRows /\ Started(l).data = l.data
  BY DEF Started, ListRows
<1>. QED
  BY <1>3, <1>4, <1>6, <1>7 DEF HasData, o

LEMMA StartStep ==
    ASSUME LibraryInv, NEW f \in Filters, NEW on \in {"again", "next"}, Start(f, on),
           UNCHANGED <<row, pendingDelete, deletion, snapshots, deleted>>
    PROVE  LibraryInv'
<1>1. LibraryTyped /\ DeletionOK /\ FetchOK /\ ListOK
  BY DEF LibraryInv
<1>2. library[f] \in ListRows
  BY <1>1 DEF LibraryTyped
<1> DEFINE s == Sent(library[f], on)
           l == Started(library[f])
<1>3. /\ s \in FetchRows /\ s.on # "none" /\ ~s.read
      /\ s.on = "again" => HasData(library[f]) /\ s.data.cursor = 0
      /\ l \in ListRows /\ (HasData(library[f]) <=> HasData(l))
  BY <1>2, SentOK
<1>4. fetch' = [fetch EXCEPT ![f] = s] /\ library' = [library EXCEPT ![f] = l]
  BY DEF Start
<1> HIDE DEF s, l
<1>5. LibraryTyped'
  BY <1>1, <1>3, <1>4 DEF LibraryTyped
<1>6. DeletionOK'
  BY <1>1 DEF DeletionOK
<1>7. CASE f = "all"
  <2>1. fetch'["all"] = s /\ library'["all"] = l /\ \A g \in Filters \ {f} : fetch'[g] = fetch[g]
    BY <1>1, <1>4, <1>7, LibrarySizes DEF LibraryTyped
  <2>2. FetchOK'
    BY <1>1, <1>3, <1>7, <2>1 DEF FetchOK
  <2>3. ListOK'
    BY <1>3, <2>1 DEF ListOK, AtRest
  <2>. QED
    BY <1>5, <1>6, <2>2, <2>3 DEF LibraryInv
<1>8. CASE f # "all"
  <2>1. fetch'["all"] = fetch["all"] /\ library'["all"] = library["all"] /\ fetch'[f] = s /\ \A g \in Filters \ {f} : fetch'[g] = fetch[g]
    BY <1>1, <1>4, <1>8, LibrarySizes DEF LibraryTyped
  <2>2. FetchOK'
    BY <1>1, <1>3, <2>1 DEF FetchOK, Complete, isPending
  <2>3. ListOK'
    BY <1>1, <2>1 DEF ListOK, AtRest, Complete, isPending
  <2>. QED
    BY <1>5, <1>6, <2>2, <2>3 DEF LibraryInv
<1>. QED
  BY <1>7, <1>8

\* A step that leaves the lists, the requests and the deletion alone.
LEMMA Aside ==
    ASSUME LibraryInv, UNCHANGED <<row, library, fetch, deletion, snapshots, deleted>>, pendingDelete' \subseteq Rows
    PROVE  LibraryInv'
BY DEF LibraryInv, LibraryTyped, DeletionOK, FetchOK, ListOK, Complete, AtRest, isPending

LEMMA ReadStep ==
    ASSUME LibraryInv, NEW f \in Filters, ReadList(f)
    PROVE  LibraryInv'
<1>1. LibraryTyped /\ DeletionOK /\ FetchOK /\ ListOK
  BY DEF LibraryInv
<1> DEFINE d == ListRead(f)
           q == [fetch[f] EXCEPT !.data = d, !.read = TRUE]
<1>2. fetch[f].on # "none" /\ fetch' = [fetch EXCEPT ![f] = q] /\ UNCHANGED <<row, library, pendingDelete, deletion, snapshots, deleted>>
  BY DEF ReadList
<1>3. d \in ListData /\ d.pages > 0 /\ (f = "all" /\ fetch[f].on = "again" => Complete(d))
  BY ReadOK DEF ReadList
<1> HIDE DEF d
<1>4. q \in FetchRows /\ q.on = fetch[f].on /\ q.data = d /\ q.read = TRUE
  BY <1>1, <1>3 DEF LibraryTyped, FetchRows
<1> HIDE DEF q
<1>5. LibraryTyped'
  BY <1>1, <1>2, <1>4 DEF LibraryTyped
<1>6. fetch'[f] = q /\ \A g \in Filters \ {f} : fetch'[g] = fetch[g]
  BY <1>1, <1>2 DEF LibraryTyped
<1>7. \A g \in Filters : fetch'[g].read => fetch'[g].on # "none" /\ fetch'[g].data.pages > 0
  BY <1>1, <1>2, <1>3, <1>4, <1>6 DEF FetchOK
<1>8. fetch'["all"].on = fetch["all"].on
  BY <1>4, <1>6, LibrarySizes
<1>9. FetchOK'
  <2>1. SUFFICES ASSUME fetch'["all"].on = "again"
                 PROVE  /\ HasData(library["all"])
                        /\ ~fetch'["all"].read => fetch'["all"].data.cursor = 0
                        /\ fetch'["all"].read /\ ~isPending => Complete(fetch'["all"].data)
    BY <1>2, <1>7 DEF FetchOK, Complete, isPending
  <2>. QED
    BY <1>1, <1>3, <1>4, <1>6, <1>8, <2>1, LibrarySizes DEF FetchOK
<1>10. DeletionOK' /\ ListOK'
  BY <1>1, <1>2, <1>8 DEF DeletionOK, ListOK, AtRest, Complete, isPending
<1>. QED
  BY <1>5, <1>9, <1>10 DEF LibraryInv

LEMMA AnswerStep ==
    ASSUME LibraryInv, NEW f \in Filters, LibraryAnswered(f)
    PROVE  LibraryInv'
<1>1. LibraryTyped /\ DeletionOK /\ FetchOK /\ ListOK
  BY DEF LibraryInv
<1>2. fetch' = [fetch EXCEPT ![f] = NoFetch] /\ UNCHANGED <<row, pendingDelete, deletion, snapshots, deleted>> /\ fetch[f].on # "none"
  BY <1>1 DEF LibraryAnswered, FetchOK
<1> DEFINE answer == [data |-> fetch[f].data, state |-> "success", stale |-> FALSE, last |-> fetch[f].on]
           failed == [library[f] EXCEPT !.state = "error"]
<1>3. fetch[f] \in FetchRows /\ library[f] \in ListRows
  BY <1>1 DEF LibraryTyped
<1>4. answer \in ListRows /\ failed \in ListRows /\ answer.last = fetch[f].on /\ answer.data = fetch[f].data /\ failed.state = "error"
      /\ failed.data = library[f].data
  BY <1>2, <1>3 DEF FetchRows, ListRows
<1>5. \/ library' = [library EXCEPT ![f] = answer] /\ fetch[f].read
      \/ library' = [library EXCEPT ![f] = failed]
  BY DEF LibraryAnswered
<1> HIDE DEF answer, failed
<1>6. LibraryTyped'
  BY <1>1, <1>2, <1>4, <1>5, NothingTyped DEF LibraryTyped
<1>7. DeletionOK'
  BY <1>1, <1>2 DEF DeletionOK
<1>8. fetch'[f] = NoFetch /\ \A g \in Filters \ {f} : fetch'[g] = fetch[g] /\ library'[g] = library[g]
  BY <1>1, <1>2, <1>5 DEF LibraryTyped
<1>9. CASE f = "all"
  <2>1. FetchOK'
    BY <1>1, <1>8, <1>9, NothingTyped DEF FetchOK
  <2>2. library'["all"] \in {answer, failed} /\ (library'["all"] = answer => fetch[f].read)
    <3>1. library \in [Filters -> ListRows] /\ "all" \in Filters
      BY <1>1, LibrarySizes DEF LibraryTyped
    <3>2. CASE library' = [library EXCEPT ![f] = answer] /\ fetch[f].read
      BY <1>9, <3>1, <3>2
    <3>3. CASE library' = [library EXCEPT ![f] = failed]
      <4>1. library'["all"] = failed
        BY <1>9, <3>1, <3>3
      <4>2. answer # failed
        BY <1>4 DEF answer
      <4>. QED
        BY <4>1, <4>2
    <3>. QED
      BY <1>5, <3>2, <3>3
  <2>3. ListOK'
    <3>1. SUFFICES ASSUME AtRest', library'["all"].last = "again" PROVE Complete(library'["all"].data)
      BY <1>2 DEF ListOK, Complete
    <3>2. library'["all"] = answer /\ fetch[f].read /\ ~isPending
      BY <1>2, <1>4, <2>2, <3>1 DEF AtRest, isPending
    <3>. QED
      BY <1>1, <1>4, <1>9, <3>1, <3>2 DEF FetchOK
  <2>. QED
    BY <1>6, <1>7, <2>1, <2>3 DEF LibraryInv
<1>10. CASE f # "all"
  <2>1. fetch'["all"] = fetch["all"] /\ library'["all"] = library["all"]
    BY <1>8, <1>10, LibrarySizes
  <2>2. FetchOK'
    BY <1>1, <1>2, <1>8, <2>1, NothingTyped DEF FetchOK, Complete, isPending
  <2>3. ListOK'
    BY <1>1, <1>2, <2>1 DEF ListOK, AtRest, Complete, isPending
  <2>. QED
    BY <1>6, <1>7, <2>2, <2>3 DEF LibraryInv
<1>. QED
  BY <1>9, <1>10

\* The server: a row that is gone stays gone, one that is there stays there
\* unless a deletion is under way.
LEMMA RowStep ==
    ASSUME LibraryInv, UNCHANGED <<library, fetch, pendingDelete, snapshots, deleted>>, row' \in [Rows -> RowStatuses],
           \A p \in Rows : row[p] = "gone" => row'[p] = "gone",
           \/ UNCHANGED deletion /\ \A p \in Rows : row'[p] = "gone" => row[p] = "gone"
           \/ /\ deletion' \in [todo : SUBSET Rows, photo : 0..MaxRows, call : {"ok", "404", "error"}]
              /\ deletion.photo # 0 /\ deletion'.photo = deletion.photo
              /\ deletion'.call = "ok" => row'[deletion.photo] = "gone"
    PROVE  LibraryInv'
<1>1. LibraryTyped /\ DeletionOK /\ FetchOK /\ ListOK
  BY DEF LibraryInv
<1>2. deletion \in [todo : SUBSET Rows, photo : 0..MaxRows, call : {"none", "sent", "ok", "404", "error"}]
  BY <1>1 DEF LibraryTyped
<1>3. deletion' \in [todo : SUBSET Rows, photo : 0..MaxRows, call : {"none", "sent", "ok", "404", "error"}]
  BY <1>2
<1>4. LibraryTyped'
  BY <1>1, <1>3 DEF LibraryTyped
<1>5. DeletionOK'
  <2>1. \A p \in deleted : p \in Rows /\ row[p] = "gone"
    BY <1>1 DEF LibraryTyped, DeletionOK
  <2>2. CASE UNCHANGED deletion
    <3>1. deletion.call = "ok" => deletion.photo \in Rows
      BY <1>1, <1>2, LibrarySizes DEF DeletionOK, Rows
    <3>. QED
      BY <1>1, <2>1, <2>2, <3>1 DEF DeletionOK
  <2>3. CASE /\ deletion' \in [todo : SUBSET Rows, photo : 0..MaxRows, call : {"ok", "404", "error"}]
             /\ deletion.photo # 0 /\ deletion'.photo = deletion.photo
             /\ deletion'.call = "ok" => row'[deletion.photo] = "gone"
    BY <1>1, <2>1, <2>3 DEF DeletionOK
  <2>. QED
    BY <2>2, <2>3
<1>6. CASE deletion'.photo # 0
  BY <1>1, <1>4, <1>5, <1>6 DEF FetchOK, ListOK, AtRest, isPending, LibraryInv, HasData
<1>7. CASE deletion'.photo = 0
  <2>1. UNCHANGED deletion /\ \A p \in Rows : row'[p] = "gone" <=> row[p] = "gone"
    BY <1>7
  <2>. QED
    BY <1>1, <1>4, <1>5, <2>1 DEF LibraryInv, FetchOK, ListOK, AtRest, isPending, Complete, HasData
<1>. QED
  BY <1>4, <1>5, <1>6, <1>7 DEF LibraryInv

\* The deletion of a photo begins.
LEMMA MutateStep ==
    ASSUME LibraryInv, NEW lists \in [Filters -> ListRows], NEW p \in Rows, NEW rest \in SUBSET Rows,
           onMutate(lists, p, rest), UNCHANGED row, pendingDelete' \subseteq Rows,
           deleted' \subseteq Rows, \A q \in deleted' : row[q] = "gone"
    PROVE  LibraryInv'
<1>1. deletion' = [todo |-> rest, photo |-> p, call |-> "sent"] /\ snapshots' = lists
      /\ library' = [f \in Filters |-> withoutPhoto(lists[f], p)] /\ fetch' = [f \in Filters |-> NoFetch]
  BY DEF onMutate
<1>2. \A f \in Filters : withoutPhoto(lists[f], p) \in ListRows
  <2> TAKE f \in Filters
  <2>1. lists[f] \in ListRows /\ lists[f].data \in ListData /\ lists[f].data.items \in [Rows -> RowStatuses \cup {"none"}]
    BY DEF ListRows, ListData
  <2> DEFINE items == [lists[f].data.items EXCEPT ![p] = "none"]
             data == [lists[f].data EXCEPT !.items = items]
  <2>2. items \in [Rows -> RowStatuses \cup {"none"}]
    BY <2>1
  <2>3. data \in ListData
    <3> HIDE DEF items
    <3>. QED
      BY <2>1, <2>2 DEF ListData
  <2>4. CASE HasData(lists[f])
    <3>1. withoutPhoto(lists[f], p) = [lists[f] EXCEPT !.data = data, !.state = "success", !.stale = FALSE]
      BY <2>4 DEF withoutPhoto
    <3> HIDE DEF data
    <3>. QED
      BY <2>1, <2>3, <3>1 DEF ListRows
  <2>5. CASE ~HasData(lists[f])
    BY <2>1, <2>5 DEF withoutPhoto
  <2>. QED
    BY <2>4, <2>5
<1>3. p # 0 /\ p \in 0..MaxRows
  BY LibrarySizes
<1>4. LibraryTyped'
  BY <1>1, <1>2, <1>3, NothingTyped DEF LibraryInv, LibraryTyped
<1>5. DeletionOK'
  BY <1>1, <1>3 DEF DeletionOK
<1>6. FetchOK' /\ ListOK'
  BY <1>1, <1>3, NothingTyped, LibrarySizes DEF FetchOK, ListOK, AtRest, isPending
<1>. QED
  BY <1>4, <1>5, <1>6 DEF LibraryInv

LEMMA SettledStep ==
    ASSUME LibraryInv, DeleteSettled
    PROVE  LibraryInv'
<1>1. LibraryTyped /\ DeletionOK /\ FetchOK /\ ListOK
  BY DEF LibraryInv
<1>2. deletion \in [todo : SUBSET Rows, photo : 0..MaxRows, call : {"none", "sent", "ok", "404", "error"}]
  BY <1>1 DEF LibraryTyped
<1>3. deletion.photo \in Rows
  BY <1>1, <1>2, LibrarySizes DEF DeletionOK, DeleteSettled, Rows
<1>4. UNCHANGED row /\ deleted' \subseteq Rows /\ \A q \in deleted' : row[q] = "gone"
  BY <1>1, <1>3 DEF DeleteSettled, DeletionOK, LibraryTyped
<1> DEFINE settled == Invalidated(Restored)
<1>5. Restored \in [Filters -> ListRows]
  <2>1. \A f \in Filters : [snapshots[f] EXCEPT !.state = "success"] \in ListRows /\ library[f] \in ListRows
    BY <1>1 DEF LibraryTyped, ListRows
  <2>. QED
    BY <2>1 DEF Restored
<1>6. settled \in [Filters -> ListRows]
  <2>1. \A f \in Filters : [Restored[f] EXCEPT !.stale = TRUE] \in ListRows
    BY <1>5 DEF ListRows
  <2>. QED
    BY <2>1 DEF Invalidated
<1>7. HasData(library["all"]) => HasData(settled["all"])
  <2>1. settled["all"] = [Restored["all"] EXCEPT !.stale = TRUE]
    BY LibrarySizes DEF Invalidated
  <2>2. Restored["all"] \in ListRows /\ snapshots["all"] \in ListRows
    BY <1>1, <1>5, LibrarySizes DEF LibraryTyped
  <2>3. HasData(library["all"]) => HasData(Restored["all"])
    <3>1. CASE deletion.call # "ok" /\ HasData(snapshots["all"])
      <4>1. Restored["all"] = [snapshots["all"] EXCEPT !.state = "success"]
        BY <3>1, LibrarySizes DEF Restored
      <4>. QED
        BY <2>2, <3>1, <4>1 DEF HasData, ListRows
    <3>2. CASE ~(deletion.call # "ok" /\ HasData(snapshots["all"]))
      BY <3>2, LibrarySizes DEF Restored
    <3>. QED
      BY <3>1, <3>2
  <2>. QED
    BY <2>1, <2>2, <2>3 DEF HasData, ListRows
<1>8. ASSUME NEW p \in deletion.todo, onMutate(settled, p, deletion.todo \ {p}), UNCHANGED pendingDelete
      PROVE  LibraryInv'
  <2>1. p \in Rows /\ deletion.todo \ {p} \in SUBSET Rows
    BY <1>2
  <2> HIDE DEF settled
  <2>2. pendingDelete' \subseteq Rows
    BY <1>1, <1>8 DEF LibraryTyped
  <2>. QED
    BY <1>4, <1>6, <1>8, <2>1, <2>2, MutateStep
<1>9. ASSUME Refetched(settled), deletion' = NoDeletion, pendingDelete' = {}, snapshots' = NoLists
      PROVE  LibraryInv'
  <2> HIDE DEF settled
  <2>1. /\ fetch' = [f \in Filters |-> IF OnScreen(f) /\ (HasData(settled[f]) \/ fetch[f].on = "none")
                                        THEN Sent(settled[f], "again") ELSE fetch[f]]
        /\ library' = [f \in Filters |-> IF OnScreen(f) THEN Started(settled[f]) ELSE settled[f]]
    BY <1>9 DEF Refetched
  <2>2. \A f \in Filters : /\ Sent(settled[f], "again") \in FetchRows /\ Sent(settled[f], "again").on # "none" /\ ~Sent(settled[f], "again").read
                           /\ Started(settled[f]) \in ListRows
    BY <1>6, SentOK
  <2>3. fetch' \in [Filters -> FetchRows] /\ library' \in [Filters -> ListRows]
    BY <1>1, <1>6, <2>1, <2>2 DEF LibraryTyped
  <2>4. LibraryTyped'
    <3>1. snapshots' \in [Filters -> ListRows]
      BY <1>9, NothingTyped DEF NoLists
    <3>2. deletion' \in [todo : SUBSET Rows, photo : 0..MaxRows, call : {"none", "sent", "ok", "404", "error"}]
      BY <1>9, LibrarySizes DEF NoDeletion
    <3>. QED
      BY <1>1, <1>4, <1>9, <2>3, <3>1, <3>2 DEF LibraryTyped
  <2>5. DeletionOK'
    BY <1>4, <1>9 DEF DeletionOK, NoDeletion
  <2>6. \A f \in Filters : fetch'[f].read => fetch'[f].on # "none" /\ fetch'[f].data.pages > 0
    BY <1>1, <2>1, <2>2 DEF FetchOK
  <2> DEFINE l == settled["all"]
             s == Sent(l, "again")
  <2>7. l \in ListRows /\ s.on # "none" /\ ~s.read /\ (s.on = "again" => HasData(l) /\ s.data.cursor = 0)
        /\ (HasData(l) => HasData(Started(l)))
    BY <1>6, SentOK, LibrarySizes
  <2>8. /\ fetch'["all"] = IF HasData(l) \/ fetch["all"].on = "none" THEN s ELSE fetch["all"]
        /\ library'["all"] = Started(l)
    BY <2>1, LibrarySizes DEF OnScreen
  <2>9. fetch'["all"].on # "none"
    BY <2>7, <2>8
  <2>10. ListOK'
    BY <2>9 DEF ListOK, AtRest
  <2>11. fetch'["all"].on = "again" => HasData(l) /\ ~fetch'["all"].read /\ fetch'["all"].data.cursor = 0
    BY <1>1, <1>7, <2>7, <2>8 DEF FetchOK
  <2>12. FetchOK'
    BY <2>6, <2>7, <2>8, <2>11 DEF FetchOK
  <2>. QED
    BY <2>4, <2>5, <2>10, <2>12 DEF LibraryInv
<1>. QED
  BY <1>8, <1>9 DEF DeleteSettled

LEMMA LibraryNextInv == FilterInv /\ LibraryInv /\ [LibraryNext]_libraryVars => FilterInv' /\ LibraryInv'
<1>. SUFFICES ASSUME FilterInv, LibraryInv, [LibraryNext]_libraryVars PROVE FilterInv' /\ LibraryInv'
  OBVIOUS
<1>0. FilterInv'
  BY DEF FilterInv, LibraryNext, libraryVars, Poll, setStatus, ReadList, LibraryAnswered, LoadMore, RefetchLibrary, PhotoGrid,
         DeletePhotoDialog, handleConfirmDelete, DeleteServed, DeleteSettled, Processed
<1>. SUFFICES LibraryInv'
  BY <1>0
<1>1. LibraryTyped /\ DeletionOK
  BY DEF LibraryInv
<1>2. pendingDelete \subseteq Rows
  BY <1>1 DEF LibraryTyped
<1>3. deletion \in [todo : SUBSET Rows, photo : 0..MaxRows, call : {"none", "sent", "ok", "404", "error"}]
  BY <1>1 DEF LibraryTyped
<1>4. ASSUME NEW f \in Filters, Poll(f) PROVE LibraryInv'
  BY <1>4, StartStep DEF Poll
<1>5. ASSUME NEW f \in Filters, setStatus(f) PROVE LibraryInv'
  <2>1. CASE Start(f, "again")
    BY <1>5, <2>1, StartStep DEF setStatus
  <2>2. CASE UNCHANGED <<library, fetch>>
    BY <1>2, <1>5, <2>2, Aside DEF setStatus
  <2>. QED
    BY <1>5, <2>1, <2>2 DEF setStatus
<1>6. ASSUME NEW f \in Filters, ReadList(f) PROVE LibraryInv'
  BY <1>6, ReadStep
<1>7. ASSUME NEW f \in Filters, LibraryAnswered(f) PROVE LibraryInv'
  BY <1>7, AnswerStep
<1>8. CASE LoadMore \/ RefetchLibrary
  <2>1. status \in Filters
    BY DEF FilterInv
  <2>. QED
    BY <1>8, <2>1, StartStep DEF LoadMore, RefetchLibrary
<1>9. ASSUME NEW shown \in SUBSET Rows, PhotoGrid(shown) PROVE LibraryInv'
  BY <1>9, Aside DEF PhotoGrid
<1>10. CASE DeletePhotoDialog
  BY <1>10, Aside DEF DeletePhotoDialog
<1>11. CASE handleConfirmDelete
  <2>1. PICK p \in pendingDelete : onMutate(library, p, pendingDelete \ {p})
    BY <1>11 DEF handleConfirmDelete
  <2>2. library \in [Filters -> ListRows] /\ deleted \subseteq Rows /\ \A q \in deleted : row[q] = "gone"
    BY <1>1 DEF LibraryTyped, DeletionOK
  <2>3. p \in Rows /\ pendingDelete \ {p} \in SUBSET Rows /\ UNCHANGED <<row, pendingDelete, deleted>>
    BY <1>2, <1>11 DEF handleConfirmDelete
  <2>. QED
    BY <1>2, <2>1, <2>2, <2>3, MutateStep
<1>12. CASE DeleteServed
  <2>1. deletion.photo # 0 /\ deletion.photo \in Rows
    BY <1>1, <1>3, <1>12, LibrarySizes DEF DeleteServed, DeletionOK, Rows
  <2>2. row \in [Rows -> RowStatuses]
    BY <1>1 DEF LibraryTyped
  <2>3. PICK ends \in {"ok", "404", "error"} :
          /\ deletion' = [deletion EXCEPT !.call = ends]
          /\ row' \in {row, [row EXCEPT ![deletion.photo] = "gone"]}
          /\ ends = "ok" => row' = [row EXCEPT ![deletion.photo] = "gone"]
    BY <1>12 DEF DeleteServed
  <2>4. row' \in [Rows -> RowStatuses] /\ \A p \in Rows : row[p] = "gone" => row'[p] = "gone"
    BY <2>2, <2>3 DEF RowStatuses
  <2>5. /\ deletion' \in [todo : SUBSET Rows, photo : 0..MaxRows, call : {"ok", "404", "error"}]
        /\ deletion'.photo = deletion.photo /\ deletion'.call = ends
    BY <1>3, <2>3
  <2>6. ends = "ok" => row'[deletion.photo] = "gone"
    BY <2>1, <2>2, <2>3
  <2>7. UNCHANGED <<library, fetch, pendingDelete, snapshots, deleted>>
    BY <1>12 DEF DeleteServed
  <2>. QED
    BY <2>1, <2>4, <2>5, <2>6, <2>7, RowStep
<1>13. CASE DeleteSettled
  BY <1>13, SettledStep
<1>14. ASSUME NEW p \in Rows, Processed(p) PROVE LibraryInv'
  <2>1. row \in [Rows -> RowStatuses]
    BY <1>1 DEF LibraryTyped
  <2>2. PICK s \in {"PROCESSING", "READY", "FAILED"} : row' = [row EXCEPT ![p] = s] /\ row[p] # "gone"
    BY <1>14 DEF Processed
  <2>3. row' \in [Rows -> RowStatuses] /\ \A q \in Rows : row'[q] = "gone" <=> row[q] = "gone"
    BY <2>1, <2>2 DEF RowStatuses
  <2>4. UNCHANGED <<library, fetch, pendingDelete, snapshots, deleted, deletion>>
    BY <1>14 DEF Processed
  <2>. QED
    BY <2>3, <2>4, RowStep
<1>15. CASE UNCHANGED libraryVars
  BY <1>2, <1>15, Aside DEF libraryVars
<1>. QED
  BY <1>4, <1>5, <1>6, <1>7, <1>8, <1>9, <1>10, <1>11, <1>12, <1>13, <1>14, <1>15 DEF LibraryNext

\* At rest the list of all photos shows none that was reported deleted and
\* misses none that is there, for any number of photos, requests, deletions
\* and failures, a request for the list overtaken by a deletion included
\* (api.ts:83 useDeletePhoto).
THEOREM ListAtRest == LibrarySpec => []NoGhosts
<1>1. LibraryInv => NoGhosts
  <2>. SUFFICES ASSUME LibraryInv, AtRest, library["all"].last = "again"
                PROVE  /\ ShownBy(library["all"]) \cap deleted = {}
                       /\ \A p \in Rows : p <= library["all"].data.cursor /\ row[p] # "gone" => p \in ShownBy(library["all"])
    BY DEF NoGhosts
  <2>. QED
    BY DEF LibraryInv, ListOK, Complete, ShownBy
<1>. QED
  BY <1>1, LibraryInitInv, LibraryNextInv, PTL DEF LibrarySpec

-----------------------------------------------------------------------------
(***************************************************************************)
(* Billing.  A webhook that found its row and was answered has had its     *)
(* effect, for any plans, number of subscriptions and of failures.  Rows   *)
(* are not deleted, so the handler finds the row too; and what comes after *)
(* (a new subscription, a new invoice, a change of plan) is written to     *)
(* other rows or leaves the effect alone.                                  *)
(***************************************************************************)

Plan      == Plans \cup {"none"}
Mode      == Modes \cup {"none", "current"}
SubRows   == [plan : Plan, status : {"none", "active", "expired", "canceled"}, cancel : BOOLEAN, over : BOOLEAN]
SubTables == [SubIds -> SubRows]
Invoices  == [SubIds -> {"none", "open", "paid"}]

\* Rows are made in the order of their ids.
TableOK ==
    /\ subs \in SubTables /\ invoices \in Invoices
    /\ \A n \in SubIds : subs[n].status = "none" => subs[n] = NoSub
    /\ \E k \in 0..MaxSubs : Made = 1..k
    /\ \A n \in SubIds : invoices[n] # "none" => n \in Made

\* The subscription a change is about to write exists, and the invoice it is
\* about to make does not.
ChangeOK ==
    /\ dialog.plan \in Plan /\ dialog.mode \in Mode
    /\ change \in [mode : Mode, plan : Plan, sub : SubIds \cup {0}, left : BOOLEAN,
                   at : {"idle", "sent", "write", "invoice", "ok", "404", "409", "422"}]
    /\ change.at = "write" /\ change.mode # "subscribe" => change.sub \in Made
    /\ change.at = "invoice" => change.sub \in Made /\ invoices[change.sub] = "none"

HookOK ==
    /\ hook \in [type : {"none", "paid", "ended"}, sub : SubIds \cup {0}, failed : BOOLEAN]
    /\ hook # NoHook => HookEvent \in Events

\* Of what found its row, what is recorded is applied, lost, or at hand; so is
\* what is answered.
AccountedFor(e) == Applied(e) \/ e \in lostRecord \/ (hook # NoHook /\ e = HookEvent)
EventsOK ==
    /\ landed \subseteq Events
    /\ \A e \in landed : InTable(e) /\ (e \in recorded \cup answered => AccountedFor(e))

BillingInv == TableOK /\ ChangeOK /\ HookOK /\ EventsOK

-----------------------------------------------------------------------------
\* There is nothing at first.
LEMMA BillingInitInv == BillingInit => BillingInv
<1>. SUFFICES ASSUME BillingInit PROVE BillingInv
  OBVIOUS
<1>1. MaxSubs \in Nat
  BY BillingAssumption
<1>2. NoSub \in SubRows
  BY DEF NoSub, SubRows, Plan
<1>3. subs \in SubTables /\ invoices \in Invoices /\ \A n \in SubIds : subs[n] = NoSub /\ invoices[n] = "none"
  BY <1>2 DEF BillingInit, SubTables, Invoices
<1>4. Made = 1..0 /\ 0 \in 0..MaxSubs
  BY <1>1, <1>3 DEF Made
<1>5. TableOK
  BY <1>3, <1>4 DEF TableOK
<1>6. ChangeOK
  BY DEF BillingInit, ChangeOK, NoChange, NoDialog, Plan, Mode
<1>7. HookOK /\ EventsOK
  BY DEF BillingInit, HookOK, EventsOK, NoHook
<1>. QED
  BY <1>5, <1>6, <1>7 DEF BillingInv

\* An effect stays where the invoices there are stay, and no cancelled
\* subscription is revived.
LEMMA EventsKept ==
    ASSUME BillingInv, UNCHANGED <<hook, recorded, answered, lostRecord, landed>>,
           \A n \in SubIds : /\ invoices[n] # "none" => invoices'[n] = invoices[n]
                             /\ subs[n] # NoSub => subs'[n] # NoSub
                             /\ subs[n].status = "canceled" => subs'[n].status = "canceled"
    PROVE  HookOK' /\ EventsOK'
<1>1. HookOK /\ EventsOK
  BY DEF BillingInv
<1>2. HookOK'
  BY <1>1 DEF HookOK, HookEvent, Events, NoHook
<1>3. \A e \in Events : InTable(e) => InTable(e)' /\ (Applied(e) => Applied(e)')
  BY DEF InTable, Applied, Events, Made
<1>4. \A e \in Events : AccountedFor(e) /\ InTable(e) => AccountedFor(e)'
  BY <1>3 DEF AccountedFor, HookEvent
<1>. QED
  BY <1>1, <1>2, <1>3, <1>4 DEF EventsOK

\* A step that rewrites rows that exist, and revives none.
LEMMA RowsKept ==
    ASSUME BillingInv, UNCHANGED <<invoices, hook, recorded, answered, lostRecord, landed>>, subs' \in SubTables,
           \A n \in SubIds : \/ subs'[n] = subs[n]
                             \/ /\ subs[n].status # "none" /\ subs'[n].status # "none"
                                /\ subs[n].status = "canceled" => subs'[n].status = "canceled"
    PROVE  TableOK' /\ HookOK' /\ EventsOK' /\ Made' = Made
<1>1. TableOK
  BY DEF BillingInv
<1>2. Made' = Made
  BY DEF Made, NoSub
<1>3. TableOK'
  BY <1>1, <1>2 DEF TableOK
<1>4. \A n \in SubIds : /\ invoices[n] # "none" => invoices'[n] = invoices[n]
                        /\ subs[n] # NoSub => subs'[n] # NoSub
                        /\ subs[n].status = "canceled" => subs'[n].status = "canceled"
  <2>1. NoSub.status = "none"
    BY DEF NoSub
  <2>. QED
    BY <2>1
<1>5. HookOK' /\ EventsOK'
  <2>1. UNCHANGED <<hook, recorded, answered, lostRecord, landed>>
    OBVIOUS
  <2>. QED
    BY <1>4, <2>1, EventsKept DEF NoSub
<1>. QED
  BY <1>2, <1>3, <1>5

\* A new row is the next one.
LEMMA RowMade ==
    ASSUME BillingInv, NEW plan \in Plan, CreateSubscription(plan)
    PROVE  \E k \in 0..MaxSubs : /\ k + 1 \in SubIds /\ Cardinality(Made) = k /\ Made = 1..k /\ Made' = 1..(k + 1)
                                 /\ subs' \in SubTables /\ subs'[k + 1].plan = plan
                                 /\ \A n \in SubIds : subs'[n].status = "none" => subs'[n] = NoSub
                                 /\ \A n \in SubIds \ {k + 1} : subs'[n] = subs[n]
<1>1. MaxSubs \in Nat
  BY BillingAssumption
<1>2. PICK k \in 0..MaxSubs : Made = 1..k
  BY DEF BillingInv, TableOK
<1>3. Cardinality(Made) = k
  BY <1>1, <1>2, FS_Interval
<1>4. k + 1 \in SubIds
  BY <1>1, <1>2, <1>3 DEF CreateSubscription, SubIds
<1> DEFINE made == [NoSub EXCEPT !.plan = plan, !.status = "active"]
<1>5. made \in SubRows /\ made.status = "active" /\ made.plan = plan /\ made # NoSub
  BY DEF NoSub, SubRows, Plan
<1>6. subs' = [subs EXCEPT ![k + 1] = made]
  BY <1>3 DEF CreateSubscription
<1> HIDE DEF made
<1>7. subs' \in SubTables /\ subs'[k + 1] = made /\ \A n \in SubIds \ {k + 1} : subs'[n] = subs[n]
  BY <1>4, <1>5, <1>6 DEF BillingInv, TableOK, SubTables
<1>8. Made' = Made \cup {k + 1}
  BY <1>4, <1>5, <1>7 DEF Made
<1>9. Made' = 1..(k + 1)
  BY <1>1, <1>2, <1>8
<1>10. \A n \in SubIds : subs'[n].status = "none" => subs'[n] = NoSub
  BY <1>5, <1>7 DEF BillingInv, TableOK
<1>. QED
  BY <1>2, <1>3, <1>4, <1>5, <1>7, <1>9, <1>10

\* An update leaves the status of its row.
LEMMA RowUpdated ==
    ASSUME BillingInv, NEW n \in SubIds \cup {0}, n \in Made \/ n = 0, NEW mode, NEW plan \in Plan, UpdateSubscription(n, mode, plan)
    PROVE  /\ subs' \in SubTables
           /\ \A o \in SubIds : \/ subs'[o] = subs[o]
                                \/ /\ subs[o].status # "none" /\ subs'[o].status = subs[o].status
                                   /\ subs'[o].plan = subs[o].plan \/ (mode \in {"upgrade", "downgrade"} /\ subs'[o].plan = plan)
<1>1. subs \in SubTables /\ \A o \in SubIds : subs[o].status = "none" => subs[o] = NoSub
  BY DEF BillingInv, TableOK
<1>2. CASE n \notin SubIds
  BY <1>1, <1>2 DEF UpdateSubscription, SubTables
<1>3. CASE n \in SubIds
  <2> DEFINE written == IF mode \in {"upgrade", "downgrade"} THEN [subs[n] EXCEPT !.plan = plan]
                    ELSE [subs[n] EXCEPT !.cancel = (mode = "cancel")]
  <2>1. subs[n] \in SubRows
    BY <1>1, <1>3 DEF SubTables
  <2>2. written \in SubRows /\ written.status = subs[n].status
        /\ (written.plan = subs[n].plan \/ (mode \in {"upgrade", "downgrade"} /\ written.plan = plan))
    BY <2>1 DEF SubRows
  <2>3. subs' = [subs EXCEPT ![n] = written]
    BY DEF UpdateSubscription
  <2> HIDE DEF written
  <2>4. subs' \in SubTables /\ subs'[n] = written /\ \A o \in SubIds \ {n} : subs'[o] = subs[o]
    BY <1>1, <1>3, <2>2, <2>3 DEF SubTables
  <2>5. 0 \notin SubIds
    BY DEF SubIds
  <2>6. subs[n].status # "none"
    BY <1>1, <1>3, <2>5 DEF Made
  <2>. QED
    BY <2>2, <2>4, <2>6
<1>. QED
  BY <1>2, <1>3

-----------------------------------------------------------------------------
\* The dialogs write no row.
LEMMA DialogKept ==
    ASSUME BillingInv, BillingPanel \/ handleOpenChange \/ RunChange \/ ChangeAnswered \/ LeftChangeEnds
    PROVE  BillingInv'
<1>1. TableOK /\ ChangeOK /\ HookOK /\ EventsOK
  BY DEF BillingInv
<1>2. UNCHANGED <<subs, invoices, hook, recorded, answered, lostRecord, landed>>
  BY DEF BillingPanel, handleOpenChange, RunChange, ChangeAnswered, LeftChangeEnds
<1>3. TableOK' /\ HookOK' /\ EventsOK' /\ Made' = Made
  BY <1>1, <1>2, RowsKept DEF TableOK
<1>4. CASE BillingPanel
  <2>1. dialog' \in PlanGrid(view) \cup SubscriptionCard(view) /\ UNCHANGED change
    BY <1>4 DEF BillingPanel
  <2>2. dialog'.plan \in Plan /\ dialog'.mode \in Mode
    <3>1. CASE dialog' \in PlanGrid(view)
      <4>1. \A p \in Plans : planAction(view, p) \in Mode
        BY Zenon DEF planAction, Mode, Modes
      <4>. QED
        BY <3>1, <4>1 DEF PlanGrid, PlanCard, Plan
    <3>2. CASE dialog' \in SubscriptionCard(view)
      BY <3>2 DEF SubscriptionCard, Plan, Mode, Modes
    <3>. QED
      BY <2>1, <3>1, <3>2
  <2>3. ChangeOK'
    BY <1>1, <1>2, <1>3, <2>1, <2>2 DEF ChangeOK
  <2>. QED
    BY <1>3, <2>3 DEF BillingInv
<1>5. CASE handleOpenChange
  BY <1>1, <1>2, <1>3, <1>5 DEF BillingInv, ChangeOK, handleOpenChange, NoDialog, Plan, Mode
<1>6. CASE RunChange
  <2>1. PICK mode : change' = [mode |-> mode, plan |-> dialog.plan, at |-> "sent", sub |-> 0, left |-> FALSE] /\ mode = dialog.mode /\ UNCHANGED dialog
    BY <1>6 DEF RunChange
  <2>. QED
    BY <1>1, <1>2, <1>3, <2>1 DEF BillingInv, ChangeOK
<1>7. CASE ChangeAnswered \/ LeftChangeEnds
  <2>1. /\ change' \in {NoChange, [change EXCEPT !.left = TRUE]}
        /\ dialog'.plan \in Plan /\ dialog'.mode \in Mode
    BY <1>1, <1>7 DEF ChangeAnswered, LeftChangeEnds, ChangeOK, NoDialog, Plan, Mode
  <2>2. ChangeOK'
    <3>1. CASE change' = NoChange
      BY <2>1, <3>1 DEF ChangeOK, NoChange, Plan, Mode
    <3>2. CASE change' = [change EXCEPT !.left = TRUE]
      BY <1>1, <1>2, <1>3, <2>1, <3>2 DEF ChangeOK
    <3>. QED
      BY <2>1, <3>1, <3>2
  <2>. QED
    BY <1>3, <2>2 DEF BillingInv
<1>. QED
  BY <1>4, <1>5, <1>6, <1>7

\* A handler's read.
LEMMA CheckKept ==
    ASSUME BillingInv, CheckChange
    PROVE  BillingInv'
<1>1. TableOK /\ ChangeOK /\ HookOK /\ EventsOK
  BY DEF BillingInv
<1>2. TableOK' /\ HookOK' /\ EventsOK' /\ Made' = Made
  BY <1>1, RowsKept DEF TableOK, CheckChange
<1> DEFINE verdict == BillingVerdict(change.mode, change.plan)
<1>3. GetActiveSubscription \in SubIds \cup {0} /\ (GetActiveSubscription # 0 => GetActiveSubscription \in Made)
  BY DEF GetActiveSubscription, Made
<1>4. verdict \in {"write", "ok", "404", "409", "422"} /\ (verdict = "write" /\ change.mode # "subscribe" => GetActiveSubscription # 0)
  BY Zenon DEF BillingVerdict
<1> HIDE DEF verdict
<1>5. change' = [change EXCEPT !.at = verdict, !.sub = GetActiveSubscription]
  BY DEF CheckChange, verdict
<1>6. change' \in [mode : Mode, plan : Plan, sub : SubIds \cup {0}, left : BOOLEAN,
                   at : {"idle", "sent", "write", "invoice", "ok", "404", "409", "422"}]
      /\ change'.at = verdict /\ change'.sub = GetActiveSubscription /\ change'.mode = change.mode
  BY <1>1, <1>3, <1>4, <1>5 DEF ChangeOK
<1>7. ChangeOK'
  BY <1>1, <1>2, <1>3, <1>4, <1>6 DEF ChangeOK, CheckChange
<1>. QED
  BY <1>2, <1>7 DEF BillingInv

\* The subscription query: one that was cancelled and is over is marked.
LEMMA ViewKept ==
    ASSUME BillingInv, useSubscription \/ GetSubscription \/ ViewAnswered \/ (\E n \in SubIds : PeriodEnds(n))
    PROVE  BillingInv'
<1>1. TableOK /\ ChangeOK
  BY DEF BillingInv
<1>2. UNCHANGED <<invoices, dialog, change, hook, recorded, answered, lostRecord, landed>>
  BY DEF useSubscription, GetSubscription, ViewAnswered, PeriodEnds
<1>3. subs' \in SubTables /\ \A n \in SubIds : \/ subs'[n] = subs[n]
                                               \/ /\ subs[n].status # "none" /\ subs'[n].status # "none"
                                                  /\ subs[n].status = "canceled" => subs'[n].status = "canceled"
  <2>1. CASE useSubscription \/ ViewAnswered
    BY <1>1, <2>1 DEF useSubscription, ViewAnswered, TableOK
  <2>2. CASE GetSubscription
    <3>1. \A n \in SubIds : Lazily(n) \in SubRows /\ (Lazily(n) = subs[n] \/ (subs[n].status = "active" /\ Lazily(n).status = "expired"))
      BY <1>1 DEF Lazily, Usable, TableOK, SubTables, SubRows
    <3>2. subs' = [n \in SubIds |-> IF n = GetLatestSubscription THEN Lazily(n) ELSE subs[n]]
      BY <2>2 DEF GetSubscription, ExpiredOnRead
    <3>. QED
      BY <1>1, <3>1, <3>2 DEF TableOK, SubTables
  <2>3. CASE \E n \in SubIds : PeriodEnds(n)
    <3>1. PICK n \in SubIds : n \in Made /\ subs' = [subs EXCEPT ![n].over = TRUE]
      BY <2>3 DEF PeriodEnds
    <3>2. [subs[n] EXCEPT !.over = TRUE] \in SubRows /\ [subs[n] EXCEPT !.over = TRUE].status = subs[n].status
      BY <1>1 DEF TableOK, SubTables, SubRows
    <3>3. subs[n].status # "none"
      BY <1>1, <3>1 DEF TableOK, Made
    <3>. QED
      BY <1>1, <3>1, <3>2, <3>3 DEF TableOK, SubTables
  <2>. QED
    BY <2>1, <2>2, <2>3
<1>4. TableOK' /\ HookOK' /\ EventsOK' /\ Made' = Made
  BY <1>2, <1>3, RowsKept
<1>5. ChangeOK'
  BY <1>1, <1>2, <1>4 DEF ChangeOK
<1>. QED
  BY <1>4, <1>5 DEF BillingInv

\* A handler's write: a row of its own, or an update of one that exists.
LEMMA WriteKept ==
    ASSUME BillingInv, WriteChange
    PROVE  BillingInv'
<1>1. TableOK /\ ChangeOK /\ HookOK /\ EventsOK
  BY DEF BillingInv
<1>2. UNCHANGED <<invoices, dialog, hook, recorded, answered, lostRecord, landed>> /\ change.at = "write" /\ change.plan \in Plan
  BY <1>1 DEF WriteChange, ChangeOK
<1>3. CASE change.mode = "subscribe" /\ CreateSubscription(change.plan)
  <2>1. PICK k \in 0..MaxSubs : /\ k + 1 \in SubIds /\ Cardinality(Made) = k /\ Made = 1..k /\ Made' = 1..(k + 1)
                                /\ subs' \in SubTables
                                /\ \A n \in SubIds : subs'[n].status = "none" => subs'[n] = NoSub
                                /\ \A n \in SubIds \ {k + 1} : subs'[n] = subs[n]
    BY <1>2, <1>3, RowMade
  <2>2. k + 1 \notin Made /\ Made \subseteq Made' /\ k + 1 \in Made' /\ k + 1 \in 0..MaxSubs
    BY <2>1, BillingAssumption DEF SubIds
  <2>3. invoices[k + 1] = "none"
    BY <1>1, <2>1, <2>2 DEF TableOK, Invoices
  <2>4. TableOK'
    BY <1>1, <1>2, <2>1, <2>2 DEF TableOK
  <2>5. HookOK' /\ EventsOK'
    <3>1. subs[k + 1] = NoSub /\ NoSub.status # "canceled"
      BY <2>1, <2>2 DEF Made, NoSub
    <3>2. ASSUME NEW n \in SubIds PROVE (n = k + 1 /\ subs[n] = NoSub) \/ subs'[n] = subs[n]
      BY <2>1, <3>1
    <3>. QED
      BY <1>2, <3>1, <3>2, EventsKept
  <2>6. CASE change' = [change EXCEPT !.at = "invoice", !.sub = Cardinality(Made) + 1]
    <3>1. change' \in [mode : Mode, plan : Plan, sub : SubIds \cup {0}, left : BOOLEAN,
                   at : {"idle", "sent", "write", "invoice", "ok", "404", "409", "422"}]
          /\ change'.at = "invoice" /\ change'.sub = k + 1
      BY <1>1, <2>1, <2>6 DEF ChangeOK
    <3>. QED
      BY <1>1, <1>2, <2>2, <2>3, <2>4, <2>5, <3>1 DEF BillingInv, ChangeOK
  <2>7. CASE change' = [change EXCEPT !.at = "409"]
    BY <1>1, <1>2, <2>4, <2>5, <2>7 DEF BillingInv, ChangeOK
  <2>. QED
    BY <1>3, <2>6, <2>7 DEF WriteChange
<1>4. CASE ~(change.mode = "subscribe" /\ CreateSubscription(change.plan))
  <2>1. PICK at \in {"ok", "409"} : change' = [change EXCEPT !.at = at]
    BY <1>4 DEF WriteChange
  <2>2. subs' \in SubTables /\ \A n \in SubIds : \/ subs'[n] = subs[n]
                                                 \/ subs[n].status # "none" /\ subs'[n].status = subs[n].status
    <3>1. CASE UNCHANGED subs
      BY <1>1, <3>1 DEF TableOK
    <3>2. CASE change.mode # "subscribe" /\ UpdateSubscription(change.sub, change.mode, change.plan)
      <4>1. change.sub \in Made /\ change.sub \in SubIds
        BY <1>1, <1>2, <3>2 DEF ChangeOK, Made
      <4>. QED
        BY <1>2, <3>2, <4>1, RowUpdated
    <3>. QED
      BY <1>4, <3>1, <3>2 DEF WriteChange
  <2>3. TableOK' /\ HookOK' /\ EventsOK' /\ Made' = Made
    BY <1>2, <2>2, RowsKept
  <2>4. ChangeOK'
    BY <1>1, <1>2, <2>1, <2>3 DEF ChangeOK
  <2>. QED
    BY <2>3, <2>4 DEF BillingInv
<1>. QED
  BY <1>3, <1>4

\* The invoice of a subscription that had none.
LEMMA InvoiceKept ==
    ASSUME BillingInv, CreateInvoice
    PROVE  BillingInv'
<1>1. TableOK /\ ChangeOK
  BY DEF BillingInv
<1>2. change.sub \in Made /\ change.sub \in SubIds /\ invoices[change.sub] = "none"
  BY <1>1 DEF CreateInvoice, ChangeOK, Made
<1>3. UNCHANGED <<subs, dialog, hook, recorded, answered, lostRecord, landed>> /\ Made' = Made
      /\ invoices' = [invoices EXCEPT ![change.sub] = "open"] /\ change' = [change EXCEPT !.at = "ok"]
  BY DEF CreateInvoice, Made
<1>4. invoices' \in Invoices /\ \A n \in SubIds : n = change.sub \/ invoices'[n] = invoices[n]
  BY <1>1, <1>2, <1>3 DEF TableOK, Invoices
<1>5. TableOK'
  BY <1>1, <1>2, <1>3, <1>4 DEF TableOK
<1>6. HookOK' /\ EventsOK'
  BY <1>2, <1>3, <1>4, EventsKept
<1>7. ChangeOK'
  BY <1>1, <1>3 DEF ChangeOK
<1>. QED
  BY <1>5, <1>6, <1>7 DEF BillingInv

\* The other page's request: with its invoice, where it makes a subscription.
LEMMA OtherPageKept ==
    ASSUME BillingInv, OtherPage
    PROVE  BillingInv'
<1>1. TableOK /\ ChangeOK /\ HookOK /\ EventsOK
  BY DEF BillingInv
<1>2. UNCHANGED <<dialog, change, hook, recorded, answered, lostRecord, landed>>
  BY DEF OtherPage
<1>3. PICK mode \in Modes, plan \in Plans :
         \/ /\ CreateSubscription(plan)
            /\ invoices' = [invoices EXCEPT ![Cardinality(Made) + 1] = "open"]
         \/ UpdateSubscription(GetActiveSubscription, mode, plan) /\ UNCHANGED invoices
  BY DEF OtherPage
<1>4. plan \in Plan
  BY DEF Plan
<1>5. CASE CreateSubscription(plan) /\ invoices' = [invoices EXCEPT ![Cardinality(Made) + 1] = "open"]
  <2>1. PICK k \in 0..MaxSubs : /\ k + 1 \in SubIds /\ Cardinality(Made) = k /\ Made = 1..k /\ Made' = 1..(k + 1)
                                /\ subs' \in SubTables
                                /\ \A n \in SubIds : subs'[n].status = "none" => subs'[n] = NoSub
                                /\ \A n \in SubIds \ {k + 1} : subs'[n] = subs[n]
    BY <1>4, <1>5, RowMade
  <2>2. k + 1 \notin Made /\ Made \subseteq Made' /\ k + 1 \in Made' /\ k + 1 \in 0..MaxSubs
    BY <2>1, BillingAssumption DEF SubIds
  <2>3. invoices[k + 1] = "none"
    BY <1>1, <2>1, <2>2 DEF TableOK, Invoices
  <2>4. invoices' \in Invoices /\ \A n \in SubIds : n = k + 1 \/ invoices'[n] = invoices[n]
    BY <1>1, <1>5, <2>1 DEF TableOK, Invoices
  <2>5. TableOK'
    BY <1>1, <2>1, <2>2, <2>4 DEF TableOK
  <2>6. HookOK' /\ EventsOK'
    <3>1. subs[k + 1] = NoSub /\ NoSub.status # "canceled"
      BY <2>1, <2>2 DEF Made, NoSub
    <3>2. ASSUME NEW n \in SubIds PROVE (n = k + 1 /\ subs[n] = NoSub) \/ subs'[n] = subs[n]
      BY <2>1, <3>1
    <3>3. ASSUME NEW n \in SubIds, invoices[n] # "none" PROVE invoices'[n] = invoices[n]
      BY <2>3, <2>4, <3>3
    <3>. QED
      BY <1>2, <3>1, <3>2, <3>3, EventsKept
  <2>7. ChangeOK'
    BY <1>1, <1>2, <2>2, <2>4 DEF ChangeOK, Made
  <2>. QED
    BY <2>5, <2>6, <2>7 DEF BillingInv
<1>6. CASE UpdateSubscription(GetActiveSubscription, mode, plan) /\ UNCHANGED invoices
  <2>1. GetActiveSubscription \in SubIds \cup {0} /\ (GetActiveSubscription \in Made \/ GetActiveSubscription = 0)
    BY DEF GetActiveSubscription, Made
  <2>2. subs' \in SubTables /\ \A n \in SubIds : \/ subs'[n] = subs[n]
                                                 \/ subs[n].status # "none" /\ subs'[n].status = subs[n].status
    BY <1>4, <1>6, <2>1, RowUpdated
  <2>3. TableOK' /\ HookOK' /\ EventsOK' /\ Made' = Made
    BY <1>2, <1>6, <2>2, RowsKept
  <2>4. ChangeOK'
    BY <1>1, <1>2, <1>6, <2>3 DEF ChangeOK
  <2>. QED
    BY <2>3, <2>4 DEF BillingInv
<1>. QED
  BY <1>3, <1>5, <1>6

-----------------------------------------------------------------------------
\* A delivery: of an event that is recorded, and answered at once; or of one
\* that is not, and is at hand from now on.
LEMMA DeliveryKept ==
    ASSUME BillingInv, RecordWebhookEvent
    PROVE  BillingInv'
<1>1. TableOK /\ ChangeOK /\ HookOK /\ EventsOK
  BY DEF BillingInv
<1>2. UNCHANGED <<subs, invoices, dialog, change, lostRecord>>
  BY DEF RecordWebhookEvent
<1>3. TableOK' /\ ChangeOK'
  BY <1>1, <1>2 DEF TableOK, ChangeOK, Made
<1>4. PICK e \in Events \ answered :
            \/ e \in recorded /\ answered' = answered \cup {e} /\ UNCHANGED <<hook, recorded, landed>>
            \/ /\ e \notin recorded /\ hook = NoHook /\ recorded' = recorded \cup {e}
               /\ hook' = [type |-> e.type, sub |-> e.sub, failed |-> FALSE] /\ UNCHANGED answered
               /\ landed' = IF InTable(e) THEN landed \cup {e} ELSE landed
  BY DEF RecordWebhookEvent
<1>5. CASE e \in recorded /\ answered' = answered \cup {e} /\ UNCHANGED <<hook, recorded, landed>>
  <2>1. HookOK' /\ EventsOK'
    BY <1>1, <1>2, <1>5 DEF HookOK, EventsOK, AccountedFor, Applied, InTable, HookEvent, Made
  <2>. QED
    BY <1>3, <2>1 DEF BillingInv
<1>6. CASE /\ e \notin recorded /\ hook = NoHook /\ recorded' = recorded \cup {e}
           /\ hook' = [type |-> e.type, sub |-> e.sub, failed |-> FALSE] /\ UNCHANGED answered
           /\ landed' = IF InTable(e) THEN landed \cup {e} ELSE landed
  <2>1. HookEvent' = e /\ hook' # NoHook /\ hook'.sub = e.sub
        /\ hook' \in [type : {"none", "paid", "ended"}, sub : SubIds \cup {0}, failed : BOOLEAN]
    BY <1>6 DEF HookEvent, Events, NoHook
  <2>2. HookOK'
    BY <1>2, <1>4, <2>1 DEF HookOK, Events
  <2>3. \A o \in landed : o \in recorded \cup answered => Applied(o) \/ o \in lostRecord
    BY <1>1, <1>6 DEF EventsOK, AccountedFor
  <2>4. \A o \in landed' : InTable(o)' /\ o \in Events
    BY <1>1, <1>2, <1>6 DEF EventsOK, InTable, Made
  <2>5. \A o \in landed' : o \in recorded' \cup answered' => AccountedFor(o)'
    <3>1. ASSUME NEW o \in landed', o \in recorded' \cup answered' PROVE o = e \/ Applied(o) \/ o \in lostRecord
      BY <1>6, <2>3, <3>1
    <3>. QED
      BY <1>2, <2>1, <3>1 DEF AccountedFor, Applied
  <2>6. EventsOK'
    BY <2>4, <2>5 DEF EventsOK, Events
  <2>. QED
    BY <1>3, <2>2, <2>6 DEF BillingInv
<1>. QED
  BY <1>4, <1>5, <1>6

\* The event at hand takes effect.
LEMMA ApplyKept ==
    ASSUME BillingInv, ApplyWebhook
    PROVE  BillingInv'
<1>1. TableOK /\ ChangeOK /\ HookOK /\ EventsOK
  BY DEF BillingInv
<1>2. hook # NoHook /\ hook' = NoHook /\ answered' = answered \cup {HookEvent}
      /\ UNCHANGED <<dialog, change, recorded, lostRecord, landed>>
  BY DEF ApplyWebhook
<1>3. HookEvent \in Events /\ hook.sub \in SubIds
  BY <1>1, <1>2 DEF HookOK, HookEvent, Events
<1>4. CASE hook.type = "ended" /\ InTable(HookEvent) /\ UNCHANGED invoices
           /\ subs' = [subs EXCEPT ![hook.sub].status = "canceled"]
  <2>1. hook.sub \in Made
    BY <1>4 DEF InTable, HookEvent
  <2>2. subs[hook.sub].status # "none" /\ subs[hook.sub] \in SubRows
    BY <1>1, <2>1 DEF TableOK, SubTables, Made
  <2>. DEFINE written == [subs[hook.sub] EXCEPT !.status = "canceled"]
  <2>3. written \in SubRows /\ written.status = "canceled" /\ written # NoSub
    BY <2>2 DEF SubRows, NoSub
  <2>4. subs' = [subs EXCEPT ![hook.sub] = written]
    BY <1>4
  <2>. HIDE DEF written
  <2>5. subs' \in SubTables /\ subs'[hook.sub] = written /\ \A n \in SubIds \ {hook.sub} : subs'[n] = subs[n]
    BY <1>1, <1>3, <2>3, <2>4 DEF TableOK, SubTables
  <2>6. Made' = Made /\ TableOK'
    <3>1. Made' = Made
      BY <1>3, <2>1, <2>3, <2>5 DEF Made
    <3>. QED
      BY <1>1, <1>4, <2>3, <2>5, <3>1 DEF TableOK
  <2>7. ChangeOK'
    BY <1>1, <1>2, <1>4, <2>6 DEF ChangeOK
  <2>8. EventsOK'
    <3>1. \A e \in Events : (InTable(e) => InTable(e)') /\ (Applied(e) => Applied(e)')
      BY <1>4, <2>3, <2>5, <2>6 DEF InTable, Applied, Events
    <3>2. \A e \in Events : e = HookEvent => Applied(e)'
      BY <1>4, <2>3, <2>5 DEF Applied, HookEvent, Events
    <3>. QED
      BY <1>1, <1>2, <3>1, <3>2 DEF EventsOK, AccountedFor
  <2>9. HookOK'
    BY <1>2 DEF HookOK, NoHook
  <2>. QED
    BY <2>6, <2>7, <2>8, <2>9 DEF BillingInv
<1>5. CASE hook.type = "paid" /\ InTable(HookEvent) /\ UNCHANGED subs
           /\ invoices' = [invoices EXCEPT ![hook.sub] = "paid"]
  <2>1. invoices[hook.sub] # "none"
    BY <1>5 DEF InTable, HookEvent
  <2>2. /\ invoices' \in Invoices /\ invoices'[hook.sub] = "paid" /\ Made' = Made
        /\ \A n \in SubIds \ {hook.sub} : invoices'[n] = invoices[n]
    BY <1>1, <1>3, <1>5 DEF TableOK, Invoices, Made
  <2>3. TableOK'
    BY <1>1, <1>5, <2>1, <2>2 DEF TableOK
  <2>4. ChangeOK'
    BY <1>1, <1>2, <2>1, <2>2 DEF ChangeOK, Made
  <2>5. EventsOK'
    BY <1>1, <1>2, <1>3, <1>5, <2>2 DEF EventsOK, AccountedFor, Applied, InTable, HookEvent, Events
  <2>6. HookOK'
    BY <1>2 DEF HookOK, NoHook
  <2>. QED
    BY <2>3, <2>4, <2>5, <2>6 DEF BillingInv
<1>6. CASE ~InTable(HookEvent) /\ UNCHANGED <<subs, invoices>>
  <2>1. TableOK' /\ ChangeOK'
    BY <1>1, <1>2, <1>6 DEF TableOK, ChangeOK, Made
  <2>2. HookEvent \notin landed
    BY <1>1, <1>6 DEF EventsOK
  <2>3. EventsOK'
    BY <1>1, <1>2, <1>6, <2>2 DEF EventsOK, AccountedFor, Applied, InTable, Made
  <2>4. HookOK'
    BY <1>2 DEF HookOK, NoHook
  <2>. QED
    BY <2>1, <2>3, <2>4 DEF BillingInv
<1>. QED
  BY <1>4, <1>5, <1>6 DEF ApplyWebhook

\* The event at hand fails: it is lost, or its record is taken back.
LEMMA FailureKept ==
    ASSUME BillingInv, ApplyFails \/ FailedWebhook
    PROVE  BillingInv'
<1>1. TableOK /\ ChangeOK /\ HookOK /\ EventsOK
  BY DEF BillingInv
<1>2. UNCHANGED <<subs, invoices, dialog, change, answered, landed>> /\ hook # NoHook
  BY <1>1 DEF ApplyFails, FailedWebhook, NoHook
<1>3. TableOK' /\ ChangeOK'
  BY <1>1, <1>2 DEF TableOK, ChangeOK, Made
<1>4. CASE hook' = [hook EXCEPT !.failed = TRUE] /\ UNCHANGED <<recorded, lostRecord>>
  <2>1. hook' \in [type : {"none", "paid", "ended"}, sub : SubIds \cup {0}, failed : BOOLEAN]
        /\ hook' # NoHook /\ HookEvent' = HookEvent /\ hook'.sub = hook.sub
    BY <1>1, <1>4 DEF HookOK, HookEvent, NoHook
  <2>. QED
    BY <1>1, <1>2, <1>3, <1>4, <2>1 DEF BillingInv, HookOK, EventsOK, AccountedFor, Applied, InTable, Made
<1>5. CASE hook' = NoHook /\ lostRecord' = lostRecord \cup {HookEvent} /\ UNCHANGED recorded
  BY <1>1, <1>2, <1>3, <1>5 DEF BillingInv, HookOK, EventsOK, AccountedFor, Applied, InTable, Made, NoHook
<1>6. CASE hook' = NoHook /\ recorded' = recorded \ {HookEvent} /\ lostRecord' = lostRecord \cup (answered \cap {HookEvent})
  <2>1. HookOK'
    BY <1>6 DEF HookOK, NoHook
  <2>2. EventsOK'
    BY <1>1, <1>2, <1>6 DEF EventsOK, AccountedFor, Applied, InTable, Made
  <2>. QED
    BY <1>3, <2>1, <2>2 DEF BillingInv
<1>. QED
  BY <1>4, <1>5, <1>6 DEF ApplyFails, FailedWebhook, DeleteWebhookEvent

\* Every step.
LEMMA BillingKept ==
    ASSUME BillingInv, [BillingNext]_billingVars
    PROVE  BillingInv'
<1>1. CASE BillingNext
  BY <1>1, DialogKept, CheckKept, ViewKept, WriteKept, InvoiceKept, OtherPageKept,
     DeliveryKept, ApplyKept, FailureKept DEF BillingNext
<1>2. CASE UNCHANGED billingVars
  BY <1>2 DEF billingVars, BillingInv, TableOK, ChangeOK, HookOK, EventsOK, AccountedFor, Applied, InTable, HookEvent, Made
<1>. QED
  BY <1>1, <1>2

\* A webhook that found its row and was answered with success has had its
\* effect, or is one whose record a failure left behind (service.go:324), or is
\* being handled again.
THEOREM AnsweredHasEffect == BillingSpec => []AnsweredIsApplied
<1>1. BillingInv /\ [BillingNext]_billingVars => BillingInv'
  BY BillingKept
<1>2. BillingInv => AnsweredIsApplied
  BY DEF BillingInv, EventsOK, AccountedFor, AnsweredIsApplied
<1>. QED
  BY <1>1, <1>2, BillingInitInv, PTL DEF BillingSpec

-----------------------------------------------------------------------------
(* What the grid offers                                                    *)

\* Only the latest subscription can be usable, and what is bought is a plan.
Buys == {"subscribe", "upgrade", "downgrade"}
LatestUsable == \A n \in SubIds : Usable(subs[n]) => Made = 1..n
RowsHavePlan == \A n \in SubIds : subs[n].status # "none" => subs[n].plan \in Plans
PlanBought   == (dialog.mode \in Buys => dialog.plan \in Plans) /\ (change.mode \in Buys => change.plan \in Plans)

GridInv == BillingInv /\ LatestUsable /\ RowsHavePlan /\ PlanBought

\* A step that makes no row, and none usable.
LEMMA GridRowsKept ==
    ASSUME GridInv, \A n \in SubIds : \/ subs'[n] = subs[n]
                                     \/ /\ subs[n].status # "none" /\ subs'[n].status # "none"
                                        /\ Usable(subs[n])' => Usable(subs[n])
                                        /\ subs'[n].plan \in Plans
    PROVE  LatestUsable' /\ RowsHavePlan'
<1>1. Made' = Made
  BY DEF Made, NoSub
<1>. QED
  BY <1>1 DEF GridInv, LatestUsable, RowsHavePlan

\* A row that is made is the only usable one.
LEMMA GridRowMade ==
    ASSUME GridInv, NEW plan \in Plans, CreateSubscription(plan)
    PROVE  LatestUsable' /\ RowsHavePlan'
<1>1. plan \in Plan /\ BillingInv
  BY DEF Plan, GridInv
<1>2. PICK k \in 0..MaxSubs : /\ k + 1 \in SubIds /\ Made' = 1..(k + 1) /\ subs'[k + 1].plan = plan
                             /\ \A n \in SubIds \ {k + 1} : subs'[n] = subs[n]
  BY <1>1, RowMade
<1>3. \A n \in SubIds : Usable(subs[n]) => n \in Made
  BY DEF Usable, Made, NoSub
<1>4. \A n \in SubIds : ~Usable(subs[n])
  BY <1>3 DEF CreateSubscription
<1>5. LatestUsable'
  BY <1>2, <1>4 DEF LatestUsable, Usable
<1>6. RowsHavePlan'
  BY <1>2 DEF GridInv, RowsHavePlan
<1>. QED
  BY <1>5, <1>6

\* Each step keeps what the grid relies on.
LEMMA GridKept ==
    ASSUME GridInv, [BillingNext]_billingVars
    PROVE  LatestUsable' /\ RowsHavePlan' /\ PlanBought'
<1>1. BillingInv /\ LatestUsable /\ RowsHavePlan /\ PlanBought
  BY DEF GridInv
<1>2. TableOK /\ ChangeOK
  BY <1>1 DEF BillingInv
<1>3. CASE UNCHANGED <<subs, dialog, change>>
  BY <1>1, <1>3, GridRowsKept DEF PlanBought
<1>4. CASE BillingPanel
  <2>1. UNCHANGED <<subs, change>> /\ dialog' \in PlanGrid(view) \cup SubscriptionCard(view)
    BY <1>4 DEF BillingPanel
  <2>2. dialog'.mode \in Buys => dialog'.plan \in Plans
    BY <2>1 DEF PlanGrid, PlanCard, SubscriptionCard, Buys
  <2>. QED
    BY <1>1, <2>1, <2>2, GridRowsKept DEF PlanBought
<1>5. CASE handleOpenChange \/ ChangeAnswered \/ LeftChangeEnds
  <2>1. /\ UNCHANGED subs /\ dialog' \in {dialog, NoDialog}
        /\ change' = NoChange \/ (change'.mode = change.mode /\ change'.plan = change.plan)
    BY <1>2, <1>5 DEF handleOpenChange, ChangeAnswered, LeftChangeEnds, ChangeOK
  <2>. QED
    BY <1>1, <2>1, GridRowsKept DEF PlanBought, NoDialog, NoChange, Buys
<1>6. CASE RunChange
  <2>1. UNCHANGED <<subs, dialog>> /\ change'.mode = dialog.mode /\ change'.plan = dialog.plan
    BY <1>6 DEF RunChange
  <2>. QED
    BY <1>1, <2>1, GridRowsKept DEF PlanBought
<1>7. CASE CheckChange \/ CreateInvoice
  <2>1. UNCHANGED <<subs, dialog>> /\ change'.mode = change.mode /\ change'.plan = change.plan
    BY <1>2, <1>7 DEF CheckChange, CreateInvoice, ChangeOK
  <2>. QED
    BY <1>1, <2>1, GridRowsKept DEF PlanBought
<1>8. CASE GetSubscription
  <2>1. UNCHANGED <<dialog, change>> /\ subs' = [n \in SubIds |-> IF n = GetLatestSubscription THEN Lazily(n) ELSE subs[n]]
    BY <1>8 DEF GetSubscription, ExpiredOnRead
  <2>2. \A n \in SubIds : Lazily(n) = subs[n] \/
            (subs[n].status = "active" /\ Lazily(n).status = "expired" /\ Lazily(n).plan = subs[n].plan)
    BY <1>2 DEF Lazily, Usable, TableOK, SubTables, SubRows
  <2>3. LatestUsable' /\ RowsHavePlan'
    BY <1>1, <2>1, <2>2, GridRowsKept DEF Usable, RowsHavePlan
  <2>. QED
    BY <1>1, <2>1, <2>3 DEF PlanBought
<1>9. CASE \E n \in SubIds : PeriodEnds(n)
  <2>1. PICK n \in SubIds : n \in Made /\ subs' = [subs EXCEPT ![n].over = TRUE] /\ UNCHANGED <<dialog, change>>
    BY <1>9 DEF PeriodEnds
  <2>2. [subs[n] EXCEPT !.over = TRUE].status = subs[n].status /\ [subs[n] EXCEPT !.over = TRUE].plan = subs[n].plan
    BY <1>2 DEF TableOK, SubTables, SubRows
  <2>3. subs[n].status # "none"
    BY <1>2, <2>1 DEF TableOK, Made
  <2>4. subs'[n].status = subs[n].status /\ subs'[n].plan = subs[n].plan /\ \A o \in SubIds \ {n} : subs'[o] = subs[o]
    BY <1>2, <2>1, <2>2 DEF TableOK, SubTables
  <2>5. LatestUsable' /\ RowsHavePlan'
    BY <1>1, <2>3, <2>4, GridRowsKept DEF Usable, RowsHavePlan
  <2>. QED
    BY <1>1, <2>1, <2>5 DEF PlanBought
<1>10. CASE WriteChange
  <2>1. change.at = "write" /\ UNCHANGED dialog /\ change'.mode = change.mode /\ change'.plan = change.plan
    BY <1>2, <1>10 DEF WriteChange, ChangeOK
  <2>2. PlanBought'
    BY <1>1, <2>1 DEF PlanBought
  <2>3. CASE change.mode = "subscribe" /\ CreateSubscription(change.plan)
    BY <1>1, <2>2, <2>3, GridRowMade DEF PlanBought, Buys
  <2>4. CASE UNCHANGED subs
    BY <2>2, <2>4, GridRowsKept
  <2>5. CASE change.mode # "subscribe" /\ UpdateSubscription(change.sub, change.mode, change.plan)
    <3>1. change.sub \in Made /\ change.sub \in SubIds /\ change.plan \in Plan
      BY <1>2, <2>1, <2>5 DEF ChangeOK, Made
    <3>2. \A o \in SubIds :
             \/ subs'[o] = subs[o]
             \/ /\ subs[o].status # "none" /\ subs'[o].status = subs[o].status
                /\ subs'[o].plan = subs[o].plan \/ (change.mode \in {"upgrade", "downgrade"} /\ subs'[o].plan = change.plan)
      BY <1>1, <2>5, <3>1, RowUpdated
    <3>. QED
      BY <1>1, <2>2, <3>2, GridRowsKept DEF Usable, RowsHavePlan, PlanBought, Buys
  <2>. QED
    BY <1>10, <2>3, <2>4, <2>5 DEF WriteChange
<1>11. CASE OtherPage
  <2>1. PICK mode \in Modes, plan \in Plans : CreateSubscription(plan) \/ UpdateSubscription(GetActiveSubscription, mode, plan)
    BY <1>11 DEF OtherPage
  <2>2. PlanBought'
    BY <1>1, <1>11 DEF OtherPage, PlanBought
  <2>3. CASE CreateSubscription(plan)
    BY <2>2, <2>3, GridRowMade
  <2>4. CASE UpdateSubscription(GetActiveSubscription, mode, plan)
    <3>1. GetActiveSubscription \in SubIds \cup {0} /\ (GetActiveSubscription \in Made \/ GetActiveSubscription = 0) /\ plan \in Plan
      BY DEF GetActiveSubscription, Made, Plan
    <3>2. \A o \in SubIds :
             \/ subs'[o] = subs[o]
             \/ /\ subs[o].status # "none" /\ subs'[o].status = subs[o].status
                /\ subs'[o].plan = subs[o].plan \/ (mode \in {"upgrade", "downgrade"} /\ subs'[o].plan = plan)
      BY <1>1, <2>4, <3>1, RowUpdated
    <3>. QED
      BY <1>1, <2>2, <3>2, GridRowsKept DEF Usable, RowsHavePlan
  <2>. QED
    BY <2>1, <2>3, <2>4
<1>12. CASE ApplyWebhook
  <2>1. UNCHANGED <<dialog, change>> /\ hook # NoHook
    BY <1>12 DEF ApplyWebhook
  <2>2. CASE UNCHANGED subs
    BY <1>1, <2>1, <2>2, GridRowsKept DEF PlanBought
  <2>3. CASE hook.type = "ended" /\ InTable(HookEvent) /\ subs' = [subs EXCEPT ![hook.sub].status = "canceled"]
    <3>1. hook.sub \in Made /\ hook.sub \in SubIds
      BY <2>3 DEF InTable, HookEvent, Made
    <3>2. subs[hook.sub].status # "none"
      BY <1>2, <3>1 DEF TableOK, Made
    <3>3. [subs[hook.sub] EXCEPT !.status = "canceled"].status = "canceled"
          /\ [subs[hook.sub] EXCEPT !.status = "canceled"].plan = subs[hook.sub].plan
      BY <1>2, <3>1 DEF TableOK, SubTables, SubRows
    <3>4. subs'[hook.sub].status = "canceled" /\ subs'[hook.sub].plan = subs[hook.sub].plan
          /\ \A o \in SubIds \ {hook.sub} : subs'[o] = subs[o]
      BY <1>2, <2>3, <3>1, <3>3 DEF TableOK, SubTables
    <3>5. LatestUsable' /\ RowsHavePlan'
      BY <1>1, <3>2, <3>4, GridRowsKept DEF Usable, RowsHavePlan
    <3>. QED
      BY <1>1, <2>1, <3>5 DEF PlanBought
  <2>. QED
    BY <1>12, <2>2, <2>3 DEF ApplyWebhook
<1>. QED
  BY <1>3, <1>4, <1>5, <1>6, <1>7, <1>8, <1>9, <1>10, <1>11, <1>12
  DEF BillingNext, billingVars, useSubscription, ViewAnswered, RecordWebhookEvent, ApplyFails, FailedWebhook

\* The view is of the latest subscription, the rule looks for an active one:
\* unless one has lapsed they are the same, or there is none.
LEMMA ViewMatches ==
    ASSUME GridInv, ~Lapsed
    PROVE  LET v == ViewOf(ExpiredOnRead)
               n == GetActiveSubscription
           IN  \/ ~v.usable /\ v.plan = "free" /\ n = 0
               \/ v.usable /\ v.plan \in Plans /\ n # 0 /\ v.plan = subs[n].plan
<1>1. TableOK /\ LatestUsable /\ RowsHavePlan
  BY DEF GridInv, BillingInv
<1>2. MaxSubs \in Nat
  BY BillingAssumption
<1>3. PICK k \in 0..MaxSubs : Made = 1..k
  BY <1>1 DEF TableOK
<1>4. GetLatestSubscription = k
  BY <1>2, <1>3, FS_Interval DEF GetLatestSubscription
<1>5. \A n \in Made : n \in SubIds /\ (Usable(subs[n]) => n = k)
  <2>1. \A n \in Made : n \in SubIds
    BY DEF Made
  <2>2. \A n \in 1..k : 1..k = 1..n => n = k
    BY <1>2
  <2>. QED
    BY <1>1, <1>3, <2>1, <2>2 DEF LatestUsable
<1>6. CASE k = 0
  <2>1. Made = {}
    BY <1>3, <1>6
  <2>2. GetActiveSubscription = 0
    BY <2>1 DEF GetActiveSubscription
  <2>3. ViewOf(ExpiredOnRead).plan = "free" /\ ~ViewOf(ExpiredOnRead).usable
    BY <1>4, <1>6 DEF ViewOf, NoView
  <2>. QED
    BY <2>2, <2>3
<1>7. CASE k # 0
  <2>1. k \in Made /\ k \in SubIds /\ subs[k] \in SubRows
    BY <1>1, <1>2, <1>3, <1>5, <1>7 DEF TableOK, SubTables
  <2>2. ExpiredOnRead[k] = Lazily(k)
    BY <1>4, <2>1 DEF ExpiredOnRead
  <2>3. CASE Usable(Lazily(k))
    <3>1. Lazily(k) = subs[k] /\ Usable(subs[k]) /\ ~subs[k].over
      BY <2>1, <2>3 DEF Lazily, Usable, Lapsed, SubRows
    <3>2. GetActiveSubscription = k
      BY <1>5, <2>1, <3>1 DEF GetActiveSubscription
    <3>3. subs[k].plan \in Plans
      BY <1>1, <2>1, <3>1 DEF RowsHavePlan, Usable
    <3>4. ViewOf(ExpiredOnRead).plan = subs[k].plan /\ ViewOf(ExpiredOnRead).usable
      BY <1>4, <1>7, <2>2, <3>1 DEF ViewOf
    <3>. QED
      BY <1>7, <3>2, <3>3, <3>4
  <2>4. CASE ~Usable(Lazily(k))
    <3>1. ~(Usable(subs[k]) /\ ~subs[k].over)
      BY <2>1, <2>4 DEF Lazily
    <3>2. GetActiveSubscription = 0
      BY <1>5, <3>1 DEF GetActiveSubscription
    <3>3. ViewOf(ExpiredOnRead).plan = "free" /\ ~ViewOf(ExpiredOnRead).usable
      BY <1>4, <1>7, <2>2, <2>4 DEF ViewOf
    <3>. QED
      BY <3>2, <3>3
  <2>. QED
    BY <2>3, <2>4
<1>. QED
  BY <1>6, <1>7

\* What the grid makes of a view that matches, the rule lets through.
LEMMA OfferAccepted ==
    ASSUME NEW v, NEW d \in PlanGrid(v),
           \/ ~v.usable /\ v.plan = "free" /\ GetActiveSubscription = 0
           \/ v.usable /\ v.plan \in Plans /\ GetActiveSubscription # 0 /\ v.plan = subs[GetActiveSubscription].plan
    PROVE  BillingVerdict(d.mode, d.plan) = "write"
<1>1. PICK p \in Plans : d = [mode |-> planAction(v, p), plan |-> p] /\ d # [mode |-> "current", plan |-> p]
  BY DEF PlanGrid, PlanCard
<1>2. d.mode = planAction(v, p) /\ d.plan = p /\ d.mode # "current"
  BY <1>1
<1>3. PriceOf[p] \in Nat /\ \A q \in Plans : PriceOf[q] \in Nat
  BY BillingAssumption DEF Plans
<1>4. CASE ~v.usable /\ v.plan = "free" /\ GetActiveSubscription = 0
  <2>1. d.mode = "subscribe"
    BY <1>2, <1>4 DEF planAction
  <2>. QED
    BY <1>4, <2>1 DEF BillingVerdict
<1>5. CASE v.usable /\ v.plan \in Plans /\ GetActiveSubscription # 0 /\ v.plan = subs[GetActiveSubscription].plan
  <2>1. \/ d.mode = "upgrade" /\ PriceOf[p] > PriceOf[v.plan]
        \/ d.mode = "downgrade" /\ PriceOf[p] < PriceOf[v.plan]
    BY <1>2, <1>5 DEF planAction
  <2>2. \/ d.mode = "upgrade" /\ ~(PriceOf[p] <= PriceOf[v.plan])
        \/ d.mode = "downgrade" /\ ~(PriceOf[p] >= PriceOf[v.plan])
    BY <1>3, <1>5, <2>1
  <2>. QED
    BY <1>2, <1>5, <2>2 DEF BillingVerdict
<1>. QED
  BY <1>4, <1>5

\* What the plan grid offers on the subscription as it is, the server accepts,
\* for any plans and prices, unless a subscription has lapsed (format.ts:51,
\* service.go:202).
THEOREM OffersAccepted == BillingSpec => []GridAccepted
<1>1. BillingInit => GridInv
  <2>1. BillingInit => LatestUsable /\ RowsHavePlan /\ PlanBought
    BY DEF BillingInit, LatestUsable, RowsHavePlan, PlanBought, Usable, NoSub, NoDialog, NoChange, Buys
  <2>. QED
    BY <2>1, BillingInitInv DEF GridInv
<1>2. GridInv /\ [BillingNext]_billingVars => GridInv'
  BY BillingKept, GridKept DEF GridInv
<1>3. GridInv => GridAccepted
  BY ViewMatches, OfferAccepted DEF GridAccepted
<1>. QED
  BY <1>1, <1>2, <1>3, PTL DEF BillingSpec

-----------------------------------------------------------------------------
(***************************************************************************)
(* The pages together.                                                     *)
(***************************************************************************)

\* Each page goes by its own specification while one of them is open, so that
\* what is proved of the pages holds of the system that is model-checked.
THEOREM PagesKeepApart == PagesSpec => LibrarySpec /\ BillingSpec /\ Spec
<1>1. PagesInit => LibraryInit /\ BillingInit /\ Init
  BY DEF PagesInit
<1>2. [PagesNext]_pageVars => [LibraryNext]_libraryVars /\ [BillingNext]_billingVars /\ [Next]_vars
  BY DEF PagesNext, pageVars
<1>. QED
  BY <1>1, <1>2, PTL DEF PagesSpec, LibrarySpec, BillingSpec, Spec

\* The safety properties of the pages, of any of them that is open (the guest's
\* page, features/gallery; the photos, features/photos; billing).
THEOREM PagesSafe ==
    PagesSpec => [](PromisesSettle /\ GateMeansNoToken /\ NoGhosts /\ GridAccepted /\ AnsweredIsApplied)
BY PagesKeepApart, UrlPromisesSettle, GateOpens, ListAtRest, OffersAccepted, AnsweredHasEffect, PTL

=============================================================================
