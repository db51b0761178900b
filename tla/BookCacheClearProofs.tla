------------------------- MODULE BookCacheClearProofs -------------------------
(***************************************************************************)
(* Theorems about BookCacheClear, for every set of files and whatever card *)
(* call fails: which files a call keeps (lemmas about the list), then the   *)
(* invariant, one lemma for each phase of a call.                           *)
(***************************************************************************)
EXTENDS BookCacheClear, FiniteSetTheorems, SequenceTheorems, TLAPS

\* The statistics files present are finitely many, and fewer come before a
\* newer one than before an older one.
LEMMA PlacesInOrder ==
  ASSUME NEW c
  PROVE  /\ IsFiniteSet(StatsPresent(c)) /\ Cardinality(StatsPresent(c)) \in Nat
         /\ \A n \in StatsPresent(c) :
              Cardinality(Newer(c, n)) \in 0 .. Cardinality(StatsPresent(c)) - 1
         /\ \A m, n \in StatsPresent(c) : m < n => Cardinality(Newer(c, m)) < Cardinality(Newer(c, n))
<1>1. StatsPresent(c) \in SUBSET (1 .. Len(StatsFiles)) /\ Len(StatsFiles) \in Nat
  BY DEF StatsPresent
<1>2. IsFiniteSet(StatsPresent(c))
  <2>1. IsFiniteSet(1 .. Len(StatsFiles))
    BY FS_Interval
  <2> QED
    BY <1>1, <2>1, FS_Subset
<1>3. Cardinality(StatsPresent(c)) \in Nat
  BY <1>2, FS_CardinalityType
<1>4. ASSUME NEW S \in SUBSET StatsPresent(c), NEW T \in SUBSET S, NEW n \in S, n \notin T
      PROVE  Cardinality(T) \in Nat /\ Cardinality(S) \in Nat /\ Cardinality(T) < Cardinality(S)
  <2>1. IsFiniteSet(S) /\ IsFiniteSet(T) /\ Cardinality(T) <= Cardinality(S)
    BY <1>2, FS_Subset
  <2>2. Cardinality(T) # Cardinality(S)
    BY <1>4, <2>1, FS_Subset
  <2> QED
    BY <2>1, <2>2, FS_CardinalityType
<1>5. ASSUME NEW n \in StatsPresent(c)
      PROVE  Cardinality(Newer(c, n)) \in 0 .. Cardinality(StatsPresent(c)) - 1
  <2>1. Newer(c, n) \in SUBSET StatsPresent(c) /\ n \notin Newer(c, n)
    BY <1>1 DEF Newer
  <2>2. Cardinality(Newer(c, n)) \in Nat /\ Cardinality(Newer(c, n)) < Cardinality(StatsPresent(c))
    BY <1>4, <2>1
  <2> QED
    BY <1>3, <2>2
<1>6. ASSUME NEW m \in StatsPresent(c), NEW n \in StatsPresent(c), m < n
      PROVE  Cardinality(Newer(c, m)) < Cardinality(Newer(c, n))
  <2>1. /\ Newer(c, n) \in SUBSET StatsPresent(c) /\ Newer(c, m) \in SUBSET Newer(c, n)
        /\ m \in Newer(c, n) /\ m \notin Newer(c, m)
    BY <1>1, <1>6 DEF Newer
  <2> QED
    BY <1>4, <2>1
<1> QED
  BY <1>2, <1>3, <1>5, <1>6

\* Two files have not the same place.
LEMMA PlacesDiffer ==
  ASSUME NEW c, NEW m \in StatsPresent(c), NEW n \in StatsPresent(c),
         Cardinality(Newer(c, m)) = Cardinality(Newer(c, n))
  PROVE  m = n
<1>1. m \in Int /\ n \in Int
  BY FileAssumption, LenProperties DEF StatsPresent
<1>2. Cardinality(Newer(c, m)) \in Int /\ Cardinality(Newer(c, n)) \in Int
  BY PlacesInOrder
<1>3. ~(m < n) /\ ~(n < m)
  BY <1>2, PlacesInOrder
<1> QED
  BY <1>1, <1>3

\* Each place in the order is that of one file present.
LEMMA PlacesAreTaken ==
  ASSUME NEW c, NEW k \in 1 .. Cardinality(StatsPresent(c))
  PROVE  \E n \in StatsPresent(c) : Cardinality(Newer(c, n)) = k - 1
<1> DEFINE S == StatsPresent(c)
           Places == 0 .. Cardinality(S) - 1
           place == [n \in S |-> Cardinality(Newer(c, n))]
<1>1. place \in Injection(S, Places)
  <2>1. place \in [S -> Places]
    BY PlacesInOrder
  <2>2. ASSUME NEW m \in S, NEW n \in S, place[m] = place[n]
        PROVE  m = n
    BY <2>2, PlacesDiffer
  <2> QED
    BY <2>1, <2>2, Z3 DEF Injection, IsInjective
<1>2. IsFiniteSet(Places) /\ Cardinality(Places) = Cardinality(S)
  <2>1. Cardinality(S) \in Nat /\ 0 \in Int /\ Cardinality(S) - 1 \in Int
    BY PlacesInOrder
  <2>2. /\ IsFiniteSet(Places)
        /\ Cardinality(Places) = IF 0 > Cardinality(S) - 1 THEN 0 ELSE Cardinality(S) - 1 - 0 + 1
    BY <2>1, FS_Interval
  <2> QED
    BY <2>1, <2>2
<1>3. place \in Surjection(S, Places)
  BY <1>1, <1>2, FS_Injection
<1>4. PICK n \in S : place[n] = k - 1
  <2>1. k - 1 \in Places
    BY PlacesInOrder
  <2> QED
    BY <1>3, <2>1 DEF Surjection
<1> QED
  BY <1>4

\* The statistics files to keep are user state, each named once.
LEMMA StatsKeptOnce ==
  ASSUME NEW c
  PROVE  /\ StatsKept(c) \in Seq({StatsFiles[n] : n \in DOMAIN StatsFiles})
         /\ \A j, k \in DOMAIN StatsKept(c) : StatsKept(c)[j] = StatsKept(c)[k] => j = k
<1> DEFINE present == Cardinality(StatsPresent(c))
           m == IF present < MaxStats THEN present ELSE MaxStats
           Nth(k) == CHOOSE n \in StatsPresent(c) : Cardinality(Newer(c, n)) = k - 1
<1>1. m \in Nat /\ 1 .. m \subseteq 1 .. present
  BY BoundAssumption, PlacesInOrder
<1>2. ASSUME NEW k \in 1 .. m
      PROVE  /\ Nth(k) \in DOMAIN StatsFiles /\ Cardinality(Newer(c, Nth(k))) = k - 1
             /\ StatsKept(c)[k] = StatsFiles[Nth(k)]
  <2>1. \E n \in StatsPresent(c) : Cardinality(Newer(c, n)) = k - 1
    BY <1>1, PlacesAreTaken
  <2>2. Nth(k) \in StatsPresent(c) /\ Cardinality(Newer(c, Nth(k))) = k - 1
    BY <2>1
  <2> QED
    BY <2>2 DEF StatsKept, StatsPresent
<1>3. DOMAIN StatsKept(c) = 1 .. m /\ StatsKept(c) = [k \in 1 .. m |-> StatsFiles[Nth(k)]]
  BY DEF StatsKept
<1> HIDE DEF Nth, m
<1>4. StatsKept(c) \in [1 .. m -> {StatsFiles[n] : n \in DOMAIN StatsFiles}]
  BY <1>2, <1>3
<1>5. StatsKept(c) \in Seq({StatsFiles[n] : n \in DOMAIN StatsFiles})
  BY <1>1, <1>4
<1>6. ASSUME NEW j \in 1 .. m, NEW k \in 1 .. m, StatsKept(c)[j] = StatsKept(c)[k]
      PROVE  j = k
  <2>1. Nth(j) = Nth(k)
    BY <1>2, <1>6, FileAssumption
  <2>2. j - 1 = k - 1
    BY <1>2, <2>1
  <2> QED
    BY <2>2
<1> QED
  BY <1>3, <1>5, <1>6

\* A statistics file is kept exactly when fewer than MaxStats newer ones are
\* present (the sort and the cut in appendStatsPreservedFiles).
THEOREM NewestStatsKept ==
  ASSUME NEW c
  PROVE  Listed(StatsKept(c)) =
           {StatsFiles[n] : n \in {m \in StatsPresent(c) : Cardinality(Newer(c, m)) < MaxStats}}
<1> DEFINE present == Cardinality(StatsPresent(c))
           m == IF present < MaxStats THEN present ELSE MaxStats
           Nth(k) == CHOOSE n \in StatsPresent(c) : Cardinality(Newer(c, n)) = k - 1
           Newest == {n \in StatsPresent(c) : Cardinality(Newer(c, n)) < MaxStats}
<1>1. present \in Nat /\ MaxStats \in Nat /\ m \in Nat /\ m <= MaxStats /\ m <= present
  BY BoundAssumption, PlacesInOrder
<1>2. DOMAIN StatsKept(c) = 1 .. m /\ \A k \in 1 .. m : StatsKept(c)[k] = StatsFiles[Nth(k)]
  BY DEF StatsKept
<1>3. ASSUME NEW k \in 1 .. m
      PROVE  Nth(k) \in StatsPresent(c) /\ Cardinality(Newer(c, Nth(k))) = k - 1
  <2>1. k \in 1 .. Cardinality(StatsPresent(c))
    BY <1>1
  <2>2. \E n \in StatsPresent(c) : Cardinality(Newer(c, n)) = k - 1
    BY <2>1, PlacesAreTaken
  <2> QED
    BY <2>2
<1>4. ASSUME NEW n \in Newest
      PROVE  \E k \in 1 .. m : n = Nth(k)
  <2> DEFINE k == Cardinality(Newer(c, n)) + 1
  <2>1. Cardinality(Newer(c, n)) \in 0 .. present - 1
    BY PlacesInOrder
  <2>2. k \in 1 .. m /\ k - 1 = Cardinality(Newer(c, n))
    BY <1>1, <2>1
  <2>3. Cardinality(Newer(c, Nth(k))) = Cardinality(Newer(c, n)) /\ Nth(k) \in StatsPresent(c)
    BY <1>3, <2>2
  <2>4. n = Nth(k)
    BY <2>3, PlacesDiffer
  <2> QED
    BY <2>2, <2>4
<1>5. ASSUME NEW k \in 1 .. m
      PROVE  Nth(k) \in Newest
  <2>1. k - 1 < MaxStats
    BY <1>1
  <2> QED
    BY <1>3, <2>1
<1> HIDE DEF Nth, m, Newest
<1>6. Listed(StatsKept(c)) = {StatsFiles[Nth(k)] : k \in 1 .. m}
  BY <1>2 DEF Listed
<1>7. {StatsFiles[Nth(k)] : k \in 1 .. m} = {StatsFiles[n] : n \in Newest}
  BY <1>4, <1>5
<1> QED
  BY <1>6, <1>7 DEF Newest

\* The names that a call keeps are user state, each named once.
LEMMA ResolvedOnce ==
  ASSUME NEW c, NEW k \in Kinds
  PROVE  /\ Resolved(k, c) \in Seq(User)
         /\ \A m, n \in DOMAIN Resolved(k, c) : Resolved(k, c)[m] = Resolved(k, c)[n] => m = n
<1> DEFINE Stats == {StatsFiles[n] : n \in DOMAIN StatsFiles}
           fixed == IF k = "book" THEN FixedFiles ELSE <<>>
           kept == StatsKept(c)
<1>1. fixed \in Seq({FixedFiles[n] : n \in DOMAIN FixedFiles})
  <2>1. FixedFiles \in Seq({FixedFiles[n] : n \in DOMAIN FixedFiles})
    <3>1. Len(FixedFiles) \in Nat /\ FixedFiles \in [1 .. Len(FixedFiles) -> STRING]
      BY FileAssumption
    <3>2. FixedFiles \in [1 .. Len(FixedFiles) -> {FixedFiles[n] : n \in DOMAIN FixedFiles}]
      BY <3>1
    <3> QED
      BY <3>2
  <2> QED
    BY <2>1
<1>2. \A m, n \in DOMAIN fixed : fixed[m] = fixed[n] => m = n
  BY FileAssumption
<1>3. kept \in Seq(Stats) /\ \A m, n \in DOMAIN kept : kept[m] = kept[n] => m = n
  BY StatsKeptOnce
<1>4. \A f \in {FixedFiles[n] : n \in DOMAIN FixedFiles} : f \notin Stats
  BY FileAssumption
<1>5. Resolved(k, c) = fixed \o kept
  BY DEF Resolved
<1> HIDE DEF fixed, kept
<1>6. fixed \in Seq(User) /\ kept \in Seq(User)
  BY <1>1, <1>3 DEF User
<1>7. /\ fixed \o kept \in Seq(User) /\ Len(fixed \o kept) = Len(fixed) + Len(kept)
      /\ \A n \in 1 .. Len(fixed) + Len(kept) :
           (fixed \o kept)[n] = IF n <= Len(fixed) THEN fixed[n] ELSE kept[n - Len(fixed)]
  BY <1>6
<1>8. Len(fixed) \in Nat /\ Len(kept) \in Nat /\ DOMAIN fixed = 1 .. Len(fixed)
      /\ DOMAIN kept = 1 .. Len(kept) /\ DOMAIN (fixed \o kept) = 1 .. Len(fixed) + Len(kept)
  OBVIOUS
<1>9. ASSUME NEW m \in DOMAIN (fixed \o kept), NEW n \in DOMAIN (fixed \o kept),
             (fixed \o kept)[m] = (fixed \o kept)[n]
      PROVE  m = n
  <2>1. CASE m <= Len(fixed) /\ n <= Len(fixed)
    BY <1>2, <1>9, <2>1
  <2>2. CASE m > Len(fixed) /\ n > Len(fixed)
    <3>1. m - Len(fixed) \in DOMAIN kept /\ n - Len(fixed) \in DOMAIN kept
      BY <2>2
    <3>2. kept[m - Len(fixed)] = kept[n - Len(fixed)]
      BY <1>9, <2>2
    <3>3. m - Len(fixed) = n - Len(fixed)
      BY <1>3, <3>1, <3>2
    <3> QED
      BY <3>3
  <2>3. ASSUME NEW p \in DOMAIN fixed, NEW q \in DOMAIN kept
        PROVE  fixed[p] # kept[q]
    BY <1>1, <1>3, <1>4
  <2>4. CASE m <= Len(fixed) /\ n > Len(fixed)
    <3>1. m \in DOMAIN fixed /\ n - Len(fixed) \in DOMAIN kept
      BY <2>4
    <3> QED
      BY <1>9, <2>3, <2>4, <3>1
  <2>5. CASE n <= Len(fixed) /\ m > Len(fixed)
    <3>1. n \in DOMAIN fixed /\ m - Len(fixed) \in DOMAIN kept
      BY <1>8, <2>5
    <3> QED
      BY <1>9, <2>3, <2>5, <3>1
  <2> QED
    BY <2>1, <2>2, <2>4, <2>5
<1> QED
  BY <1>5, <1>7, <1>9

\* At power-on nothing has been called.
LEMMA InitIInv == Init => IInv
<1> SUFFICES ASSUME Init
             PROVE  IInv
  OBVIOUS
<1>1. None \in [User -> Contents]
  BY BoundAssumption DEF None, Contents
<1>2. files \in Seq(User) /\ Len(files) = 0 /\ DOMAIN files = {}
  BY DEF Init
<1>3. TypeOK
  <2>1. tmp \in [Kinds -> [User -> Contents]]
    BY <1>1 DEF Init
  <2>2. /\ saves \in 0 .. MaxSaves /\ faults \in 0 .. MaxFaults
        /\ calls \in 0 .. MaxCalls /\ callFaults \in 0 .. MaxFaults
    BY BoundAssumption DEF Init
  <2>3. i \in 1 .. Len(files) + 1
    BY DEF Init
  <2> QED
    BY <1>2, <2>1, <2>2, <2>3 DEF Init, TypeOK, Kinds
<1>4. NamedOnce /\ MovedFiles /\ KeptThroughCall
  BY DEF Init, NamedOnce, MovedFiles, KeptThroughCall, Cleared
<1>5. MovedAreSafe /\ RemovalIsTrue /\ FaultsCounted /\ TrueMeansKept /\ AbortRestores
  BY DEF Init, MovedAreSafe, RemovalIsTrue, FaultsCounted, TrueMeansKept, AbortRestores
<1> QED
  BY <1>3, <1>4, <1>5 DEF IInv

\* A save of a reader between two calls disturbs no promise.
LEMMA ReaderSavesIInv ==
  ASSUME IInv, NEW f \in User, ReaderSaves(f)
  PROVE  IInv'
<1> USE DEF ReaderSaves, callVars, Listed
<1>1. TypeOK'
  <2>1. saves' \in 0 .. MaxSaves /\ 0 \in 0 .. MaxSaves
    <3>1. saves \in 0 .. MaxSaves
      BY DEF IInv, TypeOK
    <3> QED
      BY <3>1, BoundAssumption
  <2>2. cache' \in [User -> Contents] /\ latest' \in [User -> Contents]
    BY <2>1 DEF IInv, TypeOK, Contents
  <2>3. before' \in [cache : [User -> Contents], derived : SUBSET Derived]
    BY <2>1 DEF IInv, TypeOK, Contents
  <2> QED
    BY <2>1, <2>2, <2>3 DEF IInv, TypeOK
<1>2. cache \in [User -> Contents] /\ before.cache \in [User -> Contents]
  BY DEF IInv, TypeOK
<1>3. KeptThroughCall'
  BY <1>2 DEF IInv, KeptThroughCall
<1>4. NamedOnce' /\ MovedFiles' /\ MovedAreSafe' /\ RemovalIsTrue' /\ FaultsCounted'
  BY DEF IInv, NamedOnce, MovedFiles, MovedAreSafe, RemovalIsTrue, FaultsCounted, Moving, Cleared, Returning
<1>5. TrueMeansKept' /\ AbortRestores'
  BY DEF TrueMeansKept, AbortRestores
<1> QED
  BY <1>1, <1>3, <1>4, <1>5 DEF IInv

\* A call starts with all that it promises in the directory.
LEMMA BeginIInv ==
  ASSUME IInv, NEW k \in Kinds,
         (CallNoDirectory /\ k = "stats") \/ Call(k)
  PROVE  IInv'
<1>1. /\ Begin(k) /\ dir' = dir /\ cache' = cache /\ derived' = derived /\ tmp' = tmp /\ saves' = saves
      /\ faults' = faults /\ kind' = k /\ i' = 1 /\ moved' = {} /\ ok' = TRUE /\ clearOk' = TRUE
      /\ files' = Resolved(k, cache) /\ before' = [cache |-> cache, derived |-> derived] /\ callFaults' = 0
      /\ calls < MaxCalls /\ calls' = calls + 1
  BY DEF CallNoDirectory, Call, Begin
<1>2. files' \in Seq(User) /\ \A m, n \in DOMAIN files' : files'[m] = files'[n] => m = n
  BY <1>1, ResolvedOnce
<1>3. Len(files') \in Nat /\ DOMAIN files' = 1 .. Len(files') /\ \A n \in DOMAIN files' : files'[n] \in User
  BY <1>2
<1>4. TypeOK'
  <2>1. latest' \in [User -> Contents]
    <3>1. latest \in [User -> Contents] /\ 0 \in Contents
      BY BoundAssumption DEF IInv, TypeOK, Contents
    <3>2. \/ latest' = latest
          \/ latest' = [f \in User |-> IF f \notin Listed(files') /\ cache[f] # 0 THEN 0 ELSE latest[f]]
      BY DEF CallNoDirectory, Call
    <3> QED
      BY <3>1, <3>2
  <2>2. /\ pc' \in {"idle", "preserve", "rollback", "clear", "restore"}
        /\ result' \in {"true", "false", "aborted", "none"}
    BY DEF CallNoDirectory, Call, IInv, TypeOK
  <2>3. calls' \in 0 .. MaxCalls
    <3>1. calls \in 0 .. MaxCalls
      BY DEF IInv, TypeOK
    <3> QED
      BY <1>1, <3>1, BoundAssumption
  <2>4. i' \in 1 .. Len(files') + 1 /\ callFaults' \in 0 .. MaxFaults
    BY <1>1, BoundAssumption
  <2> QED
    BY <1>1, <1>2, <2>1, <2>2, <2>3, <2>4 DEF IInv, TypeOK
<1>5. cache' = before'.cache /\ derived' = before'.derived
  BY <1>1
<1>6. pc' \in {"idle", "preserve"}
  BY DEF CallNoDirectory, Call, Begin
<1>7. NamedOnce' /\ KeptThroughCall'
  BY <1>2, <1>5 DEF NamedOnce, KeptThroughCall
<1>8. MovedFiles' /\ MovedAreSafe' /\ RemovalIsTrue'
  BY <1>1, <1>3, <1>6 DEF MovedFiles, MovedAreSafe, RemovalIsTrue, Cleared
<1>9. FaultsCounted'
  BY <1>1, <1>6 DEF FaultsCounted, IInv, TypeOK
<1>10. AbortRestores'
  BY <1>5 DEF AbortRestores
<1>11. TrueMeansKept'
  <2> SUFFICES ASSUME pc' = "idle" 
               PROVE  derived' = {} /\ cache' = None
    BY <1>5 DEF TrueMeansKept, None
  <2>1. ~dir
    BY DEF CallNoDirectory, Call
  <2> QED
    BY <1>1, <2>1 DEF IInv, TypeOK
<1> QED
  BY <1>4, <1>7, <1>8, <1>9, <1>10, <1>11 DEF IInv

\* A call that cannot list the directory promises nothing.
LEMMA CallUnlistedIInv ==
  ASSUME IInv, NEW k \in Kinds, CallUnlisted(k)
  PROVE  IInv'
<1> USE DEF CallUnlisted
<1>1. /\ faults' \in 1 .. MaxFaults /\ callFaults' \in 0 .. MaxFaults
      /\ callFaults' <= faults' /\ calls' \in 0 .. MaxCalls
  BY BoundAssumption DEF IInv, TypeOK
<1>2. TypeOK'
  BY <1>1 DEF IInv, TypeOK
<1>3. NamedOnce' /\ MovedFiles' /\ KeptThroughCall'
  BY DEF NamedOnce, MovedFiles, KeptThroughCall, Cleared
<1>4. MovedAreSafe' /\ RemovalIsTrue' /\ FaultsCounted' /\ TrueMeansKept' /\ AbortRestores'
  BY <1>1 DEF MovedAreSafe, RemovalIsTrue, FaultsCounted, TrueMeansKept, AbortRestores
<1> QED
  BY <1>2, <1>3, <1>4 DEF IInv

\* What the invariant says of the loop over the files: the current one, and
\* that it is no other.
LEMMA LoopFacts ==
  ASSUME IInv
  PROVE  /\ files \in Seq(User) /\ Len(files) \in Nat /\ DOMAIN files = 1 .. Len(files) /\ i \in Nat
         /\ \A n \in DOMAIN files : files[n] \in User /\ n \in Nat
         /\ i <= Len(files) => cur \in User /\ i \in DOMAIN files /\ cur \in Listed(files)
         /\ \A n \in DOMAIN files : i <= Len(files) /\ n # i => files[n] # cur
<1>1. files \in Seq(User) /\ Len(files) \in Nat /\ DOMAIN files = 1 .. Len(files)
  BY DEF IInv, TypeOK
<1>2. i \in 1 .. Len(files) + 1
  BY DEF IInv, TypeOK
<1>3. \A n \in DOMAIN files : files[n] \in User
  BY <1>1
<1>4. i <= Len(files) => cur \in User /\ i \in DOMAIN files /\ cur \in Listed(files)
  BY <1>2, <1>3 DEF cur, Listed
<1>5. \A n \in DOMAIN files : i <= Len(files) /\ n # i => files[n] # cur
  BY <1>4 DEF IInv, NamedOnce, cur
<1> QED
  BY <1>1, <1>2, <1>4, <1>5

\* The failures counted stay within their bound.
LEMMA CountingFaults ==
  ASSUME IInv, Fault \/ NoFault
  PROVE  /\ faults' \in 0 .. MaxFaults /\ callFaults' \in 0 .. MaxFaults /\ callFaults' <= faults'
         /\ callFaults \in Nat
         /\ Fault => callFaults' = callFaults + 1
         /\ NoFault => callFaults' = callFaults
<1>1. /\ faults \in 0 .. MaxFaults /\ callFaults \in 0 .. MaxFaults /\ callFaults <= faults
  BY DEF IInv, TypeOK, FaultsCounted
<1> QED
  BY <1>1, BoundAssumption DEF Fault, NoFault

\* What a stale temporary file of an earlier call held is not promised by
\* this one, whose file is still in the directory.
LEMMA RemoveStaleIInv ==
  ASSUME IInv, RemoveStale
  PROVE  IInv'
<1> USE LoopFacts DEF AtFile
<1>1. /\ pc = "preserve" /\ pc' = pc /\ i <= Len(files) /\ kind \in Kinds
      /\ UNCHANGED <<dir, cache, derived, moved, clearOk, result, kind, files, saves, calls, before, latest>>
      /\ cur \in User /\ cur \notin moved /\ Len(files) \in Nat /\ i \in Nat
      /\ \/ tmp' = [tmp EXCEPT ![kind][cur] = 0] /\ NoFault /\ i' = i /\ ok' = ok
         \/ tmp' = tmp /\ Fault /\ i' = i + 1 /\ ok' = FALSE
  BY DEF RemoveStale, frame, IInv, MovedFiles, TypeOK, cur
<1>2. tmp \in [Kinds -> [User -> Contents]] /\ tmp' \in [Kinds -> [User -> Contents]]
      /\ \A f \in User : f # cur => tmp'[kind][f] = tmp[kind][f]
  <2>1. tmp \in [Kinds -> [User -> Contents]] /\ 0 \in Contents
    BY BoundAssumption DEF IInv, TypeOK, Contents
  <2>2. CASE tmp' = [tmp EXCEPT ![kind][cur] = 0]
    BY <2>1, <2>2
  <2>3. CASE tmp' = tmp
    BY <2>1, <2>3
  <2> QED
    BY <1>1, <2>2, <2>3
<1>3. TypeOK'
  <2>1. i' \in 1 .. Len(files') + 1
    BY <1>1
  <2> QED
    BY <1>1, <1>2, <2>1, CountingFaults DEF IInv, TypeOK
<1>4. cache[cur] = before.cache[cur]
  BY <1>1 DEF IInv, MovedFiles, Moving
<1>5. NamedOnce'
  BY <1>1 DEF IInv, NamedOnce
<1>6. KeptThroughCall'
  BY <1>1, <1>2, <1>4 DEF IInv, KeptThroughCall, Listed
<1>7. MovedFiles'
  BY <1>1 DEF IInv, MovedFiles, Moving, Cleared
<1>8. MovedAreSafe'
  BY <1>1, <1>2 DEF IInv, MovedFiles, MovedAreSafe, Listed, Returning
<1>9. FaultsCounted'
  BY <1>1, CountingFaults DEF IInv, FaultsCounted
<1>10. RemovalIsTrue' /\ TrueMeansKept' /\ AbortRestores'
  BY <1>1 DEF RemovalIsTrue, TrueMeansKept, AbortRestores
<1> QED
  BY <1>3, <1>5, <1>6, <1>7, <1>8, <1>9, <1>10 DEF IInv

\* A file is moved with its contents, or it stays where it is.
LEMMA MoveOutIInv ==
  ASSUME IInv, MoveOut
  PROVE  IInv'
<1> USE LoopFacts DEF AtFile
<1>1. /\ pc = "preserve" /\ pc' = pc /\ i <= Len(files) /\ i' = i + 1 /\ kind \in Kinds
      /\ UNCHANGED <<dir, derived, clearOk, result, kind, files, saves, calls, before, latest>>
      /\ cur \in User /\ cur \in Listed(files) /\ cur \notin moved /\ Len(files) \in Nat /\ i \in Nat
      /\ cache \in [User -> Contents] /\ tmp \in [Kinds -> [User -> Contents]]
  BY DEF MoveOut, frame, IInv, MovedFiles, TypeOK, cur
<1>2. cache[cur] = before.cache[cur]
  BY <1>1 DEF IInv, MovedFiles, Moving
<1>3. CASE UNCHANGED <<cache, tmp, moved>> 
  <2>1. \/ cache[cur] = 0 /\ NoFault /\ ok' = ok
        \/ Fault /\ ok' = FALSE
    BY <1>1, <1>3 DEF MoveOut
  <2>2. i' \in 1 .. Len(files') + 1 /\ ok' \in BOOLEAN
    <3>1. ok' \in BOOLEAN
      BY <2>1 DEF IInv, TypeOK
    <3> QED
      BY <1>1, <3>1
  <2>3. TypeOK'
    BY <1>1, <1>3, <2>1, <2>2, CountingFaults DEF IInv, TypeOK
  <2>4. NamedOnce' /\ KeptThroughCall'
    BY <1>1, <1>3 DEF IInv, NamedOnce, KeptThroughCall
  <2>5. MovedFiles'
    BY <1>1, <1>3, <2>1 DEF IInv, MovedFiles, Moving, Cleared, cur
  <2>6. MovedAreSafe'
    BY <1>1, <1>3 DEF IInv, MovedAreSafe, Returning
  <2>7. FaultsCounted'
    BY <1>1, <2>1, CountingFaults DEF IInv, FaultsCounted
  <2>8. RemovalIsTrue' /\ TrueMeansKept' /\ AbortRestores'
    BY <1>1 DEF RemovalIsTrue, TrueMeansKept, AbortRestores
  <2> QED
    BY <2>3, <2>4, <2>5, <2>6, <2>7, <2>8 DEF IInv
<1>4. CASE /\ cache[cur] # 0 /\ NoFault
           /\ tmp' = [tmp EXCEPT ![kind][cur] = cache[cur]]
           /\ cache' = [cache EXCEPT ![cur] = 0]
           /\ moved' = moved \cup {cur} /\ ok' = ok
  <2>1. tmp' \in [Kinds -> [User -> Contents]] /\ cache' \in [User -> Contents] /\ moved' \in SUBSET User
    <3>1. 0 \in Contents
      BY BoundAssumption DEF Contents
    <3>2. moved' \in SUBSET User
      BY <1>1, <1>4 DEF IInv, TypeOK
    <3> QED
      BY <1>1, <1>4, <3>1, <3>2
  <2>2. /\ tmp'[kind][cur] = before.cache[cur] /\ cache'[cur] = 0 /\ cur \in moved' /\ before.cache[cur] # 0
        /\ \A f \in User : f # cur => /\ tmp'[kind][f] = tmp[kind][f] /\ cache'[f] = cache[f]
                                      /\ (f \in moved' <=> f \in moved)
    BY <1>1, <1>2, <1>4
  <2>3. TypeOK'
    <3>1. i' \in 1 .. Len(files') + 1 /\ dir'
      BY <1>1, <1>4 DEF IInv, TypeOK, None
    <3>2. faults' \in 0 .. MaxFaults /\ callFaults' \in 0 .. MaxFaults
      BY <1>4, CountingFaults
    <3> QED
      BY <1>1, <1>4, <2>1, <3>1, <3>2 DEF IInv, TypeOK
  <2>4. NamedOnce'
    BY <1>1 DEF IInv, NamedOnce
  <2>5. KeptThroughCall'
    BY <1>1, <2>2 DEF IInv, KeptThroughCall, Listed
  <2>6. MovedFiles'
    <3>1. moved' \subseteq Listed(files') /\ \A f \in moved' : before'.cache[f] # 0
      BY <1>1, <1>4, <2>2 DEF IInv, MovedFiles
    <3>2. \A n \in DOMAIN files' : n >= i' => files'[n] \notin moved'
      BY <1>1, <2>2 DEF IInv, MovedFiles
    <3>3. derived' = before'.derived /\ \A f \in User \ moved' : cache'[f] = before'.cache[f]
      BY <1>1, <2>2 DEF IInv, MovedFiles, Moving
    <3>4. ok' => \A n \in DOMAIN files' : n < i' /\ before'.cache[files'[n]] # 0 => files'[n] \in moved'
      BY <1>1, <1>4 DEF IInv, MovedFiles, cur
    <3> QED
      BY <1>1, <3>1, <3>2, <3>3, <3>4 DEF MovedFiles, Cleared
  <2>7. MovedAreSafe'
    BY <1>1, <1>4, <2>2 DEF IInv, MovedAreSafe, Returning
  <2>8. FaultsCounted'
    BY <1>1, <1>4, CountingFaults DEF IInv, FaultsCounted
  <2>9. RemovalIsTrue' /\ TrueMeansKept' /\ AbortRestores'
    BY <1>1 DEF RemovalIsTrue, TrueMeansKept, AbortRestores
  <2> QED
    BY <2>3, <2>4, <2>5, <2>6, <2>7, <2>8, <2>9 DEF IInv
<1> QED
  BY <1>3, <1>4 DEF MoveOut

\* The removal begins when every promised file has been moved.
LEMMA PreserveDoneIInv ==
  ASSUME IInv, PreserveDone
  PROVE  IInv'
<1> USE LoopFacts DEF AtEnd
<1>1. /\ pc = "preserve" /\ i > Len(files) /\ i' = 1 /\ ok' = TRUE
      /\ UNCHANGED <<dir, cache, derived, tmp, moved, clearOk, result, faults, callFaults,
                     kind, files, saves, calls, before, latest>>
      /\ pc' = IF ok THEN "clear" ELSE "rollback"
  BY DEF PreserveDone, frame
<1>2. TypeOK'
  BY <1>1 DEF IInv, TypeOK
<1>3. NamedOnce' /\ KeptThroughCall' /\ TrueMeansKept' /\ AbortRestores' /\ RemovalIsTrue'
  BY <1>1 DEF IInv, NamedOnce, KeptThroughCall, TrueMeansKept, AbortRestores, RemovalIsTrue
<1>4. MovedFiles'
  BY <1>1 DEF IInv, MovedFiles, Moving, Cleared, Listed
<1>5. MovedAreSafe'
  BY <1>1 DEF IInv, MovedAreSafe
<1>6. FaultsCounted'
  BY <1>1 DEF IInv, FaultsCounted, TypeOK
<1> QED
  BY <1>2, <1>3, <1>4, <1>5, <1>6 DEF IInv

\* The removal takes nothing that was promised: that has been moved.
LEMMA RemovalIInv ==
  ASSUME IInv, RemoveEntry \/ RemoveDirectory \/ RemoveFails
  PROVE  IInv'
<1> USE LoopFacts
<1>1. /\ pc = "clear" /\ pc' \in {"clear", "restore"}
      /\ UNCHANGED <<tmp, i, moved, ok, result, kind, files, saves, calls, before, latest>>
  BY DEF RemoveEntry, RemoveDirectory, RemoveFails, frame
<1>2. cache \in [User -> Contents] /\ derived \in SUBSET Derived /\ (derived # {} \/ cache # None => dir)
  BY DEF IInv, TypeOK
<1>3. /\ cache' \in [User -> Contents] /\ derived' \subseteq derived
      /\ \A f \in User : cache'[f] \in {0, cache[f]}
  <2>1. CASE RemoveEntry
    <3>1. CASE derived' = derived /\ \E f \in User : cache' = [cache EXCEPT ![f] = 0]
      BY <1>2, <3>1, BoundAssumption DEF Contents
    <3>2. CASE cache' = cache /\ derived' \subseteq derived
      BY <1>2, <3>2
    <3> QED
      BY <2>1, <3>1, <3>2 DEF RemoveEntry
  <2>2. CASE RemoveDirectory
    BY <1>2, <2>2 DEF RemoveDirectory
  <2>3. CASE RemoveFails
    BY <1>2, <2>3 DEF RemoveFails
  <2> QED
    BY <2>1, <2>2, <2>3
<1>4. /\ faults' \in 0 .. MaxFaults /\ callFaults' \in 0 .. MaxFaults /\ callFaults' <= faults'
  BY CountingFaults DEF RemoveEntry, RemoveDirectory, RemoveFails, NoFault
<1>5. TypeOK'
  <2>1. dir' \in BOOLEAN /\ clearOk' \in BOOLEAN
    BY DEF RemoveEntry, RemoveDirectory, RemoveFails, IInv, TypeOK
  <2>2. derived' # {} \/ cache' # None => dir'
    <3>1. CASE RemoveEntry
      <4>1. dir' = dir /\ (derived # {} \/ \E f \in User : cache[f] # 0)
        BY <3>1 DEF RemoveEntry
      <4> QED
        BY <1>2, <4>1 DEF None
    <3>2. CASE RemoveDirectory
      BY <3>2 DEF RemoveDirectory
    <3>3. CASE RemoveFails
      BY <3>3 DEF RemoveFails
    <3> QED
      BY <3>1, <3>2, <3>3
  <2> QED
    BY <1>1, <1>3, <1>4, <2>1, <2>2 DEF IInv, TypeOK
<1>6. NamedOnce' /\ TrueMeansKept' /\ AbortRestores' /\ FaultsCounted'
  BY <1>1, <1>4 DEF IInv, NamedOnce, TrueMeansKept, AbortRestores, FaultsCounted
<1>7. \A f \in Listed(files) : before.cache[f] # 0 => f \in moved /\ tmp[kind][f] = before.cache[f]
  BY <1>1 DEF IInv, MovedFiles, MovedAreSafe, Cleared
<1>8. KeptThroughCall'
  BY <1>1, <1>7 DEF KeptThroughCall
<1>9. MovedFiles'
  BY <1>1 DEF IInv, MovedFiles, Moving, Cleared
<1>10. MovedAreSafe'
  <2>1. i = 1 /\ \A f \in moved : tmp[kind][f] = before.cache[f]
    BY <1>1 DEF IInv, MovedAreSafe
  <2>2. CASE pc' = "clear"
    BY <1>1, <2>1 DEF MovedAreSafe
  <2>3. CASE pc' = "restore"
    BY <1>1, <2>1 DEF MovedAreSafe
  <2> QED
    BY <1>1, <2>2, <2>3
<1>11. RemovalIsTrue'
  <2>1. CASE RemoveDirectory
    BY <2>1 DEF RemoveDirectory, RemovalIsTrue, None
  <2>2. CASE RemoveEntry \/ RemoveFails
    BY <2>2 DEF RemoveEntry, RemoveFails, RemovalIsTrue
  <2> QED
    BY <2>1, <2>2
<1> QED
  BY <1>5, <1>6, <1>8, <1>9, <1>10, <1>11 DEF IInv

\* Each moved file goes back as it was, or stays under its temporary name.
LEMMA PutBackIInv ==
  ASSUME IInv, SkipFile \/ MoveBack
  PROVE  IInv'
<1> USE LoopFacts DEF AtFile
<1>1. /\ pc \in {"restore", "rollback"} /\ pc' = pc /\ i <= Len(files) /\ i' = i + 1 /\ kind \in Kinds
      /\ UNCHANGED <<derived, moved, clearOk, result, kind, files, saves, calls, before, latest>>
      /\ cur \in User /\ cur \in Listed(files) /\ Len(files) \in Nat /\ i \in Nat
      /\ cache \in [User -> Contents] /\ tmp \in [Kinds -> [User -> Contents]]
  BY DEF SkipFile, MoveBack, frame, IInv, TypeOK
<1>2. cur \in moved => tmp[kind][cur] = before.cache[cur] /\ before.cache[cur] # 0
  BY <1>1 DEF IInv, MovedAreSafe, Returning, MovedFiles, cur
<1>3. /\ \/ NoFault /\ ok' = ok
         \/ Fault /\ ok' = FALSE
      /\ dir' \in {dir, TRUE}
  BY DEF SkipFile, MoveBack, NoFault
<1>4. \/ cache' = cache /\ tmp' = tmp /\ (cur \in moved => ok' = FALSE)
      \/ /\ cur \in moved /\ dir' = TRUE
         /\ cache' = [cache EXCEPT ![cur] = before.cache[cur]]
         /\ tmp' = [tmp EXCEPT ![kind][cur] = 0]
  BY <1>2 DEF SkipFile, MoveBack
<1>5. /\ cache' \in [User -> Contents] /\ tmp' \in [Kinds -> [User -> Contents]]
      /\ \A f \in User : f # cur => cache'[f] = cache[f] /\ tmp'[kind][f] = tmp[kind][f]
      /\ cur \in moved => before.cache[cur] \in {cache'[cur], tmp'[kind][cur]}
      /\ cur \in moved /\ ok' => cache'[cur] = before.cache[cur]
      /\ cur \notin moved => cache'[cur] = cache[cur] /\ tmp'[kind][cur] = tmp[kind][cur]
  <2>1. CASE cache' = cache /\ tmp' = tmp /\ (cur \in moved => ok' = FALSE)
    BY <1>1, <1>2, <2>1
  <2>2. CASE /\ cur \in moved
             /\ cache' = [cache EXCEPT ![cur] = before.cache[cur]]
             /\ tmp' = [tmp EXCEPT ![kind][cur] = 0]
    <3>1. 0 \in Contents /\ before.cache[cur] \in Contents
      BY <1>1, BoundAssumption DEF Contents, IInv, TypeOK
    <3> QED
      BY <1>1, <2>2, <3>1
  <2> QED
    BY <1>4, <2>1, <2>2
<1>6. TypeOK'
  <2>1. ok' \in BOOLEAN /\ dir' \in BOOLEAN
    BY <1>3 DEF IInv, TypeOK
  <2>2. derived' # {} \/ cache' # None => dir'
    <3>1. derived # {} \/ cache # None => dir
      BY DEF IInv, TypeOK
    <3>2. dir' = TRUE \/ (cache' = cache /\ derived' = derived /\ dir' \in {dir, TRUE})
      BY <1>1, <1>3, <1>4
    <3> QED
      BY <3>1, <3>2
  <2> QED
    BY <1>1, <1>3, <1>5, <2>1, <2>2, CountingFaults DEF IInv, TypeOK
<1>7. NamedOnce'
  BY <1>1 DEF IInv, NamedOnce
<1>8. KeptThroughCall'
  BY <1>1, <1>5 DEF IInv, KeptThroughCall, Listed
<1>9. MovedFiles'
  <2>1. pc = "rollback" => \A f \in User \ moved : cache'[f] = before.cache[f]
    BY <1>5 DEF IInv, MovedFiles, Moving
  <2> QED
    BY <1>1, <2>1 DEF IInv, MovedFiles, Moving, Cleared
<1>10. MovedAreSafe'
  <2>1. ASSUME NEW n \in DOMAIN files, files[n] \in moved, n >= i + 1
        PROVE  tmp'[kind][files[n]] = before.cache[files[n]]
    <3> QED
      BY <1>1, <1>5, <2>1 DEF IInv, MovedAreSafe, Returning
  <2>2. ASSUME NEW n \in DOMAIN files, files[n] \in moved, n < i + 1, ok'
        PROVE  cache'[files[n]] = before.cache[files[n]]
    <3>1. CASE n = i
      BY <1>5, <2>2, <3>1 DEF cur
    <3>2. CASE n # i
      <4>1. ok
        BY <1>3, <2>2
      <4>2. n < i /\ files[n] # cur /\ files[n] \in User
        BY <1>1, <2>2, <3>2
      <4> QED
        BY <1>1, <1>5, <2>2, <4>1, <4>2 DEF IInv, MovedAreSafe, Returning
    <3> QED
      BY <3>1, <3>2
  <2> QED
    BY <1>1, <2>1, <2>2 DEF MovedAreSafe
<1>11. RemovalIsTrue'
  BY <1>1, <1>5 DEF IInv, RemovalIsTrue
<1>12. FaultsCounted' /\ TrueMeansKept' /\ AbortRestores'
  BY <1>1, <1>3, CountingFaults DEF IInv, FaultsCounted, TrueMeansKept, AbortRestores
<1> QED
  BY <1>6, <1>7, <1>8, <1>9, <1>10, <1>11, <1>12 DEF IInv

\* What the call returns is true of the directory.
LEMMA ReturnIInv ==
  ASSUME IInv, Return
  PROVE  IInv'
<1> USE LoopFacts DEF AtEnd
<1>1. /\ pc \in {"restore", "rollback"} /\ i > Len(files) /\ pc' = "idle"
      /\ UNCHANGED <<dir, cache, derived, tmp, i, moved, clearOk, ok, faults, callFaults,
                     kind, files, saves, calls, before, latest>>
      /\ pc = "rollback" => result' = "aborted"
      /\ pc = "restore" => result' = IF clearOk /\ ok THEN "true" ELSE "false"
  BY DEF Return, frame
<1>2. TypeOK'
  BY <1>1 DEF IInv, TypeOK
<1>3. NamedOnce' /\ KeptThroughCall' /\ MovedFiles' /\ MovedAreSafe' /\ RemovalIsTrue' /\ FaultsCounted'
  BY <1>1 DEF IInv, NamedOnce, KeptThroughCall, MovedFiles, MovedAreSafe, RemovalIsTrue, FaultsCounted,
     Moving, Cleared, Returning
<1>4. ok => \A f \in moved : cache[f] = before.cache[f]
  <2>1. \A f \in moved : \E n \in DOMAIN files : f = files[n] /\ n < i
    BY <1>1 DEF IInv, MovedFiles, Listed
  <2> QED
    BY <1>1, <2>1 DEF IInv, MovedAreSafe, Returning
<1>5. cache \in [User -> Contents] /\ before.cache \in [User -> Contents]
  BY DEF IInv, TypeOK
<1>6. TrueMeansKept'
  <2> SUFFICES ASSUME pc = "restore", clearOk, ok
               PROVE  /\ derived = {}
                      /\ cache = [f \in User |-> IF f \in Listed(files) THEN before.cache[f] ELSE 0]
    BY <1>1 DEF TrueMeansKept
  <2>1. derived = {} /\ \A f \in User \ moved : cache[f] = 0
    BY DEF IInv, RemovalIsTrue
  <2>2. moved \subseteq Listed(files) /\ \A f \in Listed(files) : before.cache[f] # 0 => f \in moved
    BY DEF IInv, MovedFiles, Cleared
  <2> QED
    BY <1>4, <1>5, <2>1, <2>2
<1>7. AbortRestores'
  <2> SUFFICES ASSUME pc = "rollback"
               PROVE  derived = before.derived /\ (callFaults = 1 => cache = before.cache)
    BY <1>1 DEF AbortRestores
  <2>1. derived = before.derived /\ \A f \in User \ moved : cache[f] = before.cache[f]
    BY DEF IInv, MovedFiles, Moving
  <2>2. callFaults = 1 => ok
    BY DEF IInv, FaultsCounted
  <2> QED
    BY <1>4, <1>5, <2>1, <2>2
<1> QED
  BY <1>2, <1>3, <1>6, <1>7 DEF IInv

\* The power may go: what has been moved is under its temporary name.
LEMMA PowerLossIInv ==
  ASSUME IInv, PowerLoss
  PROVE  IInv'
<1> USE LoopFacts DEF PowerLoss
<1>1. TypeOK'
  <2>1. faults' \in 0 .. MaxFaults /\ callFaults' \in 0 .. MaxFaults
    BY CountingFaults
  <2> QED
    BY <2>1 DEF IInv, TypeOK
<1>2. NamedOnce' /\ KeptThroughCall' /\ MovedFiles' /\ TrueMeansKept' /\ AbortRestores'
  BY DEF IInv, NamedOnce, KeptThroughCall, MovedFiles, Moving, Cleared, TrueMeansKept, AbortRestores
<1>3. MovedAreSafe' /\ RemovalIsTrue' /\ FaultsCounted'
  BY CountingFaults DEF MovedAreSafe, RemovalIsTrue, FaultsCounted
<1> QED
  BY <1>1, <1>2, <1>3 DEF IInv

\* Every step of a call, a reader or the battery keeps the invariant.
LEMMA NextIInv == IInv /\ [Next]_vars => IInv'
<1> SUFFICES ASSUME IInv, [Next]_vars
             PROVE  IInv'
  OBVIOUS
<1>1. CASE \E f \in User : ReaderSaves(f)
  BY <1>1, ReaderSavesIInv
<1>2. CASE CallNoDirectory
  BY <1>2, BeginIInv DEF Kinds
<1>3. CASE \E k \in Kinds : CallUnlisted(k) \/ Call(k)
  BY <1>3, CallUnlistedIInv, BeginIInv
<1>4. CASE Step
  BY <1>4, RemoveStaleIInv, MoveOutIInv, PreserveDoneIInv, RemovalIInv, PutBackIInv, ReturnIInv DEF Step
<1>5. CASE PowerLoss
  BY <1>5, PowerLossIInv
<1>6. CASE UNCHANGED vars
  BY <1>6 DEF vars, IInv, TypeOK, NamedOnce, MovedFiles, MovedAreSafe, RemovalIsTrue, FaultsCounted,
     KeptThroughCall, TrueMeansKept, AbortRestores, Moving, Cleared, Returning
<1> QED
  BY <1>1, <1>2, <1>3, <1>4, <1>5, <1>6 DEF Next

\* The inductive invariant holds in every state.
THEOREM Invariance == Spec => []IInv
BY InitIInv, NextIInv, PTL DEF Spec

\* Every variable keeps its type, the contents of each file included.
THEOREM TypeCorrect == Spec => []TypeOK
<1>1. IInv => TypeOK
  BY DEF IInv
<1> QED
  BY <1>1, Invariance, PTL

\* Whatever fails and wherever the power goes in a call, each file that it
\* promises to keep is in the directory or under its temporary name.
THEOREM PromisedFilesKept == Spec => []KeptThroughCall
<1>1. IInv => KeptThroughCall
  BY DEF IInv
<1> QED
  BY <1>1, Invariance, PTL

\* A call that returns true has removed everything else, and the promised
\* files are back as they were.
THEOREM TrueIsTrue == Spec => []TrueMeansKept
<1>1. IInv => TrueMeansKept
  BY DEF IInv
<1> QED
  BY <1>1, Invariance, PTL

\* A call that gives up before the removal has left the directory as it was,
\* unless putting the files back failed too.
THEOREM AbortLeavesFiles == Spec => []AbortRestores
<1>1. IInv => AbortRestores
  BY DEF IInv
<1> QED
  BY <1>1, Invariance, PTL

=============================================================================
