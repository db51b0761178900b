---------------------------- MODULE BookCacheClear ----------------------------
(***************************************************************************)
(* Clearing the cache of one book while the files the user owns are kept    *)
(* (src/util/BookCacheUtils.cpp).  The cache directory holds derived files   *)
(* (sections, images, metadata), which may be thrown away, and user state:   *)
(* progress, reader settings, the statistics of the book.  A call moves the  *)
(* user state out of the directory, removes the directory file by file, and  *)
(* moves the user state back.  There are two kinds of call:                  *)
(*   "book"   clearBookCachePreservingUserState: all user state is kept      *)
(*            (upload of a new file, Delete Cache in the reader);            *)
(*   "stats"  clearBookCacheDirectoryPreservingStats: statistics only        *)
(*            (Clear Cache in the settings).                                 *)
(* They differ in the prefix of the temporary names of statistics files.     *)
(* The book is one with statistics (EPUB or XTC).                            *)
(* Every card call may fail and the power may go between any two of them.    *)
(***************************************************************************)
EXTENDS Naturals, Sequences, FiniteSets

CONSTANTS FixedFiles, \* user state of a fixed name, in the order of the table
          StatsFiles, \* names of statistics files, the newest format first
          MaxStats,   \* how many statistics files are kept (8 in the code)
          Derived,    \* derived files
          MaxSaves,   \* bound: saves of user state by the readers
          MaxFaults,  \* bound: failing card calls and power losses
          MaxCalls    \* bound: calls

Kinds == {"book", "stats"}
User == {FixedFiles[n] : n \in DOMAIN FixedFiles} \cup {StatsFiles[n] : n \in DOMAIN StatsFiles}
Contents == 0 .. MaxSaves     \* the number of the save that wrote a file; 0: no such file

\* The names of a directory differ, and no name of the table is that of statistics.
ASSUME FileAssumption ==
  /\ FixedFiles \in Seq(STRING) /\ StatsFiles \in Seq(STRING)
  /\ \A m, n \in DOMAIN FixedFiles : FixedFiles[m] = FixedFiles[n] => m = n
  /\ \A m, n \in DOMAIN StatsFiles : StatsFiles[m] = StatsFiles[n] => m = n
  /\ \A m \in DOMAIN FixedFiles, n \in DOMAIN StatsFiles : FixedFiles[m] # StatsFiles[n]
  /\ Derived \cap User = {}
ASSUME BoundAssumption == /\ MaxStats \in Nat /\ MaxSaves \in Nat
                          /\ MaxFaults \in Nat /\ MaxCalls \in Nat

VARIABLES
  dir,       \* the cache directory exists
  cache,     \* user state in the directory
  derived,   \* derived files in the directory
  tmp,       \* user state beside the directory, by kind of call
  pc,        \* where the call is
  kind,      \* the kind of the call
  files,     \* the names it keeps (preservedFiles)
  i,         \* index of the loop over them
  moved,     \* movedFiles
  clearOk,   \* result of the removal
  ok,        \* result of the loop (preserveOk, restoreOk)
  result,    \* of the last call: "true", "false", "aborted" (false, nothing removed) or "none"
  saves,     \* number of saves so far
  faults,    \* faults so far
  calls,     \* calls so far
  before,    \* history: the directory when the last call began
  callFaults,\* history: faults since then
  latest     \* history: the newest save of each file that nobody asked to delete

vars == <<dir, cache, derived, tmp, pc, kind, files, i, moved, clearOk, ok, result,
          saves, faults, calls, before, callFaults, latest>>

None == [f \in User |-> 0]

TypeOK ==
  /\ dir \in BOOLEAN /\ clearOk \in BOOLEAN /\ ok \in BOOLEAN
  /\ cache \in [User -> Contents] /\ latest \in [User -> Contents]
  /\ tmp \in [Kinds -> [User -> Contents]]
  /\ derived \in SUBSET Derived
  /\ pc \in {"idle", "preserve", "rollback", "clear", "restore"}
  /\ kind \in Kinds /\ files \in Seq(User) /\ moved \in SUBSET User
  /\ i \in 1 .. Len(files) + 1
  /\ result \in {"true", "false", "aborted", "none"}
  /\ saves \in 0 .. MaxSaves /\ faults \in 0 .. MaxFaults /\ calls \in 0 .. MaxCalls
  /\ before \in [cache : [User -> Contents], derived : SUBSET Derived]
  /\ callFaults \in 0 .. MaxFaults
  /\ (derived # {} \/ cache # None) => dir

Init ==
  /\ dir = FALSE /\ cache = None /\ derived = {} /\ tmp = [k \in Kinds |-> None]
  /\ pc = "idle" /\ kind = "book" /\ files = <<>> /\ i = 1 /\ moved = {}
  /\ clearOk = TRUE /\ ok = TRUE /\ result = "none"
  /\ saves = 0 /\ faults = 0 /\ calls = 0 /\ latest = None
  /\ before = [cache |-> None, derived |-> {}] /\ callFaults = 0

callVars == <<kind, files, i, moved, clearOk, ok>>
boundVars == <<saves, faults, calls, callFaults>>

(***************************************************************************)
(* The readers: opening a book builds its derived files, and user state is  *)
(* saved into the directory.                                                *)
(***************************************************************************)
ReaderSaves(f) ==
  /\ pc = "idle" /\ saves < MaxSaves
  /\ saves' = saves + 1
  /\ dir' = TRUE /\ derived' = Derived
  /\ cache' = [cache EXCEPT ![f] = saves']
  /\ latest' = [latest EXCEPT ![f] = saves']
  /\ before' = [before EXCEPT !.cache[f] = 0]   \* the last call has no say any more
  /\ result' = "none"
  /\ UNCHANGED <<tmp, pc, callVars, faults, calls, callFaults>>

(***************************************************************************)
(* A call.  The statistics files to keep are the newest of those present.   *)
(***************************************************************************)
StatsPresent(c) == {n \in DOMAIN StatsFiles : c[StatsFiles[n]] # 0}
Newer(c, n) == {m \in StatsPresent(c) : m < n}
StatsKept(c) ==
  LET present == Cardinality(StatsPresent(c))
  IN  [k \in 1 .. IF present < MaxStats THEN present ELSE MaxStats |->
         StatsFiles[CHOOSE n \in StatsPresent(c) : Cardinality(Newer(c, n)) = k - 1]]
Resolved(k, c) == (IF k = "book" THEN FixedFiles ELSE <<>>) \o StatsKept(c)
Listed(seq) == {seq[n] : n \in DOMAIN seq}

Begin(k) ==
  /\ pc = "idle" /\ calls < MaxCalls
  /\ calls' = calls + 1 /\ kind' = k
  /\ files' = Resolved(k, cache)
  /\ i' = 1 /\ moved' = {} /\ ok' = TRUE /\ clearOk' = TRUE
  /\ before' = [cache |-> cache, derived |-> derived]
  /\ callFaults' = 0
  /\ UNCHANGED <<dir, cache, derived, tmp, saves>>

\* clearCacheDirectoryPreservingFiles returns at once when there is no directory.
CallNoDirectory ==
  /\ Begin("stats") /\ ~dir
  /\ result' = "true" /\ UNCHANGED <<pc, faults, latest>>

\* The directory cannot be listed.
CallUnlisted(k) ==
  /\ pc = "idle" /\ calls < MaxCalls /\ dir /\ faults < MaxFaults
  /\ calls' = calls + 1 /\ faults' = faults + 1 /\ callFaults' = 1
  /\ kind' = k /\ result' = "aborted"
  /\ files' = <<>> /\ i' = 1 /\ moved' = {} /\ ok' = TRUE /\ clearOk' = TRUE
  /\ before' = [cache |-> cache, derived |-> derived]
  /\ UNCHANGED <<dir, cache, derived, tmp, pc, saves, latest>>

\* What the call does not keep, the user has asked to delete.
Call(k) ==
  /\ Begin(k) /\ (k = "stats" => dir)
  /\ pc' = "preserve" /\ result' = "none"
  /\ latest' = [f \in User |-> IF f \notin Listed(files') /\ cache[f] # 0 THEN 0 ELSE latest[f]]
  /\ UNCHANGED faults

Fault == faults < MaxFaults /\ faults' = faults + 1 /\ callFaults' = callFaults + 1
NoFault == UNCHANGED <<faults, callFaults>>
frame == <<kind, files, saves, calls, before, latest>>

(***************************************************************************)
(* preserveUserStateFiles: each file is renamed out of the directory, after *)
(* what an earlier call left under the temporary name is removed.           *)
(***************************************************************************)
cur == files[i]
AtFile(where) == pc = where /\ i <= Len(files)
AtEnd(where) == pc = where /\ i > Len(files)

RemoveStale ==
  /\ AtFile("preserve") /\ tmp[kind][cur] # 0
  /\ \/ /\ tmp' = [tmp EXCEPT ![kind][cur] = 0] /\ NoFault /\ UNCHANGED <<i, ok>>
     \/ /\ i' = i + 1 /\ ok' = FALSE /\ Fault /\ UNCHANGED tmp
  /\ UNCHANGED <<dir, cache, derived, pc, moved, clearOk, result, frame>>

MoveOut ==
  /\ AtFile("preserve") /\ tmp[kind][cur] = 0
  /\ i' = i + 1
  /\ \/ /\ cache[cur] = 0 /\ NoFault /\ UNCHANGED <<cache, tmp, moved, ok>>
     \/ /\ cache[cur] # 0 /\ NoFault
        /\ tmp' = [tmp EXCEPT ![kind][cur] = cache[cur]]
        /\ cache' = [cache EXCEPT ![cur] = 0]
        /\ moved' = moved \cup {cur} /\ UNCHANGED ok
     \/ /\ cache[cur] # 0 /\ Fault /\ ok' = FALSE /\ UNCHANGED <<cache, tmp, moved>>
  /\ UNCHANGED <<dir, derived, pc, clearOk, result, frame>>

\* A mutant: the removal goes on although a file could not be moved.
PreserveIgnored ==
  /\ AtEnd("preserve") /\ i' = 1 /\ ok' = TRUE /\ pc' = "clear"
  /\ UNCHANGED <<dir, cache, derived, tmp, moved, clearOk, result, faults, callFaults, frame>>

\* A mutant: the call gives up without putting the moved files back.
NoRollback ==
  /\ AtEnd("preserve") /\ i' = 1 /\ ok' = TRUE
  /\ IF ok THEN pc' = "clear" /\ UNCHANGED result ELSE pc' = "idle" /\ result' = "aborted"
  /\ UNCHANGED <<dir, cache, derived, tmp, moved, clearOk, faults, callFaults, frame>>

\* All files moved: clear.  One of them not: put the others back and give up.
PreserveDone ==
  /\ AtEnd("preserve")
  /\ i' = 1 /\ ok' = TRUE
  /\ pc' = IF ok THEN "clear" ELSE "rollback"
  /\ UNCHANGED <<dir, cache, derived, tmp, moved, clearOk, result, faults, callFaults, frame>>

(***************************************************************************)
(* removeDir: the entries in the order of the directory, then the directory;*)
(* the first failure ends it.                                               *)
(***************************************************************************)
RemoveEntry ==
  /\ pc = "clear"
  /\ \/ \E f \in User : cache[f] # 0 /\ cache' = [cache EXCEPT ![f] = 0] /\ UNCHANGED derived
     \/ \E d \in derived : derived' = derived \ {d} /\ UNCHANGED cache
  /\ UNCHANGED <<dir, tmp, pc, i, moved, clearOk, ok, result, faults, callFaults, frame>>

RemoveDirectory ==
  /\ pc = "clear" /\ cache = None /\ derived = {}
  /\ dir' = FALSE /\ pc' = "restore"
  /\ UNCHANGED <<cache, derived, tmp, i, moved, clearOk, ok, result, faults, callFaults, frame>>

RemoveFails ==
  /\ pc = "clear" /\ dir /\ Fault
  /\ clearOk' = FALSE /\ pc' = "restore"
  /\ UNCHANGED <<dir, cache, derived, tmp, i, moved, ok, result, frame>>

(***************************************************************************)
(* restorePreservedFiles, after the removal and as the roll-back: creates   *)
(* the directory and renames each moved file into it.  A failure leaves the *)
(* directory with or without its mkdir.  (The code removes a file of the     *)
(* final name first; there is none, it was moved away in the same call.)     *)
(***************************************************************************)
SkipFile ==
  /\ AtFile("restore") \/ AtFile("rollback")
  /\ cur \notin moved \/ tmp[kind][cur] = 0
  /\ i' = i + 1
  /\ UNCHANGED <<dir, cache, derived, tmp, pc, moved, clearOk, ok, result, faults, callFaults, frame>>

MoveBack ==
  /\ AtFile("restore") \/ AtFile("rollback")
  /\ cur \in moved /\ tmp[kind][cur] # 0
  /\ i' = i + 1
  /\ \/ /\ dir' = TRUE /\ NoFault
        /\ cache' = [cache EXCEPT ![cur] = tmp[kind][cur]]
        /\ tmp' = [tmp EXCEPT ![kind][cur] = 0] /\ UNCHANGED ok
     \/ /\ dir' \in {dir, TRUE} /\ Fault /\ ok' = FALSE /\ UNCHANGED <<cache, tmp>>
  /\ UNCHANGED <<derived, pc, moved, clearOk, result, frame>>

\* A mutant: the result is that of the removal alone.
ReturnClearOk ==
  /\ AtEnd("restore") \/ AtEnd("rollback")
  /\ pc' = "idle"
  /\ result' = CASE pc = "rollback" -> "aborted"
                 [] pc = "restore" -> IF clearOk THEN "true" ELSE "false"
  /\ UNCHANGED <<dir, cache, derived, tmp, i, moved, clearOk, ok, faults, callFaults, frame>>

Return ==
  /\ AtEnd("restore") \/ AtEnd("rollback")
  /\ pc' = "idle"
  /\ result' = CASE pc = "rollback" -> "aborted"
                 [] pc = "restore" -> IF clearOk /\ ok THEN "true" ELSE "false"
  /\ UNCHANGED <<dir, cache, derived, tmp, i, moved, clearOk, ok, faults, callFaults, frame>>

\* The power goes in the middle of a call; nothing at the next boot looks at the temporary names.
PowerLoss ==
  /\ pc # "idle" /\ Fault
  /\ pc' = "idle" /\ result' = "none"
  /\ files' = files /\ i' = 1 /\ moved' = {} /\ ok' = TRUE /\ clearOk' = TRUE
  /\ UNCHANGED <<dir, cache, derived, tmp, kind, saves, calls, before, latest>>

Step == \/ RemoveStale \/ MoveOut \/ PreserveDone
        \/ RemoveEntry \/ RemoveDirectory \/ RemoveFails
        \/ SkipFile \/ MoveBack \/ Return

Next == \/ \E f \in User : ReaderSaves(f)
        \/ CallNoDirectory
        \/ \E k \in Kinds : CallUnlisted(k) \/ Call(k)
        \/ Step
        \/ PowerLoss

Spec == Init /\ [][Next]_vars

-----------------------------------------------------------------------------
\* From the moment a call begins, whatever fails and wherever the power goes,
\* every file it promises to keep is in the directory or under its temporary
\* name, until a reader saves it anew or another call begins.
KeptThroughCall ==
  \A f \in Listed(files) : before.cache[f] # 0 =>
    before.cache[f] \in {cache[f], tmp[kind][f]}

\* A call that returns true has thrown away everything else and has put the
\* promised files back as they were, newest statistics formats first.
TrueMeansKept ==
  pc = "idle" /\ result = "true" =>
    /\ derived = {}
    /\ cache = [f \in User |-> IF f \in Listed(files) THEN before.cache[f] ELSE 0]

\* A call that gives up before it removes anything leaves the derived files,
\* and after a single failure the user state too, as they were: the files
\* already moved are put back.
AbortRestores ==
  pc = "idle" /\ result = "aborted" =>
    /\ derived = before.derived
    /\ callFaults = 1 => cache = before.cache

\* User state is never lost: the newest save of a file that nobody asked to
\* delete can be found in the directory or under a temporary name.
StatePreserved ==
  \A f \in User : latest[f] # 0 =>
    latest[f] \in {cache[f], tmp["book"][f], tmp["stats"][f]}
-----------------------------------------------------------------------------
(***************************************************************************)
(* The invariant that the proofs use.                                      *)
(***************************************************************************)
Moving == pc \in {"preserve", "rollback"}      \* nothing is removed here
Cleared == pc \in {"clear", "restore"}
Returning == pc \in {"restore", "rollback"}

\* The loops over files name each file once.
NamedOnce == \A m, n \in DOMAIN files : files[m] = files[n] => m = n

\* A moved file is one that the call promises; what it has not moved is
\* where it was, and the removal begins only when all are moved.
MovedFiles ==
  /\ moved \subseteq Listed(files)
  /\ pc # "idle" => \A f \in moved : before.cache[f] # 0
  /\ pc = "preserve" => \A n \in DOMAIN files : n >= i => files[n] \notin moved
  /\ Moving => derived = before.derived /\ \A f \in User \ moved : cache[f] = before.cache[f]
  /\ pc = "preserve" /\ ok =>
       \A n \in DOMAIN files : n < i /\ before.cache[files[n]] # 0 => files[n] \in moved
  /\ Cleared => \A f \in Listed(files) : before.cache[f] # 0 => f \in moved

\* A moved file is under its temporary name until the loop that puts it back
\* has come to it; when nothing has failed there, it is back after that.
MovedAreSafe ==
  /\ pc = "clear" => i = 1
  /\ pc \in {"preserve", "clear"} => \A f \in moved : tmp[kind][f] = before.cache[f]
  /\ Returning => \A n \in DOMAIN files : files[n] \in moved =>
       /\ n >= i => tmp[kind][files[n]] = before.cache[files[n]]
       /\ n < i /\ ok => cache[files[n]] = before.cache[files[n]]

\* After a removal without a failure only promised files are in the directory.
RemovalIsTrue ==
  pc = "restore" /\ clearOk => derived = {} /\ \A f \in User \ moved : cache[f] = 0

\* Every failure of a call is counted.
FaultsCounted ==
  /\ callFaults <= faults
  /\ pc = "preserve" => (ok <=> callFaults = 0)
  /\ pc = "rollback" => callFaults >= 1 /\ (callFaults = 1 => ok)

IInv == /\ TypeOK /\ NamedOnce /\ MovedFiles /\ MovedAreSafe /\ RemovalIsTrue /\ FaultsCounted
        /\ KeptThroughCall /\ TrueMeansKept /\ AbortRestores
=============================================================================
