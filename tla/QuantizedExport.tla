--------------------------- MODULE QuantizedExport --------------------------
(* The certification of a staged STL (pack_geometry/export_validation.cpp): *)
(* every copy is reread from the stage, imported, placed and compared with  *)
(* the copies before it, under one ledger of live bytes.  Copies already    *)
(* checked stay in a cache that gives its memory back to any reservation    *)
(* which does not fit.  Sizes are in units; the geometry itself is the      *)
(* scene the run starts with.                                               *)
EXTENDS Integers, Sequences, FiniteSets, SequencesExt

CONSTANTS
  Copies,        \* placed copies in the solution
  SourceBytes,   \* the accepted solids, the context, the solution, the bounds
  ReaderBytes,   \* the staged bytes of one copy
  ImportBytes,   \* what the importer is admitted for one copy
  AcceptedBytes, \* the accepted solid of one copy, kept with the copy
  PlacedBytes,   \* the prepared and placed solid, kept with the copy
  WallBytes,     \* scratch of one comparison with the container, or source
  CompareBytes,  \* scratch of one exact comparison with another copy
  FreshTests,    \* pair tests the fresh source validation used
  FreshWork,     \* kernel work it used
  Scenes,        \* geometries: what each copy and each pair really is
  Limits         \* allowances: [memory, tests, work]

Verdicts == {"valid", "invalid", "indeterminate"}
CopyIds == 1 .. Copies
PairIds == {p \in CopyIds \X CopyIds : p[1] < p[2]}

ASSUME CertAssumption ==
  /\ Copies \in Nat \ {0}
  /\ {SourceBytes, ReaderBytes, ImportBytes, AcceptedBytes, PlacedBytes,
      WallBytes, CompareBytes, FreshTests, FreshWork} \subseteq Nat
  /\ Limits \subseteq [memory : Nat, tests : Nat, work : Nat]
  /\ Scenes \subseteq [read : [CopyIds -> BOOLEAN],
                       inside : [CopyIds -> Verdicts],
                       apart : SUBSET PairIds,
                       gap : [PairIds -> Verdicts]]

VARIABLES
  scene, limit,  \* what is certified and under which allowances
  cpc,           \* the step of validate_quantized_export
  current,       \* the copy being certified
  prior,         \* the earlier copy it is compared with
  live,          \* Budget::bytes_live_
  kept,          \* the copies in the cache, least recently used first
  lease,         \* the bytes each cached copy's leases hold
  pinned,        \* the copy the last find returned, or 0
  held,          \* bytes leased by the current copy and by a reread one
  tests, work,   \* pair_tests_used and work_used_
  exhausted,     \* memory_exhausted_
  report         \* the verdict and its code

ledger == <<live, kept, lease, pinned, held>>
meters == <<tests, work, exhausted>>
certVars == <<scene, limit, cpc, current, prior, ledger, meters, report>>

NoReport == [validity |-> "none", code |-> "none"]

CertInit ==
  /\ scene \in Scenes /\ limit \in Limits
  /\ cpc = "admit" /\ current = 1 /\ prior = 1
  /\ live = 0 /\ kept = <<>> /\ lease = [c \in CopyIds |-> 0] /\ pinned = 0
  /\ held = [current |-> 0, reread |-> 0]
  /\ tests = 0 /\ work = 0 /\ exhausted = FALSE /\ report = NoReport
----------------------------------------------------------------------------
(* reclaim: the oldest cached copy goes first, the pinned one never does.   *)
(* The places in the cache, of the first n, whose copies may go.            *)
Evictable(n) == {i \in 1 .. n : kept[i] # pinned}

LeaseOf(places) == SumFunctionOnSet([i \in DOMAIN kept |-> lease[kept[i]]], places)

Freed(n) == LeaseOf(Evictable(n))

Fits(bytes, n) == live - Freed(n) + bytes <= limit.memory

Reclaimed(bytes) ==
  LET enough == {n \in 0 .. Len(kept) : Fits(bytes, n)}
  IN  CHOOSE n \in enough : \A m \in enough : n <= m

(* Faulty variant: the cache gives nothing back. *)
CanReserveAsIs(bytes) == live + bytes <= limit.memory

CanReserve(bytes) == Fits(bytes, Len(kept))

(* What is left of the cache, and of the cached leases, when those went.    *)
KeptAfter(n) ==
  (IF \E i \in 1 .. n : kept[i] = pinned THEN <<pinned>> ELSE <<>>)
    \o SubSeq(kept, n + 1, Len(kept))
LeaseAfter(n) ==
  [c \in CopyIds |-> IF \E i \in Evictable(n) : kept[i] = c THEN 0 ELSE lease[c]]

(* Reserve bytes and, at the end of the step, keep only staying of them.   *)
ReserveThenKeep(bytes, staying) ==
  /\ CanReserve(bytes)
  /\ live' = live - Freed(Reclaimed(bytes)) + staying
  /\ kept' = KeptAfter(Reclaimed(bytes))
  /\ lease' = LeaseAfter(Reclaimed(bytes))

Reserve(bytes) == ReserveThenKeep(bytes, bytes)

(* A refused reservation has evicted all it could, and report() turns any   *)
(* verdict into EXPORT_MEMORY_LIMIT.                                        *)
Ends(validity, code) ==
  /\ report' = [validity |-> validity, code |-> code]
  /\ cpc' = "done"

OutOfMemory(bytes) ==
  /\ ~ CanReserve(bytes)
  /\ exhausted' = TRUE
  /\ Ends("indeterminate", "EXPORT_MEMORY_LIMIT")
  /\ UNCHANGED <<scene, limit, current, prior, ledger, tests, work>>

Refused(validity, code) ==
  /\ Ends(validity, code)
  /\ UNCHANGED <<scene, limit, current, prior, ledger, meters>>
----------------------------------------------------------------------------
(* The copy being loaded: the one to certify (prior = current), or an       *)
(* earlier one the cache no longer has.                                     *)
Loading == IF prior < current THEN "reread" ELSE "current"

(* Kernel work is allowed per copy, and once more for the fresh validation. *)
KernelWork == limit.work * (Copies + 1)

(* A verdict that ends the certification, and gives nothing back.           *)
Declines(code) ==
  \E verdict \in {"invalid", "indeterminate"} : Refused(verdict, code)

(* The source's residency is leased; the solution is revalidated afresh and *)
(* its container placed, either of which may be refused; the pair tests and *)
(* the kernel work of the fresh validation are charged before any staged    *)
(* copy is read.                                                            *)
Admit ==
  /\ cpc = "admit"
  /\ \/ OutOfMemory(SourceBytes)
     \/ Declines("EXPORT_SOURCE_VALIDATION")
     \/ /\ FreshWork > KernelWork
        /\ Refused("indeterminate", "EXPORT_KERNEL_WORK_LIMIT")
     \/ /\ FreshWork <= KernelWork
        /\ Reserve(SourceBytes)
        /\ tests' = FreshTests /\ work' = FreshWork
        /\ cpc' = "read"
        /\ UNCHANGED <<scene, limit, current, prior, pinned, held, exhausted,
                       report>>

(* A copy is reread from the stage and its bytes are leased.                *)
ReadCopy ==
  /\ cpc = "read"
  /\ \/ /\ ~ scene.read[prior]
        /\ Refused("indeterminate", "EXPORT_COPY_READ")
     \/ scene.read[prior] /\ OutOfMemory(ReaderBytes)
     \/ /\ scene.read[prior]
        /\ Reserve(ReaderBytes)
        /\ cpc' = "import"
        /\ UNCHANGED <<scene, limit, current, prior, pinned, held, meters,
                       report>>

(* The import's admission and the accepted solid are leased together; then  *)
(* the admission and the staged bytes are given back.  A copy the importer  *)
(* refuses, changes or cannot decide is not certified.                      *)
ImportCopy ==
  /\ cpc = "import"
  /\ \/ OutOfMemory(ImportBytes + AcceptedBytes)
     \/ Declines("EXPORT_QUANTIZED_IMPORT")
     \/ /\ ReserveThenKeep(ImportBytes + AcceptedBytes,
                           AcceptedBytes - ReaderBytes)
        /\ held' = [held EXCEPT ![Loading] = AcceptedBytes]
        /\ cpc' = "place"
        /\ UNCHANGED <<scene, limit, current, prior, pinned, meters, report>>

(* The residency of the placed solid is measured, not requested: what was   *)
(* live before preparing is taken from what is live after, so a copy        *)
(* evicted in between would be missing from the lease.  A cache held to a   *)
(* quarter of the memory is what keeps that from happening.                 *)
PlaceCopy ==
  /\ cpc = "place"
  /\ \/ OutOfMemory(PlacedBytes)
     \/ /\ Reserve(PlacedBytes)
        /\ held' = [held EXCEPT ![Loading] =
                      @ + IF live' >= live THEN live' - live ELSE 0]
        /\ cpc' = IF Loading = "reread" THEN "pair" ELSE "contain"
        /\ UNCHANGED <<scene, limit, current, prior, pinned, meters, report>>

(* The quantized copy must enclose its source, where the packing was made   *)
(* with an envelope of it, and keep the wall clearance.                     *)
Contain ==
  /\ cpc = "contain"
  /\ \/ OutOfMemory(WallBytes)
     \/ Declines("EXPORT_ENVELOPE")
     \/ /\ CanReserve(WallBytes) /\ scene.inside[current] # "valid"
        /\ Refused(scene.inside[current], "EXPORT_QUANTIZED_CONTAINMENT")
     \/ /\ scene.inside[current] = "valid"
        /\ ReserveThenKeep(WallBytes, 0)
        /\ prior' = 1
        /\ cpc' = "next"
        /\ UNCHANGED <<scene, limit, current, pinned, held, meters, report>>
----------------------------------------------------------------------------
(* CopyCache::insert: nothing stays pinned, a copy larger than the cache is *)
(* dropped, older ones make room, and the copy becomes the most recent.     *)
CacheBytes == (limit.memory - SourceBytes) \div 4

Overflow(bytes) ==
  LET enough == {n \in 0 .. Len(kept) :
                   LeaseOf(n + 1 .. Len(kept)) + bytes <= CacheBytes}
  IN  CHOOSE n \in enough : \A m \in enough : n <= m

(* insert: the oldest copies give way until the new one fits the cache.     *)
Insert(copy, bytes) ==
  /\ pinned' = 0
  /\ IF bytes > CacheBytes
       THEN live' = live - bytes /\ UNCHANGED <<kept, lease>>
       ELSE LET gone == 1 .. Overflow(bytes)
            IN  /\ live' = live - LeaseOf(gone)
                /\ kept' = Append(SubSeq(kept, Overflow(bytes) + 1, Len(kept)), copy)
                /\ lease' = [c \in CopyIds |->
                               IF c = copy THEN bytes
                               ELSE IF \E i \in gone : kept[i] = c THEN 0 ELSE lease[c]]

Separated == <<prior, current>> \in scene.apart

(* One comparison with an earlier copy: charged as a pair test and as       *)
(* kernel work, skipped when the bounds are strictly apart, made against    *)
(* the cached copy when there is one and against a reread one when not.     *)
(* The cache remembers what was asked for as pinned either way.             *)
NextPrior ==
  /\ cpc = "next" /\ prior < current
  /\ \/ /\ tests >= limit.tests
        /\ Refused("indeterminate", "EXPORT_PAIR_LIMIT")
     \/ /\ tests < limit.tests /\ work >= KernelWork
        /\ tests' = tests + 1
        /\ Ends("indeterminate", "EXPORT_KERNEL_WORK_LIMIT")
        /\ UNCHANGED <<scene, limit, current, prior, ledger, work, exhausted>>
     \/ /\ tests < limit.tests /\ work < KernelWork
        /\ tests' = tests + 1 /\ work' = work + 1
        /\ \/ /\ Separated
              /\ prior' = prior + 1
              /\ UNCHANGED <<cpc, kept, pinned>>
           \/ /\ ~ Separated
              /\ pinned' = prior
              /\ IF Contains(kept, prior)
                   THEN /\ \E i \in DOMAIN kept :
                             kept[i] = prior /\ kept' = Append(RemoveAt(kept, i), prior)
                        /\ cpc' = "pair"
                   ELSE cpc' = "read" /\ UNCHANGED kept
              /\ UNCHANGED prior
        /\ UNCHANGED <<scene, limit, current, live, lease, held, exhausted,
                       report>>

(* The exact comparison, with its scratch; a reread copy is then cached.    *)
Pair ==
  /\ cpc = "pair"
  /\ LET gap == scene.gap[<<prior, current>>]
     IN  \/ OutOfMemory(CompareBytes)
         \/ /\ CanReserve(CompareBytes) /\ work >= KernelWork
            /\ Refused("indeterminate", "EXPORT_QUANTIZED_PAIR")
         \/ /\ CanReserve(CompareBytes) /\ work < KernelWork /\ gap # "valid"
            /\ Refused(gap, "EXPORT_QUANTIZED_PAIR")
         \/ /\ work < KernelWork /\ gap = "valid"
            /\ ReserveThenKeep(CompareBytes, 0)
            /\ work' = work + 1
            /\ prior' = prior + 1
            /\ cpc' = IF held.reread > 0 THEN "keep" ELSE "next"
            /\ UNCHANGED <<scene, limit, current, pinned, held, tests,
                           exhausted, report>>

KeepReread ==
  /\ cpc = "keep"
  /\ Insert(prior - 1, held.reread)
  /\ held' = [held EXCEPT !.reread = 0]
  /\ cpc' = "next"
  /\ UNCHANGED <<scene, limit, current, prior, meters, report>>

(* Compared with every earlier copy: the copy is certified and cached.      *)
NextCopy ==
  /\ cpc = "next" /\ prior = current
  /\ IF current = Copies
       THEN Refused("valid", "VALID")
       ELSE /\ Insert(current, held.current)
            /\ held' = [held EXCEPT !.current = 0]
            /\ current' = current + 1 /\ prior' = current + 1
            /\ cpc' = "read"
            /\ UNCHANGED <<scene, limit, meters, report>>

(* A poll between two steps, or report()'s own, sees the stop or the        *)
(* deadline and the verdict becomes indeterminate.                          *)
CertStop ==
  /\ cpc # "done"
  /\ Refused("indeterminate", "OPERATION_CANCELLED")

CertNext ==
  \/ Admit \/ ReadCopy \/ ImportCopy \/ PlaceCopy \/ Contain
  \/ NextPrior \/ Pair \/ KeepReread \/ NextCopy \/ CertStop
----------------------------------------------------------------------------
(* The memory the same certification needs without a cache.                 *)
CopyBytes == AcceptedBytes + PlacedBytes
LoadBytes == ReaderBytes + ImportBytes + AcceptedBytes
UncachedNeed ==
  LET alone  == {LoadBytes, CopyBytes + WallBytes}
      paired == {CopyBytes + LoadBytes, 2 * CopyBytes + CompareBytes}
  IN  SourceBytes + Max(IF scene.apart = PairIds THEN alone
                                                 ELSE alone \cup paired)

(* The cache never rejects an export that fits without it: memory is        *)
(* refused only when rereading every copy would not fit either.             *)
CacheNeverRejects ==
  report.code = "EXPORT_MEMORY_LIMIT" => limit.memory < UncachedNeed

=============================================================================
