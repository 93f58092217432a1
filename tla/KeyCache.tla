------------------------------ MODULE KeyCache ------------------------------
(***************************************************************************)
(* The KMS token signer.  Every token is signed with a data key of its     *)
(* own, which the token carries encrypted; the signer caches the plaintext *)
(* keys it generated or had KMS decrypt.  A token is identified with its   *)
(* key, and calls of GenerateToken and ValidateToken run concurrently      *)
(* around one lock.                                                        *)
(***************************************************************************)
EXTENDS Integers, FiniteSets

CONSTANTS
  Keys,         \* data keys KMS generates
  Calls,        \* calls under way at a time
  Expiration,   \* lifetime of a token
  Buffer,       \* how much longer its key stays cached
  Interval,     \* least time between two clean-ups
  MaxCache,     \* maxCacheSize
  EvictBatch,   \* evictBatchSize
  MaxTime       \* ticks of the clock

ASSUME CacheAssumption ==
  /\ IsFiniteSet(Keys)
  /\ Expiration \in Nat \ {0} /\ Buffer \in Nat /\ Interval \in Nat /\ MaxTime \in Nat
  /\ MaxCache \in Nat \ {0} /\ EvictBatch \in Nat \ {0}

VARIABLES
  now,           \* the clock
  issued,        \* the time "iat" of every token generated
  cacheExpiry,   \* the cached keys, and when their entries expire
  lastCleanup,
  call           \* what each call is about to do, and for which key

vars == <<now, issued, cacheExpiry, lastCleanup, call>>

NoCall == [pc |-> "idle", key |-> "none", op |-> "none"]

Cached == DOMAIN cacheExpiry
Expires(k) == issued[k] + Expiration

Init ==
  /\ now = 0 /\ lastCleanup = 0
  /\ issued = <<>> /\ cacheExpiry = <<>>
  /\ call = [c \in Calls |-> NoCall]

Only(f, S) == [k \in S |-> f[k]]
With(f, k, v) == [x \in DOMAIN f \cup {k} |-> IF x = k THEN v ELSE f[x]]

At(c, pc) == call[c].pc = pc
Goto(c, pc) == call' = [call EXCEPT ![c].pc = pc]
Done(c) == call' = [call EXCEPT ![c] = NoCall]
-------------------------------------------------------------------------------
Tick ==
  /\ now < MaxTime
  /\ now' = now + 1
  /\ UNCHANGED <<issued, cacheExpiry, lastCleanup, call>>

\* GenerateToken reads the clock and has KMS generate a key, or fails.
GenerateToken(c, k) ==
  /\ At(c, "idle") /\ k \notin DOMAIN issued
  /\ issued' = With(issued, k, now)
  /\ call' = [call EXCEPT ![c] = [pc |-> "store", key |-> k, op |-> "generate"]]
  /\ UNCHANGED <<now, cacheExpiry, lastCleanup>>

\* ValidateToken looks the key up.
ValidateToken(c, k) ==
  /\ At(c, "idle") /\ k \in DOMAIN issued
  /\ call' = [call EXCEPT ![c] = [pc |-> IF k \in Cached THEN "parse" ELSE "peek",
                                  key |-> k, op |-> "validate"]]
  /\ UNCHANGED <<now, issued, cacheExpiry, lastCleanup>>

Due == now - lastCleanup > Interval

\* cleanupExpiredKeys first reads lastCleanup without the lock; while another call is
\* writing it, the read may return anything.
Peek(c) ==
  /\ At(c, "peek")
  /\ \E b \in {Due} \cup (IF \E d \in Calls \ {c} : At(d, "cleanup") THEN BOOLEAN ELSE {}) :
       Goto(c, IF b THEN "cleanup" ELSE "decrypt")
  /\ UNCHANGED <<now, issued, cacheExpiry, lastCleanup>>

CleanupUnchecked(c) ==
  /\ At(c, "cleanup")
  /\ cacheExpiry' = Only(cacheExpiry, {k \in Cached : now <= cacheExpiry[k]})
  /\ lastCleanup' = now
  /\ Goto(c, "decrypt")
  /\ UNCHANGED <<now, issued>>

\* Under the lock it reads lastCleanup again.
Cleanup(c) ==
  /\ At(c, "cleanup")
  /\ IF Due THEN /\ cacheExpiry' = Only(cacheExpiry, {k \in Cached : now <= cacheExpiry[k]})
                 /\ lastCleanup' = now
            ELSE UNCHANGED <<cacheExpiry, lastCleanup>>
  /\ Goto(c, "decrypt")
  /\ UNCHANGED <<now, issued>>

\* KMS decrypts the key, or fails and ValidateToken with it.
Decrypt(c) ==
  /\ At(c, "decrypt")
  /\ Goto(c, "store") \/ Done(c)
  /\ UNCHANGED <<now, issued, cacheExpiry, lastCleanup>>

Earlier(k, l) == cacheExpiry[k] < cacheExpiry[l]

EvictionsLate ==
  IF Cardinality(Cached) <= MaxCache THEN {{}}
  ELSE {E \in SUBSET Cached : Cardinality(E) = 1 /\ \A k \in E, l \in Cached \ E : ~Earlier(l, k)}

\* evictIfNeeded: which keys it may leave; entries that expire together are in any order.
Evictions ==
  IF Cardinality(Cached) < MaxCache THEN {{}}
  ELSE {E \in SUBSET Cached :
          /\ Cardinality(E) = IF EvictBatch > Cardinality(Cached) THEN Cardinality(Cached)
                                                                  ELSE EvictBatch
          /\ \A k \in E, l \in Cached \ E : ~Earlier(l, k)}

SetCachedKeyShort(c) ==
  /\ At(c, "store")
  /\ \E E \in Evictions :
       cacheExpiry' = With(Only(cacheExpiry, Cached \ E), call[c].key, now + Buffer)
  /\ IF call[c].op = "generate" THEN Done(c) ELSE Goto(c, "parse")
  /\ UNCHANGED <<now, issued, lastCleanup>>

\* setCachedKey, under the lock.
SetCachedKey(c) ==
  /\ At(c, "store")
  /\ \E E \in Evictions :
       cacheExpiry' = With(Only(cacheExpiry, Cached \ E), call[c].key, now + Expiration + Buffer)
  /\ IF call[c].op = "generate" THEN Done(c) ELSE Goto(c, "parse")
  /\ UNCHANGED <<now, issued, lastCleanup>>

\* The signature is verified with the key found and the claims are checked: accepted or
\* refused, ValidateToken returns.
Parse(c) ==
  /\ At(c, "parse")
  /\ Done(c)
  /\ UNCHANGED <<now, issued, cacheExpiry, lastCleanup>>

Next ==
  \/ Tick
  \/ \E c \in Calls :
       \/ \E k \in Keys : GenerateToken(c, k) \/ ValidateToken(c, k)
       \/ Peek(c) \/ Cleanup(c) \/ Decrypt(c) \/ SetCachedKey(c) \/ Parse(c)

Spec == Init /\ [][Next]_vars
-------------------------------------------------------------------------------
(***************************************************************************)
(* Properties.                                                             *)
(***************************************************************************)
\* A key is cached only for a token there is, no longer than its life and the buffer.
TypeOK ==
  /\ now \in 0..MaxTime /\ lastCleanup \in 0..now
  /\ DOMAIN issued \subseteq Keys /\ \A k \in DOMAIN issued : issued[k] \in 0..now
  /\ Cached \subseteq DOMAIN issued
  /\ \A k \in Cached : cacheExpiry[k] \in Expires(k) + Buffer..now + Expiration + Buffer
  /\ \A c \in Calls : At(c, "idle") \/ call[c].key \in DOMAIN issued

\* The cache never holds more keys than maxCacheSize, though setCachedKey makes room
\* before it knows whether its key is there already, and calls for one key run together.
CacheBound == Cardinality(Cached) <= MaxCache

\* Two clean-ups are more than the interval apart, although every call decides on one
\* before it takes the lock (cleanupExpiredKeys: "prevent double cleanup").
CleanupsApart == [][lastCleanup' # lastCleanup => lastCleanup' - lastCleanup > Interval]_vars

\* A clean-up drops no key of a token that is still valid.
CleanupSparesLive ==
  [][\A c \in Calls : Cleanup(c) =>
       \A k \in Cached \ DOMAIN cacheExpiry' : now > Expires(k)]_vars
=============================================================================
