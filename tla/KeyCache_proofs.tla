-------------------------- MODULE KeyCache_proofs --------------------------
(* Proofs about KeyCache, for every number of keys, calls and ticks. *)
EXTENDS KeyCache, FiniteSetTheorems, TLAPS

\* The provers are tried in turn, with more time than by default: contexts are large.
USE SMTT(30), ZenonT(20), Z3T(30)

\* What calls are about to do, which the safety of the cache rests on.
CallType ==
  call \in [Calls -> [pc : {"idle", "store", "peek", "parse", "cleanup", "decrypt"},
                      key : Keys \cup {"none"}, op : {"none", "generate", "validate"}]]

IInv == TypeOK /\ CallType

\* The initial state is well-formed.
LEMMA InitIInv == Init => IInv
  BY CacheAssumption DEF Init, IInv, TypeOK, CallType, Cached, NoCall, At, Expires

\* Every step keeps the types: a cached key belongs to a token there is, and its
\* entry outlives that token (setCachedKey).
LEMMA StepIInv == IInv /\ [Next]_vars => IInv'
<1> SUFFICES ASSUME IInv, [Next]_vars PROVE IInv'
  OBVIOUS
<1> USE CacheAssumption DEF IInv, CallType, At
<1>1. CASE Tick
  BY <1>1 DEF Tick, TypeOK, Cached, Expires
<1>2. ASSUME NEW c \in Calls, NEW k \in Keys, GenerateToken(c, k) PROVE IInv'
  <2>1. CallType'
    BY <1>2 DEF GenerateToken
  <2>2. /\ DOMAIN issued' = DOMAIN issued \cup {k}
        /\ issued'[k] = now /\ \A x \in DOMAIN issued : issued'[x] = issued[x]
    BY <1>2 DEF GenerateToken, With, TypeOK
  <2>3. \A d \in Calls : At(d, "idle")' \/ call'[d].key \in DOMAIN issued'
    BY <1>2, <2>2 DEF GenerateToken, TypeOK
  <2>4. TypeOK'
    BY <1>2, <2>2, <2>3 DEF GenerateToken, TypeOK, Cached, Expires
  <2> QED BY <2>1, <2>4
<1>3. ASSUME NEW c \in Calls, NEW k \in Keys, ValidateToken(c, k) PROVE IInv'
  BY <1>3 DEF ValidateToken, TypeOK, Cached, Expires
<1>4. ASSUME NEW c \in Calls, Peek(c) PROVE IInv'
  BY <1>4 DEF Peek, Goto, TypeOK, Cached, Expires
<1>5. ASSUME NEW c \in Calls, Cleanup(c) PROVE IInv'
  <2>1. CallType' /\ \A d \in Calls : At(d, "idle")' \/ call'[d].key \in DOMAIN issued'
    BY <1>5 DEF Cleanup, Goto, TypeOK
  <2>2. /\ DOMAIN cacheExpiry' \subseteq Cached
        /\ \A k \in DOMAIN cacheExpiry' : cacheExpiry'[k] = cacheExpiry[k]
    BY <1>5 DEF Cleanup, Cached, Only
  <2>3. lastCleanup' \in 0..now'
    BY <1>5 DEF Cleanup, TypeOK
  <2> QED BY <1>5, <2>1, <2>2, <2>3 DEF Cleanup, TypeOK, Cached, Expires
<1>6. ASSUME NEW c \in Calls, Decrypt(c) PROVE IInv'
  BY <1>6 DEF Decrypt, Goto, Done, NoCall, TypeOK, Cached, Expires
<1>7. ASSUME NEW c \in Calls, SetCachedKey(c) PROVE IInv'
  <2>1. CallType' /\ \A d \in Calls : At(d, "idle")' \/ call'[d].key \in DOMAIN issued'
    BY <1>7 DEF SetCachedKey, Goto, Done, NoCall, TypeOK
  <2>2. PICK E \in Evictions :
          cacheExpiry' = With(Only(cacheExpiry, Cached \ E), call[c].key, now + Expiration + Buffer)
    BY <1>7, Zenon DEF SetCachedKey
  <2>3. /\ Cached' = (Cached \ E) \cup {call[c].key}
        /\ cacheExpiry'[call[c].key] = now + Expiration + Buffer
        /\ \A x \in Cached' : x # call[c].key => x \in Cached /\ cacheExpiry'[x] = cacheExpiry[x]
    BY <2>2 DEF Cached, With, Only
  <2>4. call[c].key \in DOMAIN issued
    BY <1>7 DEF SetCachedKey, TypeOK
  <2>5. UNCHANGED <<now, issued, lastCleanup>>
    BY <1>7 DEF SetCachedKey
  <2>6. Cached' \subseteq DOMAIN issued'
    BY <2>3, <2>4, <2>5 DEF TypeOK
  <2>7. ASSUME NEW k \in Cached'
        PROVE  cacheExpiry'[k] \in Expires(k)' + Buffer..now' + Expiration + Buffer
    <3>1. CASE k = call[c].key
      BY <3>1, <2>3, <2>4, <2>5 DEF TypeOK, Expires
    <3>2. CASE k # call[c].key
      BY <3>2, <2>3, <2>5 DEF TypeOK, Expires
    <3> QED BY <3>1, <3>2
  <2> QED BY <2>1, <2>5, <2>6, <2>7 DEF TypeOK
<1>8. ASSUME NEW c \in Calls, Parse(c) PROVE IInv'
  BY <1>8 DEF Parse, Done, NoCall, TypeOK, Cached, Expires
<1>9. CASE UNCHANGED vars
  BY <1>9 DEF vars, TypeOK, Cached, Expires
<1> QED BY <1>1, <1>2, <1>3, <1>4, <1>5, <1>6, <1>7, <1>8, <1>9 DEF Next

\* A key is cached only for a token there is, and for no longer than the token's life
\* and the buffer (GenerateToken, setCachedKey, cleanupExpiredKeys).
THEOREM Types == Spec => []TypeOK
<1>1. IInv => TypeOK
  BY DEF IInv
<1> QED BY InitIInv, StepIInv, <1>1, PTL DEF Spec
-----------------------------------------------------------------------------
\* The cached keys are finitely many: they are keys.
LEMMA CachedFinite == IInv => IsFiniteSet(Cached) /\ Cardinality(Cached) \in Nat
  BY CacheAssumption, FS_Subset, FS_CardinalityType DEF IInv, TypeOK

\* evictIfNeeded leaves room for one key.
LEMMA EvictionMakesRoom ==
  ASSUME IInv, CacheBound, NEW E \in Evictions, NEW k
  PROVE  Cardinality((Cached \ E) \cup {k}) <= MaxCache
<1> USE CacheAssumption
<1>1. IsFiniteSet(Cached) /\ Cardinality(Cached) \in Nat
  BY CachedFinite
<1>2. IsFiniteSet(Cached \ E) /\ Cardinality(Cached \ E) < MaxCache
  <2>1. CASE Cardinality(Cached) < MaxCache
    <3>1. Cached \ E = Cached
      BY <2>1 DEF Evictions
    <3> QED BY <1>1, <2>1, <3>1
  <2>2. CASE Cardinality(Cached) = MaxCache
    <3>1. /\ E \subseteq Cached
          /\ Cardinality(E) = IF EvictBatch > MaxCache THEN MaxCache ELSE EvictBatch
      BY <1>1, <2>2 DEF Evictions
    <3>2. /\ IsFiniteSet(Cached \ E)
          /\ Cardinality(Cached \ E) = Cardinality(Cached) - Cardinality(Cached \cap E)
      BY <1>1, FS_Difference, FS_Subset, Zenon
    <3>3. Cached \cap E = E
      BY <3>1
    <3> QED BY <2>2, <3>1, <3>2, <3>3
  <2> QED BY <1>1, <2>1, <2>2 DEF CacheBound
<1>3. Cardinality(Cached \ E) \in Nat
  BY <1>2, FS_CardinalityType
<1>4. Cardinality((Cached \ E) \cup {k}) =
        IF k \in Cached \ E THEN Cardinality(Cached \ E) ELSE Cardinality(Cached \ E) + 1
  BY <1>2, FS_AddElement, Zenon
<1> QED BY <1>2, <1>3, <1>4

\* The cache keeps to maxCacheSize, however calls for the same key overlap.
THEOREM Bounded == Spec => []CacheBound
<1>1. Init => CacheBound
  BY CacheAssumption, FS_EmptySet DEF Init, CacheBound, Cached
<1>2. IInv /\ CacheBound /\ [Next]_vars => CacheBound'
  <2> SUFFICES ASSUME IInv, CacheBound, [Next]_vars PROVE CacheBound'
    OBVIOUS
  <2>1. CASE UNCHANGED cacheExpiry
    BY <2>1 DEF CacheBound, Cached
  <2>2. ASSUME NEW c \in Calls, Cleanup(c) PROVE CacheBound'
    <3>1. Cached' \subseteq Cached
      BY <2>2 DEF Cleanup, Only, Cached
    <3>2. Cardinality(Cached') <= Cardinality(Cached) /\ Cardinality(Cached') \in Nat
      BY <3>1, CachedFinite, FS_Subset, FS_CardinalityType
    <3> QED BY <3>2, CachedFinite, CacheAssumption DEF CacheBound
  <2>3. ASSUME NEW c \in Calls, SetCachedKey(c) PROVE CacheBound'
    <3>1. PICK E \in Evictions :
            cacheExpiry' = With(Only(cacheExpiry, Cached \ E), call[c].key, now + Expiration + Buffer)
      BY <2>3, Zenon DEF SetCachedKey
    <3>2. Cached' = (Cached \ E) \cup {call[c].key}
      BY <3>1 DEF Cached, With, Only
    <3> QED BY <3>2, EvictionMakesRoom, Zenon DEF CacheBound
  <2> QED
    BY <2>1, <2>2, <2>3
       DEF Next, Tick, GenerateToken, ValidateToken, Peek, Decrypt, Parse, vars
<1> QED BY <1>1, <1>2, InitIInv, StepIInv, PTL DEF Spec
-----------------------------------------------------------------------------
\* Two clean-ups are more than the interval apart: the decision is taken again under
\* the lock (cleanupExpiredKeys).
THEOREM Apart == Spec => CleanupsApart
<1>1. [Next]_vars => [lastCleanup' # lastCleanup => lastCleanup' - lastCleanup > Interval]_vars
  BY Zenon DEF Next, Tick, GenerateToken, ValidateToken, Peek, Cleanup, Due, Decrypt, SetCachedKey,
         Parse, vars
<1> QED BY <1>1, PTL DEF Spec, CleanupsApart

\* A clean-up drops no key of a token that is still valid: the entries carry at least
\* the expiry of the token (setCachedKey, cleanupExpiredKeys).
THEOREM SparesLive == Spec => CleanupSparesLive
<1> DEFINE A == \A c \in Calls : Cleanup(c) => \A k \in Cached \ DOMAIN cacheExpiry' : now > Expires(k)
<1>1. IInv => A
  <2> SUFFICES ASSUME IInv, NEW c \in Calls, Cleanup(c), NEW k \in Cached \ DOMAIN cacheExpiry'
               PROVE  now > Expires(k)
    OBVIOUS
  <2>1. ~(now <= cacheExpiry[k])
    BY DEF Cleanup, Only, Cached
  <2>2. /\ issued[k] \in Int /\ now \in Int
        /\ cacheExpiry[k] \in Expires(k) + Buffer .. now + Expiration + Buffer
    BY DEF IInv, TypeOK
  <2> QED BY <2>1, <2>2, CacheAssumption DEF Expires
<1> QED BY <1>1, InitIInv, StepIInv, PTL DEF Spec, CleanupSparesLive
=============================================================================
