--------------------------- MODULE IndicatorCache ---------------------------
(***************************************************************************)
(* Caches of indicator results (src/ist/strategy/indicators/cache.py, and  *)
(* CachedIndicator of base.py): an IndicatorCache with a size and a time   *)
(* to live, behind the decorator or the mixin, and the one entry that a    *)
(* CachedIndicator keeps.  An input is its main series and its other ones; *)
(* a result is what it was calculated from.  Hashes do not collide here.   *)
(***************************************************************************)
EXTENDS Integers, FiniteSets

CONSTANTS
  Indicators,          \* records name, all (reads more than the main series)
  Series, NoSeries,    \* values of a series; no value of one
  MaxSize, Ttl, NoTtl, \* max_size; ttl in ticks of the clock, or None
  MaxTime, MaxCalls    \* bounds: ticks, calls

ASSUME CacheAssumption ==
  /\ MaxSize \in Nat /\ MaxTime \in Nat /\ MaxCalls \in Nat
  /\ Ttl \in Nat \cup {NoTtl} /\ NoSeries \notin Series

VARIABLES
  cache,        \* _cache: per key, the result and when it was stored
  hits, misses, \* _hits, _misses
  enabled,      \* _cache_enabled of the mixin
  slot,         \* per CachedIndicator, _cache_key and _cache
  clock,        \* time.time()
  calls,        \* how many calls there were
  answer        \* the last answer: who asked, what for, the result and its age

cacheVars == <<cache, hits, misses, enabled, slot, clock, calls, answer>>

Inputs == [main : Series, others : Series]
Calculated(i, d) == [by |-> i, main |-> d.main, others |-> IF i.all THEN d.others ELSE NoSeries]

\* _generate_key: name and parameters, and the main series alone
Key(i, d) == <<i, d.main>>

Expired(key) == Ttl # NoTtl /\ clock - cache[key].stored > Ttl
Drop(c, key) == [k \in DOMAIN c \ {key} |-> c[k]]

\* Where _evict_oldest leaves a cache: any of the oldest goes (the first of them, there).
Evictions(c) ==
  IF DOMAIN c = {} THEN {c}
  ELSE {Drop(c, k) : k \in {o \in DOMAIN c : \A l \in DOMAIN c : c[o].stored <= c[l].stored}}

Put(c, key, result) ==
  [k \in DOMAIN c \cup {key} |->
     IF k = key THEN [result |-> result, stored |-> clock] ELSE c[k]]

\* What set may leave: also an entry that is overwritten costs the oldest its place.
set(c, key, result) ==
  IF Cardinality(DOMAIN c) >= MaxSize
    THEN {Put(e, key, result) : e \in Evictions(c)}
    ELSE {Put(c, key, result)}

Calls == calls < MaxCalls /\ calls' = calls + 1
Answers(i, d, result, age) ==
  answer' = {[by |-> i, data |-> d, result |-> result, age |-> age]}

-----------------------------------------------------------------------------
(* IndicatorCache.get, and calculate behind the decorator or the mixin     *)

\* Mutant: the time to live is not looked at.
Found_AnyAge(key) == key \in DOMAIN cache

Found(key) == key \in DOMAIN cache /\ ~Expired(key)

Hit(i, d) ==
  /\ Calls /\ enabled /\ Found(Key(i, d))
  /\ hits' = hits + 1
  /\ Answers(i, d, cache[Key(i, d)].result, clock - cache[Key(i, d)].stored)
  /\ UNCHANGED <<cache, misses, enabled, slot, clock>>

\* get deletes an entry that has expired; the calculation is stored.
Miss(i, d) ==
  /\ Calls /\ enabled /\ ~Found(Key(i, d))
  /\ misses' = misses + 1
  /\ cache' \in set(Drop(cache, Key(i, d)), Key(i, d), Calculated(i, d))
  /\ Answers(i, d, Calculated(i, d), 0)
  /\ UNCHANGED <<hits, enabled, slot, clock>>

Uncached(i, d) ==
  /\ Calls /\ ~enabled
  /\ Answers(i, d, Calculated(i, d), 0)
  /\ UNCHANGED <<cache, hits, misses, enabled, slot, clock>>

\* enable_cache and disable_cache: the entries stay.
Switch ==
  /\ Calls /\ enabled' = ~enabled
  /\ UNCHANGED <<cache, hits, misses, slot, clock, answer>>

\* A result stored by a caller of set
Store(i, d) ==
  /\ Calls
  /\ cache' \in set(cache, Key(i, d), Calculated(i, d))
  /\ UNCHANGED <<hits, misses, enabled, slot, clock, answer>>

\* The counters stay.
clear ==
  /\ Calls /\ cache' = [k \in {} |-> {}]
  /\ UNCHANGED <<hits, misses, enabled, slot, clock, answer>>

-----------------------------------------------------------------------------
(* CachedIndicator                                                         *)

calculate_with_cache(i, d) ==
  LET new == [main |-> d.main, result |-> Calculated(i, d)]
      old == slot[i]
      kept == IF old.main = d.main THEN old ELSE new
  IN /\ Calls
     /\ slot' = [slot EXCEPT ![i] = kept]
     /\ Answers(i, d, kept.result, 0)
     /\ UNCHANGED <<cache, hits, misses, enabled, clock>>

EmptySlot(i) == [main |-> NoSeries, result |-> NoSeries]

clear_cache(i) ==
  /\ Calls /\ slot' = [slot EXCEPT ![i] = EmptySlot(i)]
  /\ UNCHANGED <<cache, hits, misses, enabled, clock, answer>>

TimeGoes ==
  /\ clock < MaxTime /\ clock' = clock + 1
  /\ UNCHANGED <<cache, hits, misses, enabled, slot, calls, answer>>

-----------------------------------------------------------------------------
CacheInit ==
  /\ cache = [k \in {} |-> {}] /\ hits = 0 /\ misses = 0 /\ enabled = TRUE
  /\ slot = [i \in Indicators |-> EmptySlot(i)]
  /\ clock = 0 /\ calls = 0 /\ answer = {}

CacheNext ==
  \/ \E i \in Indicators, d \in Inputs :
       Hit(i, d) \/ Miss(i, d) \/ Uncached(i, d) \/ Store(i, d) \/ calculate_with_cache(i, d)
  \/ \E i \in Indicators : clear_cache(i)
  \/ Switch \/ clear \/ TimeGoes

CacheSpec == CacheInit /\ [][CacheNext]_cacheVars

-----------------------------------------------------------------------------
\* The cache never holds more than max_size entries (or one, for a size of zero); what a
\* caller is answered is what the calculation would give, no older than the time to
\* live, unless the indicator reads more than the main series, which is all keys know.
CacheAnswersTruly ==
  /\ Cardinality(DOMAIN cache) <= IF MaxSize = 0 THEN 1 ELSE MaxSize
  /\ \A a \in answer :
       /\ a.result = Calculated(a.by, a.data) \/ a.by.all
       /\ a.result.by = a.by /\ a.result.main = a.data.main
       /\ Ttl # NoTtl => a.age <= Ttl
=============================================================================
