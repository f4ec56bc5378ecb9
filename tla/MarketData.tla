----------------------------- MODULE MarketData -----------------------------
(***************************************************************************)
(* Market data (src/ist/data): the cache of quotes with a time to live     *)
(* (cache.py), and the provider that reads files and keeps what it has     *)
(* read until it is disconnected (local.py, provider.py).  A file is the   *)
(* sequence of its bars' timestamps and the version of its contents.       *)
(***************************************************************************)
EXTENDS Integers, Sequences, SequencesExt, FiniteSets, Selections

CONSTANTS
  Symbols, Endings,       \* symbols; <<s, t>> when a key of s ends with ":" and t
  Types,                   \* data types of the cache
  Ttls, DefaultTtl,        \* values of ttl_seconds (0 counts as none); _default_ttl
  Files, Missing, Broken,  \* contents of a file; there is none; columns are missing
  Limits,                  \* values of limit, 0 for none
  MaxTime, MaxVersions     \* bounds: ticks, versions of a file

VARIABLES
  quotes,    \* _cache of DataCache: per type and symbol, cached_at and ttl
  clock,     \* utcnow
  file,      \* per symbol, version and contents of its file
  loaded,    \* _cache of the provider: per symbol, what was read
  connected, \* _connected of the provider
  served     \* the last answer of either

dataVars == <<quotes, clock, file, loaded, connected, served>>

Drop(f, keys) == [k \in DOMAIN f \ keys |-> f[k]]
Put(f, key, value) == [k \in DOMAIN f \cup {key} |-> IF k = key THEN value ELSE f[k]]

-----------------------------------------------------------------------------
(* DataCache                                                               *)

Expired(e) == clock - e.at > e.ttl

set(s, type, ttl) ==
  /\ quotes' = Put(quotes, <<type, s>>,
       [at |-> clock, ttl |-> IF ttl = 0 THEN DefaultTtl ELSE ttl, asked |-> ttl])
  /\ served' = {}
  /\ UNCHANGED <<clock, file, loaded, connected>>

get(s, type) ==
  LET key == <<type, s>> IN
  /\ IF key \notin DOMAIN quotes THEN served' = {} /\ UNCHANGED quotes
     ELSE IF Expired(quotes[key]) THEN served' = {} /\ quotes' = Drop(quotes, {key})
     ELSE /\ served' = {[from |-> "cache", age |-> clock - quotes[key].at,
                         asked |-> quotes[key].asked]}
          /\ UNCHANGED quotes
  /\ UNCHANGED <<clock, file, loaded, connected>>

\* With a type one entry, otherwise all keys that end with the symbol
invalidate(s, types, all) ==
  /\ quotes' = Drop(quotes,
       IF all THEN {k \in DOMAIN quotes : <<k[2], s>> \in Endings} ELSE types \X {s})
  /\ served' = {[from |-> "invalidate", symbol |-> s, types |-> types]}
  /\ UNCHANGED <<clock, file, loaded, connected>>

ClearQuotes ==
  /\ quotes' = [k \in {} |-> {}]
  /\ UNCHANGED <<clock, file, loaded, connected, served>>

TimeGoes ==
  /\ clock < MaxTime /\ clock' = clock + 1 /\ served' = {}
  /\ UNCHANGED <<quotes, file, loaded, connected>>

-----------------------------------------------------------------------------
(* LocalDataProvider                                                       *)

connect == connected' = TRUE /\ UNCHANGED <<quotes, clock, file, loaded, served>>

disconnect ==
  /\ connected' = FALSE /\ loaded' = [s \in {} |-> {}] /\ served' = {}
  /\ UNCHANGED <<quotes, clock, file>>

Readable(s) == s \in DOMAIN loaded \/ file[s].bars \notin {Missing, Broken}

\* _load_data sorts by timestamp; whether the provider is connected is not asked.
Data(s) ==
  IF s \in DOMAIN loaded THEN loaded[s]
  ELSE [version |-> file[s].version, bars |-> Sorted(file[s].bars)]
Load(s) == loaded' = Put(loaded, s, Data(s))

get_quote(s) ==
  /\ IF ~Readable(s) THEN served' = {} /\ UNCHANGED loaded
     ELSE /\ Load(s)
          /\ served' = IF Data(s).bars = <<>> THEN {}
                       ELSE {[from |-> "quote", symbol |-> s, bar |-> Last(Data(s).bars)]}
  /\ UNCHANGED <<quotes, clock, file, connected>>

Within(bars, start, end) == {i \in DOMAIN bars : start <= bars[i] /\ bars[i] <= end}

\* Mutant: the first bars are taken for the last.
Filtered_Head(bars, start, end, limit) ==
  LET in == Kept(bars, Within(bars, start, end)) IN
  IF limit = 0 \/ Len(in) <= limit THEN in ELSE SubSeq(in, 1, limit)

Filtered(bars, start, end, limit) ==
  LET in == Kept(bars, Within(bars, start, end)) IN
  IF limit = 0 \/ Len(in) <= limit THEN in
  ELSE SubSeq(in, Len(in) - limit + 1, Len(in))

\* get_bars, also by way of get_history; a file that cannot be read raises.
get_bars(s, start, end, limit) ==
  /\ IF ~Readable(s) THEN served' = {} /\ UNCHANGED loaded
     ELSE /\ Load(s)
          /\ served' = {[from |-> "bars", symbol |-> s, start |-> start, end |-> end,
                         limit |-> limit, bars |-> Filtered(Data(s).bars, start, end, limit)]}
  /\ UNCHANGED <<quotes, clock, file, connected>>

\* Somebody puts a file in its place, or takes it away (external).
FileChanges(s) ==
  /\ file[s].version < MaxVersions
  /\ \E bars \in Files \cup {Missing, Broken} :
       file' = [file EXCEPT ![s] = [version |-> @.version + 1, bars |-> bars]]
  /\ served' = {}
  /\ UNCHANGED <<quotes, clock, loaded, connected>>

-----------------------------------------------------------------------------
Times == UNION {ToSet(f) : f \in Files}

DataInit ==
  /\ quotes = [k \in {} |-> {}] /\ clock = 0
  /\ file = [s \in Symbols |-> [version |-> 0, bars |-> Missing]]
  /\ loaded = [s \in {} |-> {}] /\ connected = FALSE /\ served = {}

DataNext ==
  \/ \E s \in Symbols :
       \/ \E type \in Types : get(s, type) \/ \E ttl \in Ttls : set(s, type, ttl)
       \/ invalidate(s, Types, TRUE) \/ \E type \in Types : invalidate(s, {type}, FALSE)
       \/ get_quote(s) \/ FileChanges(s)
       \/ \E start, end \in Times, limit \in Limits : get_bars(s, start, end, limit)
  \/ ClearQuotes \/ TimeGoes \/ connect \/ disconnect

DataSpec == DataInit /\ [][DataNext]_dataVars

-----------------------------------------------------------------------------
\* Bars are served in the order of time, within the bounds, the latest ones, and all of
\* those when no more than the limit.
BarsHold(a, all) ==
  LET in == {i \in DOMAIN all : a.start <= all[i] /\ all[i] <= a.end}
      got == ToSet(a.bars)
  IN /\ \A i, j \in DOMAIN a.bars : i < j => a.bars[i] <= a.bars[j]
     /\ \A u \in got : a.start <= u /\ u <= a.end /\ u \in ToSet(all)
     /\ \A i \in in : all[i] \in got \/ \A u \in got : all[i] <= u
     /\ IF a.limit = 0 \/ Cardinality(in) <= a.limit
          THEN Len(a.bars) = Cardinality(in) /\ \A i \in in : all[i] \in got
          ELSE Len(a.bars) = a.limit

\* No quote is served past the time its caller gave it, nor after an invalidation of its
\* symbol; what is loaded is the file, until that is replaced; what is served of it are
\* its bars, and the quote is the last of them.
DataAnswersTruly ==
  /\ \A s \in DOMAIN loaded :
       loaded[s].version = file[s].version => ToSet(loaded[s].bars) = ToSet(file[s].bars)
  /\ \A a \in served :
       /\ a.from = "cache" => a.age <= IF a.asked = 0 THEN DefaultTtl ELSE a.asked
       /\ a.from = "invalidate" => \A type \in a.types : <<type, a.symbol>> \notin DOMAIN quotes
       /\ a.from = "quote" => \A t \in ToSet(loaded[a.symbol].bars) : t <= a.bar
       /\ a.from = "bars" => BarsHold(a, loaded[a.symbol].bars)
=============================================================================
