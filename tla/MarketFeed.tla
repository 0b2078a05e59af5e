----------------------------- MODULE MarketFeed -----------------------------
(***************************************************************************)
(* A candle read: the adapter's cache (adapters/exchange/cache.py), the    *)
(* retrying client behind it (http.py) and the age check in front of it    *)
(* (binance/adapter.py get_klines), with several readers at once.          *)
(*                                                                         *)
(* A cache entry is [key, event, asked, expires]; the sequence is in order *)
(* of use, the least recent first.  `asked` is history: when the request   *)
(* that fetched it began.  A call is [stage, key, attempt, began, sent,    *)
(* wake, slow, event, asked]; slow is history too: an attempt outlasted    *)
(* the request timeout, which bounds each phase of a request and not its   *)
(* whole.                                                                  *)
(***************************************************************************)
EXTENDS Integers, Sequences, FiniteSets, FiniteSetsExt, SequencesExt

CONSTANTS
  Readers, Keys,
  Ttl, MaxEntries,             \* of the cache
  MaxAge,                      \* an older last candle is stale
  RequestTimeout, MaxRetries, Backoff, MaxBackoff,
  Lags,                        \* how old a candle is when the venue gives it
  RetryAfters,                 \* what a Retry-After may ask, None among them
  None,
  LastInstant, MaxReads

ASSUME FeedAssumption ==
  /\ {Ttl, MaxEntries, RequestTimeout} \subseteq Nat \ {0}
  /\ {MaxRetries, Backoff, MaxBackoff, MaxAge, LastInstant, MaxReads} \subseteq Nat
  /\ RetryAfters \ {None} \subseteq Nat

VARIABLES now, entries, calls, reads

feedVars == <<now, entries, calls, reads>>

Idle == [stage |-> "IDLE", key |-> None, attempt |-> 0, began |-> 0, sent |-> 0, wake |-> 0,
         slow |-> FALSE, event |-> 0, asked |-> 0]

-----------------------------------------------------------------------------
(* The cache. *)

Holds(cache, key) == \E k \in DOMAIN cache : cache[k].key = key
PlaceOf(cache, key) == CHOOSE k \in DOMAIN cache : cache[k].key = key

Without(cache, key) ==
  IF Holds(cache, key) THEN RemoveAt(cache, PlaceOf(cache, key)) ELSE cache

(* Wrong: every use renews the entry's life. *)
UsedRenewed(cache, key) ==
  Append(Without(cache, key), [cache[PlaceOf(cache, key)] EXCEPT !.expires = now + Ttl])

(* TTLCache.get, a hit: the entry becomes the most recently used.          *)
Used(cache, key) == Append(Without(cache, key), cache[PlaceOf(cache, key)])

(* TTLCache.set: the least recently used leave. *)
Stored(cache, entry) ==
  LET all == Append(Without(cache, entry.key), entry)
  IN SubSeq(all, Max({1, Len(all) - MaxEntries + 1}), Len(all))

-----------------------------------------------------------------------------
(* The client. *)

(* Wrong: the backoffs are left out of the budget. *)
BudgetOfAttempts(retries) == RequestTimeout * (retries + 1) + 1

(* The total deadline over every attempt and every backoff.                *)
Budget(retries) == RequestTimeout * (retries + 1) + MaxBackoff * retries + 1

(* The delays before the next attempt: what the venue asks, or anything up *)
(* to the doubled backoff, and never more than the ceiling.                *)
Delays(attempt, retryAfter) ==
  IF retryAfter # None THEN {Min({retryAfter, MaxBackoff})}
  ELSE {delay \in 0..MaxBackoff : delay <= Backoff * 2^attempt}

(* get_klines: what is handed to the reader is judged by its own age.      *)
Handed(call, event, asked) ==
  [call EXCEPT !.stage = IF now - event > MaxAge THEN "STALE" ELSE "OK",
               !.event = event, !.asked = asked]

-----------------------------------------------------------------------------
FeedInit ==
  /\ now = 0 /\ entries = <<>> /\ reads = 0
  /\ calls = [r \in Readers |-> Idle]

(* An entry past its life is dropped, never served.                        *)
Read(r, key) ==
  /\ calls[r].stage \in {"IDLE", "OK", "STALE", "FAILED", "CUT"} /\ reads < MaxReads
  /\ reads' = reads + 1
  /\ LET asking == [Idle EXCEPT !.stage = "FLYING", !.key = key, !.began = now, !.sent = now]
         entry == entries[PlaceOf(entries, key)]
     IN IF Holds(entries, key) /\ entry.expires > now
        THEN /\ entries' = Used(entries, key)
             /\ calls' = [calls EXCEPT ![r] = Handed(asking, entry.event, entry.asked)]
        ELSE /\ entries' = Without(entries, key)
             /\ calls' = [calls EXCEPT ![r] = asking]
  /\ UNCHANGED now

Finished(r) == [calls[r] EXCEPT !.slow = @ \/ now - calls[r].sent > RequestTimeout]

(* An answer that parses is stored, and its life starts now. *)
Answered(r, lag) ==
  LET call == Finished(r)
      entry == [key |-> call.key, event |-> now - lag, asked |-> call.began, expires |-> now + Ttl]
  IN /\ calls[r].stage = "FLYING"
     /\ entries' = Stored(entries, entry)
     /\ calls' = [calls EXCEPT ![r] = Handed(call, entry.event, entry.asked)]
     /\ UNCHANGED <<now, reads>>

(* A refusal that no retry would change, or a body that is not JSON.       *)
Refused(r) ==
  /\ calls[r].stage = "FLYING"
  /\ calls' = [calls EXCEPT ![r] = [Finished(r) EXCEPT !.stage = "FAILED"]]
  /\ UNCHANGED <<now, entries, reads>>

(* A timeout, a transport error or a status that a retry may change.       *)
Faulted(r, retryAfter) ==
  /\ calls[r].stage = "FLYING"
  /\ IF calls[r].attempt = MaxRetries
       THEN calls' = [calls EXCEPT ![r] = [Finished(r) EXCEPT !.stage = "FAILED"]]
       ELSE \E delay \in Delays(calls[r].attempt, retryAfter) :
              calls' = [calls EXCEPT ![r] = [Finished(r) EXCEPT !.stage = "SLEEPING",
                                                               !.wake = now + delay]]
  /\ UNCHANGED <<now, entries, reads>>

Resumed(r) ==
  /\ calls[r].stage = "SLEEPING" /\ calls[r].wake <= now
  /\ calls' = [calls EXCEPT ![r].stage = "FLYING", ![r].attempt = @ + 1, ![r].sent = now]
  /\ UNCHANGED <<now, entries, reads>>

(* asyncio.timeout around all of it; a sleep that is cut was not an        *)
(* attempt.                                                                *)
Cut(r) ==
  /\ calls[r].stage \in {"FLYING", "SLEEPING"}
  /\ now - calls[r].began >= Budget(MaxRetries)
  /\ calls' = [calls EXCEPT ![r] = [(IF @.stage = "FLYING" THEN Finished(r) ELSE @)
                                     EXCEPT !.stage = "CUT"]]
  /\ UNCHANGED <<now, entries, reads>>

(* A sleep that is over and a deadline that is reached do not wait.        *)
Due(r) == \/ calls[r].stage = "SLEEPING" /\ calls[r].wake <= now
          \/ calls[r].stage \in {"FLYING", "SLEEPING"}
             /\ now - calls[r].began >= Budget(MaxRetries)

FeedTick ==
  /\ now < LastInstant /\ ~\E r \in Readers : Due(r)
  /\ now' = now + 1
  /\ UNCHANGED <<entries, calls, reads>>

FeedNext ==
  \/ \E r \in Readers :
       \/ \E key \in Keys : Read(r, key)
       \/ \E lag \in Lags : Answered(r, lag)
       \/ \E after \in RetryAfters : Faulted(r, after)
       \/ Refused(r) \/ Resumed(r) \/ Cut(r)
  \/ FeedTick

FeedSpec == FeedInit /\ [][FeedNext]_feedVars

-----------------------------------------------------------------------------
(* Properties. *)

(* No cached price outlives its life however often it is read: what the    *)
(* cache still serves was asked of the venue no longer ago than one life   *)
(* and one whole request, and the cache stays within its size with one     *)
(* entry a key (cache.py, "Never stale-as-live").                          *)
CachedDataAgesOut ==
  /\ \A e \in ToSet(entries) : e.expires > now => now - e.asked < Ttl + Budget(MaxRetries)
  /\ Len(entries) <= MaxEntries
  /\ \A j, k \in DOMAIN entries : entries[j].key = entries[k].key => j = k

(* The total budget never takes away an attempt the retry policy grants:   *)
(* a call is cut only if an attempt outlasted the request timeout          *)
(* (http.py:65-71, the deadline covers every attempt and every backoff).   *)
OnlySlownessIsCut == \A r \in Readers : calls[r].stage = "CUT" => calls[r].slow

=============================================================================
