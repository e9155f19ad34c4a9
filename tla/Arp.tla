--------------------------------- MODULE Arp ---------------------------------
(***************************************************************************)
(* The ARP cache of arp.c: a pool of entries, each on the free list or in  *)
(* the chain of a hash bucket; resolution with retries (arp_resolve,       *)
(* called for every routed packet), learning from every ARP packet heard   *)
(* (arp_handle_request, arp_handle_reply), ageing, and the operations on   *)
(* static entries.                                                         *)
(*                                                                         *)
(* arp_get_timestamp counts its own calls, so time passes only when it is  *)
(* read.  An entry holds its age, the difference the code compares with a  *)
(* time-out, instead of the two time stamps: since the last request while  *)
(* it is incomplete, since the last packet heard once it is complete.      *)
(* Ages stop one past the time-out, the largest value the code tells from  *)
(* the others.  A station is a MAC address on one of the NICs.             *)
(***************************************************************************)
EXTENDS Naturals, Sequences, FiniteSets

CONSTANTS IP,              \* the protocol addresses that occur
          Station,         \* MAC addresses, each on a NIC
          Nobody,          \* no station, and no address
          Entries,         \* the entry pool (ARP_TABLE_SIZE)
          Buckets,         \* the hash buckets (ARP_HASH_SIZE)
          Hash,            \* arp_calculate_hash, as a function on IP
          EntryTimeout,    \* g_arp_timeout
          RequestTimeout,  \* g_request_timeout
          MaxRetries       \* g_max_retries

ASSUME ArpAssumption ==
    /\ Nobody \notin IP \cup Station
    /\ IsFiniteSet(Entries)
    /\ Hash \in [IP -> Buckets]
    /\ EntryTimeout \in Nat \ {0} /\ RequestTimeout \in Nat \ {0}
    /\ MaxRetries \in Nat \ {0}

VARIABLES mode,   \* g_arp_initialized and g_arp_enabled: off, idle or enabled
          cache,  \* g_arp_cache
          heard   \* history: the station last given for an address

arpVars == <<mode, cache, heard>>

Flags == {"dynamic", "permanent"}

Entry == [state : {"FREE"}, ip : {Nobody}, station : {Nobody}, flags : {"dynamic"},
          age : {0}, retry : {0}]
    \cup [state : {"INCOMPLETE"}, ip : IP, station : {Nobody}, flags : {"dynamic"},
          age : 0 .. RequestTimeout + 1, retry : 1 .. MaxRetries]
    \cup [state : {"COMPLETE"}, ip : IP, station : Station, flags : Flags,
          age : 0 .. EntryTimeout + 1, retry : {0}]

FreeEntry == [state |-> "FREE", ip |-> Nobody, station |-> Nobody,
              flags |-> "dynamic", age |-> 0, retry |-> 0]

Incomplete(ip) == [state |-> "INCOMPLETE", ip |-> ip, station |-> Nobody,
                   flags |-> "dynamic", age |-> 0, retry |-> 1]

Complete(ip, st, fl) == [state |-> "COMPLETE", ip |-> ip, station |-> st,
                         flags |-> fl, age |-> 0, retry |-> 0]

EmptyCache == [slot |-> [e \in Entries |-> FreeEntry], free |-> Entries,
               chain |-> [b \in Buckets |-> <<>>], count |-> 0]

ArpInit == mode = "off" /\ cache = EmptyCache /\ heard = [ip \in IP |-> Nobody]

-----------------------------------------------------------------------------
(* The cache. *)

\* arp_get_timestamp: one tick.  The age of a permanent entry is never read.
Limit(r) == IF r.state = "COMPLETE" THEN EntryTimeout ELSE RequestTimeout

AgedEntry(r) == IF r.state = "FREE" \/ r.flags = "permanent" \/ r.age > Limit(r)
                THEN r ELSE [r EXCEPT !.age = @ + 1]

arp_get_timestamp(c) == [c EXCEPT !.slot = [e \in Entries |-> AgedEntry(c.slot[e])]]

\* The positions in its bucket of the entries of ip; lookup takes the first.
Positions(c, ip) == {i \in DOMAIN c.chain[Hash[ip]] :
                        c.slot[c.chain[Hash[ip]][i]].ip = ip}

Known(c, ip) == Positions(c, ip) # {}

arp_cache_lookup(c, ip) ==
    c.chain[Hash[ip]][CHOOSE i \in Positions(c, ip) :
                         \A j \in Positions(c, ip) : i <= j]

Linked(c) == {e \in Entries : \E b \in Buckets : \E i \in DOMAIN c.chain[b] :
                                 c.chain[b][i] = e}

\* The places of a chain that stay when the entries of S leave it, and which of
\* them a place is.
Kept(s, S) == {i \in DOMAIN s : s[i] \notin S}

Rank(s, S, i) == Cardinality({j \in Kept(s, S) : j <= i})

\* arp_remove_from_hash, for the entries of S in one chain.
Unlinked(s, S) == [k \in 1 .. Cardinality(Kept(s, S)) |->
                      s[CHOOSE i \in Kept(s, S) : Rank(s, S, i) = k]]

\* Out of the hash table and on to the free list.
Freed(c, S) ==
    [c EXCEPT !.slot = [e \in Entries |-> IF e \in S THEN FreeEntry ELSE @[e]],
              !.chain = [b \in Buckets |-> Unlinked(@[b], S)],
              !.free = @ \cup S,
              !.count = @ - Cardinality(S)]

\* Mutant of the next definition: entry_count is left to the caller.
LinkUncounted(c, r) ==
    LET e == CHOOSE x \in c.free : TRUE
    IN  [c EXCEPT !.free = @ \ {e}, !.slot[e] = r,
                  !.chain[Hash[r.ip]] = <<e>> \o @]

\* arp_find_free_entry, the new entry's fields and arp_add_to_hash.
\* Which free entry is taken cannot be observed.
Linking(c, r) ==
    LET e == CHOOSE x \in c.free : TRUE
    IN  [c EXCEPT !.free = @ \ {e}, !.slot[e] = r,
                  !.chain[Hash[r.ip]] = <<e>> \o @,
                  !.count = @ + 1]

\* Mutant of the next definition: every entry is held to the request time-out.
ExpiresSoon(r) == /\ r.state # "FREE" /\ r.flags # "permanent"
                  /\ r.age > RequestTimeout

Expired(r) == /\ r.state # "FREE" /\ r.flags # "permanent"
              /\ r.age > Limit(r)

\* The body of arp_cache_age_entries.
AgedOut(c) == LET t == arp_get_timestamp(c)
              IN  Freed(t, {e \in Linked(t) : Expired(t.slot[e])})

\* Mutant of the next definition: a known address keeps its first station.
LearnOnce(c, ip, st, fl) ==
    IF Known(c, ip)
    THEN LET e == arp_cache_lookup(c, ip)
             s == IF c.slot[e].state = "COMPLETE" THEN c.slot[e].station ELSE st
         IN  [arp_get_timestamp(c) EXCEPT !.slot[e] = Complete(ip, s, fl)]
    ELSE LET a == IF c.free = {} THEN AgedOut(c) ELSE c
         IN  IF a.free = {} THEN a
             ELSE Linking(arp_get_timestamp(a), Complete(ip, st, fl))

\* arp_cache_add: an entry of ip is completed; else a free one is taken, after
\* ageing when there is none; else ERROR_NO_MEMORY.
Learned(c, ip, st, fl) ==
    IF Known(c, ip)
    THEN [arp_get_timestamp(c) EXCEPT
             !.slot[arp_cache_lookup(c, ip)] = Complete(ip, st, fl)]
    ELSE LET a == IF c.free = {} THEN AgedOut(c) ELSE c
         IN  IF a.free = {} THEN a
             ELSE Linking(arp_get_timestamp(a), Complete(ip, st, fl))

-----------------------------------------------------------------------------
(* Start and end. *)

\* The pool may also fail to be allocated, which changes nothing.
arp_init == /\ mode = "off"
            /\ mode' = "idle" /\ cache' = EmptyCache
            /\ UNCHANGED heard

arp_enable(on) == /\ mode # "off"
                  /\ mode' = IF on THEN "enabled" ELSE "idle"
                  /\ UNCHANGED <<cache, heard>>

arp_cleanup == /\ mode # "off"
               /\ mode' = "off" /\ cache' = EmptyCache
               /\ UNCHANGED heard

-----------------------------------------------------------------------------
(* The operations of an enabled cache. *)

arp_cache_add(ip, st, fl) ==
    /\ mode = "enabled"
    /\ cache' = Learned(cache, ip, st, fl)
    /\ heard' = [heard EXCEPT ![ip] = st]
    /\ UNCHANGED mode

\* A request or a reply heard: its sender is learned.  That a request for an
\* address of a configured subnet is answered leaves the cache alone.
arp_process_packet(ip, st) == arp_cache_add(ip, st, "dynamic")

arp_cache_delete(ip) ==
    /\ mode = "enabled"
    /\ Known(cache, ip)
    /\ cache' = Freed(cache, {arp_cache_lookup(cache, ip)})
    /\ UNCHANGED <<mode, heard>>

arp_cache_flush ==
    /\ mode = "enabled"
    /\ cache' = Freed(cache, {e \in Linked(cache) :
                                 cache.slot[e].flags # "permanent"})
    /\ UNCHANGED <<mode, heard>>

arp_cache_age_entries ==
    /\ mode = "enabled"
    /\ cache' = AgedOut(cache)
    /\ UNCHANGED <<mode, heard>>

\* arp_send_request.  sent: the NIC and its subnet exist and take the frame.
\* Without a free entry the request goes out and nothing remembers it.
Requested(c, ip, sent) ==
    IF sent /\ c.free # {}
    THEN Linking(arp_get_timestamp(arp_get_timestamp(c)), Incomplete(ip))
    ELSE c

\* arp_resolve_async once the time stamp has been read, for a pending entry e.
Retried(c, e, sent) ==
    LET ip == c.slot[e].ip IN
    CASE c.slot[e].age <= RequestTimeout -> c
      [] c.slot[e].age > RequestTimeout /\ c.slot[e].retry < MaxRetries ->
            Requested([c EXCEPT !.slot[e].retry = @ + 1, !.slot[e].age = 0], ip, sent)
      [] OTHER -> Freed(c, {e})

\* No entry at all: the first request.
Unknown(ip) == ~ Known(cache, ip)

\* arp_resolve for an address that is not resolved; for one that is, it copies
\* the station and changes nothing.
arp_resolve_first(ip, sent) ==
    /\ mode = "enabled"
    /\ Unknown(ip)
    /\ cache' = Requested(cache, ip, sent)
    /\ UNCHANGED <<mode, heard>>

Pending(ip) == /\ Known(cache, ip)
               /\ cache.slot[arp_cache_lookup(cache, ip)].state = "INCOMPLETE"

arp_resolve_again(ip, sent) ==
    /\ mode = "enabled"
    /\ Pending(ip)
    /\ cache' = Retried(arp_get_timestamp(cache), arp_cache_lookup(cache, ip), sent)
    /\ UNCHANGED <<mode, heard>>

ArpNext == \/ arp_init
           \/ \E on \in BOOLEAN : arp_enable(on)
           \/ arp_cleanup
           \/ \E ip \in IP, st \in Station : arp_process_packet(ip, st)
           \/ \E ip \in IP, st \in Station : arp_cache_add(ip, st, "permanent")
           \/ \E ip \in IP : arp_cache_delete(ip)
           \/ arp_cache_flush
           \/ arp_cache_age_entries
           \/ \E ip \in IP, sent \in BOOLEAN : arp_resolve_first(ip, sent)
           \/ \E ip \in IP, sent \in BOOLEAN : arp_resolve_again(ip, sent)

ArpSpec == ArpInit /\ [][ArpNext]_arpVars

-----------------------------------------------------------------------------
(* Properties. *)

\* Types of the state; entry_count, an unsigned number, never passes below
\* zero or above the pool.
ArpTypeOK ==
    /\ mode \in {"off", "idle", "enabled"}
    /\ cache.slot \in [Entries -> Entry]
    /\ cache.free \subseteq Entries
    /\ DOMAIN cache.chain = Buckets
    /\ \A b \in Buckets : \A i \in DOMAIN cache.chain[b] : cache.chain[b][i] \in Entries
    /\ cache.count \in 0 .. Cardinality(Entries)
    /\ heard \in [IP -> Station \cup {Nobody}]

\* Every entry of the pool is either on the free list or in exactly one place
\* of one bucket, the bucket its address hashes to, however often entries are
\* aged out, deleted, flushed and reused; entry_count counts the second kind.
EntriesAccounted ==
    /\ cache.free = Entries \ Linked(cache)
    /\ \A e \in Entries : (cache.slot[e].state = "FREE") <=> (e \in cache.free)
    /\ \A b \in Buckets : \A i, j \in DOMAIN cache.chain[b] :
          /\ cache.chain[b][i] = cache.chain[b][j] => i = j
          /\ Hash[cache.slot[cache.chain[b][i]].ip] = b
    /\ cache.count = Cardinality(Linked(cache))

\* The cache is well formed: counters within their limits, lists accounted for.
CacheInv == ArpTypeOK /\ EntriesAccounted

\* The cache answers with the station it last heard of.  Retries leave several
\* entries of one address in its bucket, yet a complete one is always the one
\* arp_cache_lookup meets first, so no pending or outdated duplicate hides it,
\* also after the address moved, was deleted, aged out or timed out.
LastHeardIsFound ==
    \A e \in Entries : cache.slot[e].state = "COMPLETE" =>
        /\ e = arp_cache_lookup(cache, cache.slot[e].ip)
        /\ cache.slot[e].station = heard[cache.slot[e].ip]

\* A cache under pressure gives up only what has expired: no step but a
\* deletion, a flush or the end of the cache loses a resolved address before
\* its time, a full pool met by a new address and retries included.
FreshIsKept ==
    [][\A ip \in IP :
          LET e == arp_cache_lookup(cache, ip) IN
          ( /\ Known(cache, ip)
            /\ cache.slot[e].state = "COMPLETE"
            /\ cache.slot[e].age < EntryTimeout
            /\ ~ (arp_cache_delete(ip) \/ arp_cache_flush \/ arp_cleanup) )
          => /\ Known(cache', ip)
             /\ cache'.slot[arp_cache_lookup(cache', ip)].state = "COMPLETE"]_arpVars

\* Every request repeated for a pending address brings it nearer to
\* max_retries, at which resolution is given up (test_arp_retry_mechanism).
RetriesCount ==
    [][\A ip \in IP :
          ( /\ arp_resolve_again(ip, TRUE)
            /\ cache.slot[arp_cache_lookup(cache, ip)].age >= RequestTimeout
            /\ Known(cache', ip) )
          => cache'.slot[arp_cache_lookup(cache', ip)].retry
                > cache.slot[arp_cache_lookup(cache, ip)].retry]_arpVars
=============================================================================
