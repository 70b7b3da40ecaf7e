----------------------------- MODULE KeysetCache -----------------------------
(***************************************************************************)
(* Keyset discovery, the keyset cache and what is selected from it.        *)
(*                                                                         *)
(* The mint lists its keysets in a fixed order and moves each one through  *)
(* future, active, retired and, perhaps, delisted.  A refresh reads the    *)
(* listing, then the keys of each supported keyset in a request of its     *)
(* own, and stores the entries one by one: the client bridge stores each   *)
(* entry as soon as its keys are verified, the server's host only when it  *)
(* has them all.  A client opens channels, and a server closes them, with  *)
(* a keyset from its cache: it refreshes when nothing is usable, and once  *)
(* more when the mint rejects the keyset.  Other tasks refresh the same    *)
(* cache.  Requests may fail, keys answers may be damaged, keysets expire. *)
(* A behaviour is about one cache, a client's or a server's.               *)
(***************************************************************************)
EXTENDS Naturals, Sequences

CONSTANTS Order,          \* the mint's keysets, in the order it lists them
          Meta,           \* [keysets -> [byte, unit, fee, expiry]]; expiry: {} or {t}
          Unit, Allowed,  \* the unit and versions a client selects for
          Inputs,         \* keysets of the input proofs it opens with
          FirstActive,    \* keysets active at the start
          Refreshers,     \* other tasks refreshing the same cache
          MaxNow, MaxCacheFaults, NoKeyset

KeysetIds == {Order[i] : i \in 1..Len(Order)}

ASSUME CacheAssumption ==
    (\A k \in KeysetIds : Meta[k].byte \in Nat) /\ Inputs \subseteq KeysetIds

Caller == "caller"
Agents == Refreshers \cup {Caller}

VARIABLES kcSide,     \* whose cache: "client" or "server"
          kcStatus,   \* the mint's keysets
          kcNow,      \* the clock, for final expiries
          kcCache,    \* [KeysetIds -> entry or NoKeyset]
          kcJob,      \* [Agents -> the refresh, opening or close in progress]
          kcChosen,   \* what the attempt selected, and its inputs' metadata
          kcLast,     \* how the last call ended; "none" while one is in progress
          kcFaults

kcVars == << kcSide, kcStatus, kcNow, kcCache, kcJob, kcChosen, kcLast, kcFaults >>

-----------------------------------------------------------------------------
(* Listings and keys.  An entry of a listing is [id, active]; its metadata  *)
(* is the mint's, and so is the order of the entries.                       *)

(* The first entry of a listing, or of what is left of it. *)
First(entries) ==
    {e \in entries : \A f \in entries :
        \E i \in 1..Len(Order), j \in 1..Len(Order) :
            i <= j /\ Order[i] = e.id /\ Order[j] = f.id}

Listing ==
    {[id |-> k, active |-> kcStatus[k] = "active"] :
        k \in {l \in KeysetIds : kcStatus[l] \in {"active", "retired"}}}

(* Prefix bytes 00 and 01 are the supported versions. *)
supported_keyset_id(k) == Meta[k].byte <= 1

KeysetDiscovery_from_json(listing) == {e \in listing : supported_keyset_id(e.id)}

Versions_allow(allowed, k) == Meta[k].byte \in allowed

(* The first active allowed keyset of the unit, in the mint's order, if any. *)
select_active(discovery, unit, allowed) ==
    {e.id : e \in First({d \in discovery :
        d.active /\ Meta[d.id].unit = unit /\ Versions_allow(allowed, d.id)})}

(* How often a keys answer has the keyset, the unit and fee it repeats, and *)
(* the keyset its keys really are of.                                       *)
GoodKeys(k) == [copies |-> 1, unit |-> Meta[k].unit, fee |-> Meta[k].fee, keysOf |-> k]

(* A damaged answer: it lacks or repeats the keyset, contradicts the        *)
(* listing, or has the keys of another keyset.                              *)
BadKeys(k) ==
    {[GoodKeys(k) EXCEPT !.copies = n] : n \in {0, 2}}
    \cup {[GoodKeys(k) EXCEPT !.fee = @ + 1], [GoodKeys(k) EXCEPT !.unit = "other"]}
    \cup {[GoodKeys(k) EXCEPT !.keysOf = l] : l \in KeysetIds \ {k}}

(* Mutant: the fee of the keys answer is not compared with the listing. *)
build_keyset_info_any_fee(k, answer) ==
    IF /\ supported_keyset_id(k)
       /\ answer.copies = 1
       /\ answer.unit = Meta[k].unit
       /\ answer.keysOf = k
    THEN {[id |-> answer.keysOf, unit |-> Meta[k].unit, fee |-> answer.fee,
           expiry |-> Meta[k].expiry]}
    ELSE {}

(* The keys answer must have the keyset once, agree with the listing, and   *)
(* its keys must derive the keyset id.                                      *)
build_keyset_info_from_responses(k, answer) ==
    IF /\ supported_keyset_id(k)
       /\ answer.copies = 1
       /\ answer.unit = Meta[k].unit
       /\ answer.fee = Meta[k].fee
       /\ answer.keysOf = k
    THEN {[id |-> answer.keysOf, unit |-> Meta[k].unit, fee |-> answer.fee,
           expiry |-> Meta[k].expiry]}
    ELSE {}

-----------------------------------------------------------------------------
(* The cache. *)

(* Active means active when the entry was last written. *)
get_active_keyset_ids(unit) ==
    {k \in KeysetIds : kcCache[k] # NoKeyset /\ kcCache[k].active /\ kcCache[k].unit = unit}

(* The client's policy names versions, the server takes any it has cached. *)
usable_output_keyset_ids(unit, allowed) ==
    {k \in get_active_keyset_ids(unit) :
        /\ kcSide = "client" => Versions_allow(allowed, k)
        /\ kcCache[k].info.id = k
        /\ kcCache[k].info.unit = unit
        /\ \A t \in kcCache[k].info.expiry : kcNow < t}

keyset_summary_from_cache_entry(k, unit) ==
    IF kcCache[k].unit = unit /\ kcCache[k].info.id = k /\ kcCache[k].info.unit = unit
    THEN {[id |-> k, fee |-> kcCache[k].info.fee]} ELSE {}

(* Everything the listing has for the unit, retired keysets included. *)
token_input_keysets_from_response(discovery, unit) ==
    {[id |-> e.id, fee |-> Meta[e.id].fee] : e \in {x \in discovery : Meta[x.id].unit = unit}}

list_keysets_for_unit(unit) ==
    {k \in KeysetIds : kcCache[k] # NoKeyset /\ kcCache[k].unit = unit}

(* For a token: whatever is cached for the unit, the mint's listing only    *)
(* when nothing is.                                                         *)
fetch_token_input_keysets(unit) ==
    LET cached == list_keysets_for_unit(unit)
    IN  IF cached # {} THEN UNION {keyset_summary_from_cache_entry(k, unit) : k \in cached}
        ELSE token_input_keysets_from_response(KeysetDiscovery_from_json(Listing), unit)

(* For proofs: cached metadata of each input keyset, the mint's for those   *)
(* not cached; a missing or inconsistent one is an error.                   *)
fetch_proof_input_keysets(inputs, unit) ==
    LET cached  == {k \in inputs : kcCache[k] # NoKeyset}
        fetched == token_input_keysets_from_response(KeysetDiscovery_from_json(Listing), unit)
        found   == (UNION {keyset_summary_from_cache_entry(k, unit) : k \in cached})
                   \cup {s \in fetched : s.id \in inputs \ cached}
    IN  IF {s.id : s \in found} = inputs THEN found ELSE {}

-----------------------------------------------------------------------------
(* first is the keyset after which no retry is left, pick the one a listing *)
(* was searched for.                                                        *)
Free == [step |-> "idle", todo |-> {}, fetched |-> {}, back |-> "idle",
         first |-> NoKeyset, pick |-> {}]
NoChoice == [id |-> NoKeyset, info |-> NoKeyset, at |-> 0, inputs |-> {}]

CacheInit ==
    /\ kcSide \in {"client", "server"}
    /\ kcStatus = [k \in KeysetIds |-> IF k \in FirstActive THEN "active" ELSE "future"]
    /\ kcNow = 0
    /\ kcCache = [k \in KeysetIds |-> NoKeyset]
    /\ kcJob = [a \in Agents |-> Free]
    /\ kcChosen = NoChoice
    /\ kcLast = "none"
    /\ kcFaults = 0

Job(a, job) == kcJob' = [kcJob EXCEPT ![a] = job]

(* A keyset becomes active, is retired, and may drop out of the listing.    *)
(* One of an unsupported version stays as it is.                            *)
KeysetMoves == \E k \in KeysetIds :
    /\ supported_keyset_id(k)
    /\ kcStatus[k] # "delisted"
    /\ kcStatus' = [kcStatus EXCEPT ![k] =
          IF @ = "future" THEN "active" ELSE IF @ = "active" THEN "retired" ELSE "delisted"]
    /\ UNCHANGED << kcSide, kcNow, kcCache, kcJob, kcChosen, kcLast, kcFaults >>

CacheTick ==
    /\ kcNow < MaxNow
    /\ kcNow' = kcNow + 1
    /\ UNCHANGED << kcSide, kcStatus, kcCache, kcJob, kcChosen, kcLast, kcFaults >>

(* A refresh starts with the listing; `back` is where its caller goes on.   *)
Refresh(a, job) ==
    Job(a, [job EXCEPT !.step = "keys", !.todo = KeysetDiscovery_from_json(Listing),
                       !.fetched = {}])

refresh(a) ==
    /\ a \in Refreshers
    /\ kcJob[a].step = "idle"
    /\ Refresh(a, [kcJob[a] EXCEPT !.back = "idle"])
    /\ UNCHANGED << kcSide, kcStatus, kcNow, kcCache, kcChosen, kcLast, kcFaults >>

(* Mutant: an entry that is there is left as it is. *)
set_keyset_once(e, info) ==
    kcCache' = IF kcCache[e.id] # NoKeyset THEN kcCache
               ELSE [kcCache EXCEPT ![e.id] = [info |-> info, active |-> e.active,
                                               unit |-> Meta[e.id].unit]]

set_keyset(e, info) ==
    kcCache' = [kcCache EXCEPT ![e.id] = [info |-> info, active |-> e.active,
                                          unit |-> Meta[e.id].unit]]

Kept(a, e, info) ==
    IF kcSide = "client" THEN {} ELSE kcJob[a].fetched \cup {[entry |-> e, info |-> info]}

(* A refresh that fails ends its call, except that a close that was         *)
(* rejected selects again from what is cached.                              *)
RefreshFailed(a) ==
    IF a = Caller /\ kcSide = "server" /\ kcJob[a].first # NoKeyset
    THEN Job(a, [kcJob[a] EXCEPT !.step = "select", !.todo = {}, !.fetched = {}])
         /\ UNCHANGED kcLast
    ELSE Job(a, Free) /\ kcLast' = IF a = Caller THEN "failed" ELSE kcLast

(* GET /v1/keys/{id} of the next keyset.  The client bridge stores the      *)
(* entry at once, the host keeps it until it has all of them; an answer     *)
(* that does not verify ends the refresh.                                   *)
KeysAnswered(a, e, answer) ==
    LET infos == build_keyset_info_from_responses(e.id, answer)
    IN  IF infos = {}
        THEN RefreshFailed(a) /\ UNCHANGED kcCache
        ELSE \E info \in infos :
             /\ Job(a, [kcJob[a] EXCEPT !.todo = @ \ {e}, !.fetched = Kept(a, e, info)])
             /\ IF kcSide = "client" THEN set_keyset(e, info) ELSE UNCHANGED kcCache
             /\ UNCHANGED kcLast

KeysArrive(a) ==
    /\ kcJob[a].step = "keys"
    /\ \E e \in First(kcJob[a].todo) : KeysAnswered(a, e, GoodKeys(e.id))
    /\ UNCHANGED << kcSide, kcStatus, kcNow, kcChosen, kcFaults >>

(* A failed request is like an answer without the keyset. *)
KeysFail(a) ==
    /\ kcJob[a].step = "keys"
    /\ kcFaults < MaxCacheFaults
    /\ kcFaults' = kcFaults + 1
    /\ \E e \in First(kcJob[a].todo) : \E answer \in BadKeys(e.id) : KeysAnswered(a, e, answer)
    /\ UNCHANGED << kcSide, kcStatus, kcNow, kcChosen >>

(* The host stores what it fetched, entry by entry. *)
HostStores(a) ==
    /\ kcJob[a].step = "keys"
    /\ kcJob[a].todo = {}
    /\ \E f \in kcJob[a].fetched :
          /\ f.entry \in First({g.entry : g \in kcJob[a].fetched})
          /\ set_keyset(f.entry, f.info)
          /\ Job(a, [kcJob[a] EXCEPT !.fetched = @ \ {f}])
    /\ UNCHANGED << kcSide, kcStatus, kcNow, kcChosen, kcLast, kcFaults >>

RefreshDone(a) ==
    /\ kcJob[a].step = "keys"
    /\ kcJob[a].todo = {}
    /\ kcJob[a].fetched = {}
    /\ Job(a, [kcJob[a] EXCEPT !.step = kcJob[a].back])
    /\ UNCHANGED << kcSide, kcStatus, kcNow, kcCache, kcChosen, kcLast, kcFaults >>

-----------------------------------------------------------------------------
(* Openings and closes, up to the mint's verdict on the keyset. *)

(* A refresh first when nothing that is cached is usable. *)
EnsureCached ==
    /\ kcJob[Caller].step = "idle"
    /\ LET job == [Free EXCEPT !.back = "select"]
       IN  IF usable_output_keyset_ids(Unit, Allowed) = {}
           THEN Refresh(Caller, job)
           ELSE Job(Caller, [job EXCEPT !.step = "select"])
    /\ kcLast' = "none"
    /\ UNCHANGED << kcSide, kcStatus, kcNow, kcCache, kcChosen, kcFaults >>

(* open_channel_from_token_auto and open_channel_from_proofs_auto *)
open_channel_auto == kcSide = "client" /\ EnsureCached

execute_close == kcSide = "server" /\ EnsureCached

(* fetch_active_keyset_info refreshes and searches the listing it got; the  *)
(* caller then opens with the keyset, and owns any retry.                   *)
fetch_active_output_keyset ==
    /\ kcSide = "client"
    /\ kcJob[Caller].step = "idle"
    /\ Refresh(Caller, [Free EXCEPT !.back = "pick",
           !.pick = select_active(KeysetDiscovery_from_json(Listing), Unit, Allowed)])
    /\ kcLast' = "none"
    /\ UNCHANGED << kcSide, kcStatus, kcNow, kcCache, kcChosen, kcFaults >>

(* What is known of the inputs: a token's or proofs'; a close needs nothing. *)
InputKeysets ==
    IF kcSide = "client"
    THEN {fetch_token_input_keysets(Unit), fetch_proof_input_keysets(Inputs, Unit)}
    ELSE {{}}

(* The swap is built with k; an opening's metadata must cover its inputs.   *)
Chosen(k, summaries, first) ==
    IF kcSide = "client" /\ ~(Inputs \subseteq {s.id : s \in summaries})
    THEN kcLast' = "failed" /\ Job(Caller, Free) /\ UNCHANGED kcChosen
    ELSE /\ kcChosen' = [id |-> k, info |-> kcCache[k].info, at |-> kcNow,
                         inputs |-> {s \in summaries : s.id \in Inputs}]
         /\ Job(Caller, [Free EXCEPT !.step = "submit", !.back = "select", !.first = first])
         /\ UNCHANGED kcLast

(* Any usable cached keyset may be the store's first.  The second time, an  *)
(* unchanged choice ends the call.                                          *)
first_cached_active_output_keyset ==
    /\ kcJob[Caller].step = "select"
    /\ LET usable == usable_output_keyset_ids(Unit, Allowed)
           first == kcJob[Caller].first
       IN  IF usable = {}
           THEN kcLast' = "failed" /\ Job(Caller, Free) /\ UNCHANGED kcChosen
           ELSE \E k \in usable, summaries \in InputKeysets :
                  IF k = first
                  THEN kcLast' = "failed" /\ Job(Caller, Free) /\ UNCHANGED kcChosen
                  ELSE Chosen(k, summaries, first)
    /\ UNCHANGED << kcSide, kcStatus, kcNow, kcCache, kcFaults >>

(* The picked keyset when the cache has it usable, else the first that is.  *)
(* No retry is left after it.                                               *)
cached_active_output_keyset ==
    /\ kcJob[Caller].step = "pick"
    /\ LET usable == usable_output_keyset_ids(Unit, Allowed)
           pick == kcJob[Caller].pick
       IN  IF pick = {} \/ usable = {}
           THEN kcLast' = "failed" /\ Job(Caller, Free) /\ UNCHANGED kcChosen
           ELSE \E k \in (IF pick \subseteq usable THEN pick ELSE usable),
                   summaries \in InputKeysets :
                  Chosen(k, summaries, k)
    /\ UNCHANGED << kcSide, kcStatus, kcNow, kcCache, kcFaults >>

(* The mint accepts outputs of an active keyset; otherwise one retry.       *)
with_active_keyset_retry ==
    /\ kcJob[Caller].step = "submit"
    /\ IF kcStatus[kcChosen.id] = "active"
       THEN Job(Caller, Free) /\ kcLast' = "accepted"
       ELSE IF kcJob[Caller].first = NoKeyset
       THEN Refresh(Caller, [kcJob[Caller] EXCEPT !.first = kcChosen.id]) /\ UNCHANGED kcLast
       ELSE Job(Caller, Free) /\ kcLast' = "failed"
    /\ kcChosen' = NoChoice
    /\ UNCHANGED << kcSide, kcStatus, kcNow, kcCache, kcFaults >>

CacheSteps(a) == KeysArrive(a) \/ HostStores(a) \/ RefreshDone(a)

CacheNext ==
    \/ KeysetMoves
    \/ CacheTick
    \/ \E a \in Agents : refresh(a)
    \/ \E a \in Agents : KeysArrive(a)
    \/ \E a \in Agents : KeysFail(a)
    \/ \E a \in Agents : HostStores(a)
    \/ \E a \in Agents : RefreshDone(a)
    \/ open_channel_auto
    \/ execute_close
    \/ fetch_active_output_keyset
    \/ cached_active_output_keyset
    \/ first_cached_active_output_keyset
    \/ with_active_keyset_retry

CacheSpec == CacheInit /\ [][CacheNext]_kcVars

(* Calls proceed, and the client or the server calls again. *)
CacheFairness ==
    /\ \A a \in Agents : WF_kcVars(CacheSteps(a))
    /\ WF_kcVars(open_channel_auto \/ fetch_active_output_keyset \/ execute_close)
    /\ WF_kcVars(cached_active_output_keyset)
    /\ WF_kcVars(first_cached_active_output_keyset)
    /\ WF_kcVars(with_active_keyset_retry)

-----------------------------------------------------------------------------
(* The versions a selection may have. *)
AllowedHere == IF kcSide = "client" THEN Allowed \cap {0, 1} ELSE {0, 1}

(* What a swap is built from is what the mint publishes, whichever          *)
(* refreshes were interrupted, damaged or interleaved: the output keyset is *)
(* of the unit, of an allowed version, unexpired when selected and has been *)
(* active, its keys derive its id; for an opening, the inputs' fees are the *)
(* mint's and cover every input keyset.                                     *)
SelectionSound ==
    kcChosen.id # NoKeyset =>
        LET m == Meta[kcChosen.id]
        IN  /\ m.byte \in AllowedHere /\ m.unit = Unit
            /\ \A t \in m.expiry : kcChosen.at < t
            /\ kcChosen.info = [id |-> kcChosen.id, unit |-> Unit, fee |-> m.fee,
                                expiry |-> m.expiry]
            /\ kcStatus[kcChosen.id] # "future"
            /\ kcSide = "client" =>
                  kcChosen.inputs = {[id |-> k, fee |-> Meta[k].fee] : k \in Inputs}

(* Keysets the caller may use, as the mint sees it. *)
Eligible == {k \in KeysetIds : /\ kcStatus[k] = "active" /\ Meta[k].unit = Unit
                               /\ Meta[k].byte \in AllowedHere
                               /\ \A t \in Meta[k].expiry : kcNow < t}

(* Nothing the cache calls active has dropped out of the listing, and an    *)
(* opening's input keysets are listed.                                      *)
NoneDelisted == /\ \A k \in KeysetIds : kcStatus[k] # "delisted"
                /\ kcSide = "client" => \A k \in Inputs : kcStatus[k] \in {"active", "retired"}

(* An interrupted refresh stored an output keyset and not an input's.  A    *)
(* token is then opened with what is cached, and fails.                     *)
InputsMissed == /\ kcSide = "client"
                /\ usable_output_keyset_ids(Unit, Allowed) # {}
                /\ \E k \in Inputs : kcCache[k] = NoKeyset

(* Clients and servers follow the mint's rotations: if an eligible keyset   *)
(* remains, the mint goes on listing what it retires and the input keysets  *)
(* are not missed for ever, openings and closes are accepted again and      *)
(* again, whatever stale entries interrupted and interleaved refreshes left *)
(* in the cache.                                                            *)
RotationsFollowed ==
    \/ []<>(Eligible = {})
    \/ <>[]InputsMissed
    \/ []<>(~NoneDelisted)
    \/ []<>(kcLast = "accepted" /\ kcJob[Caller].step = "idle")
=============================================================================
