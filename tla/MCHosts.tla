------------------------------- MODULE MCHosts -------------------------------
(***************************************************************************)
(* Model-checking instance of what surrounds the bridges: the keyset cache *)
(* and the receiver's and client's hosts behind a language binding.  Their *)
(* variables are disjoint and no step involves two of them, so one         *)
(* behaviour explores one of the modules, named by part, while the others  *)
(* stay in an initial state.                                               *)
(***************************************************************************)
EXTENDS KeysetCache, ForeignHost, ForeignClient, TLC

CONSTANTS k1, k2, k3

VARIABLE part

(* k1 may be retired while k2, which expires, takes its place; the version  *)
(* of k3 is not supported.                                                  *)
MCOrder == << k2, k1, k3 >>

MCMeta ==
    k1 :> [byte |-> 0, unit |-> "sat", fee |-> 1, expiry |-> {}]
    @@ k2 :> [byte |-> 1, unit |-> "sat", fee |-> 2, expiry |-> {1}]
    @@ k3 :> [byte |-> 2, unit |-> "sat", fee |-> 1, expiry |-> {}]

CacheIdle == CacheInit /\ kcSide = "client"
HostIdle == HostInit /\ fBinding = "go"
ClientIdle == ClientInit /\ cBinding = "go"

MCInit ==
    \/ part = "cache" /\ CacheInit /\ HostIdle /\ ClientIdle
    \/ part = "host" /\ CacheIdle /\ HostInit /\ ClientIdle
    \/ part = "client" /\ CacheIdle /\ HostIdle /\ ClientInit

MCNext ==
    /\ UNCHANGED part
    /\ \/ part = "cache" /\ CacheNext /\ UNCHANGED << hostVars, clientVars >>
       \/ part = "host" /\ HostNext /\ UNCHANGED << kcVars, clientVars >>
       \/ part = "client" /\ ClientNext /\ UNCHANGED << kcVars, hostVars >>

(* Only the cache's property needs fairness, and only its steps have it. *)
MCSpec ==
    /\ MCInit
    /\ [][MCNext]_<< part, kcVars, hostVars, clientVars >>
    /\ CacheFairness
=============================================================================
