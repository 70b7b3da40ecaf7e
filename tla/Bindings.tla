------------------------------ MODULE Bindings ------------------------------
(***************************************************************************)
(* What the adapters of the language bindings make of a callback that      *)
(* raises or that answers with something unreadable.  The faults a         *)
(* callback can show are the fields of its entry in the adapter; "ok" is a *)
(* failure the adapter drops.                                              *)
(***************************************************************************)

CONSTANT HostBindings    \* the bindings a run explores

ASSUME BindingsAssumption == HostBindings \subseteq {"go", "python", "wasm"}

Raises(seen) == [raised |-> seen]
Both(seen) == [raised |-> seen, malformed |-> seen]

(* The callbacks of two parts of an adapter. *)
Joined(f, g) ==
    [callback \in DOMAIN f \cup DOMAIN g |->
        IF callback \in DOMAIN f THEN f[callback] ELSE g[callback]]

(* What the bridge can see of a callback. *)
SeenValues == {"value", "ok", "zero", "none", "err", "abort"}
=============================================================================
