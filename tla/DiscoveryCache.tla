--------------------------- MODULE DiscoveryCache ---------------------------
(***************************************************************************)
(* What continuous service discovery promises to its users: a cache that   *)
(* holds, for each registered key, either no address or the address of a   *)
(* service that answers to this key.  An address appears only by an answer *)
(* and disappears by its timeout or with the registration; a new           *)
(* registration never inherits the address of an old one.                  *)
(***************************************************************************)
CONSTANTS
  Keys,         \* what users register: <<name, type>>, the type may be NULL
  Services,     \* the services of the network, as <<name, type>>
  NULL,         \* no name, no type, no address
  Absent        \* the cache entry of a key that is not registered

VARIABLE cache  \* for each key: Absent, NULL or the service that answered

(* A service answers to its own key and to its name without a type. *)
Answers(s, k) == k = s \/ k = <<s[1], NULL>>

Init == cache = [k \in Keys |-> Absent]

Register(k) == cache[k] = Absent /\ cache' = [cache EXCEPT ![k] = NULL]

Unregister(k) == cache' = [cache EXCEPT ![k] = Absent]

Resolve(k, s) ==
  /\ cache[k] # Absent
  /\ Answers(s, k)
  /\ cache' = [cache EXCEPT ![k] = s]

Expire(k) == cache[k] # Absent /\ cache' = [cache EXCEPT ![k] = NULL]

Next == \E k \in Keys :
  \/ Register(k)
  \/ Unregister(k)
  \/ Expire(k)
  \/ \E s \in Services : Resolve(k, s)

Spec == Init /\ [][Next]_cache
=============================================================================
