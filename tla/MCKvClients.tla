----------------------------- MODULE MCKvClients -----------------------------
(* Two clients of the stub store.  A client makes two calls for its update,  *)
(* two more for each mismatch and each time-out it meets; the other client   *)
(* commits at most once and once more for each of its time-outs.             *)
EXTENDS KvClients

CONSTANTS alice, bob
MCClients  == {alice, bob}
MCValues   == {{}, {alice}, {bob}, {alice, bob}}
MCMaxTries == 8
MCRequests == MCClients \X (1..MCMaxTries)
=============================================================================
