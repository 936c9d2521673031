---------------------------- MODULE TranscriptCache ----------------------------
(***************************************************************************)
(* What the gateway promises its clients about one cache key, with no      *)
(* table, no files, no requests and no process: a key nobody asked for     *)
(* becomes wanted, a wanted key is served or given up, a key given up can  *)
(* be wanted again, and a key that is served stays served for ever.        *)
(***************************************************************************)
CONSTANT Key

VARIABLE entry    \* what a lookup of each key is answered with

Entry == {"unknown", "wanted", "given_up", "served"}

Init == entry = [k \in Key |-> "unknown"]

\* A first lookup, or a lookup after a failure.
Want(k) ==
  /\ entry[k] \in {"unknown", "given_up"}
  /\ entry' = [entry EXCEPT ![k] = "wanted"]

Serve(k) ==
  /\ entry[k] = "wanted"
  /\ entry' = [entry EXCEPT ![k] = "served"]

\* Uploads are expired together, one failure gives up one key.
GiveUp(S) ==
  /\ S # {}
  /\ \A k \in S : entry[k] = "wanted"
  /\ entry' = [k \in Key |-> IF k \in S THEN "given_up" ELSE entry[k]]

Next ==
  \/ \E k \in Key : Want(k) \/ Serve(k)
  \/ \E S \in SUBSET Key : GiveUp(S)

Spec == Init /\ [][Next]_entry

=============================================================================
